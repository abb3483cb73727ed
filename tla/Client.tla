------------------------------- MODULE Client -------------------------------
(***************************************************************************)
(* The benchmark's operations: Client (core/client.h) drawing keys from    *)
(* the CoreWorkload the workers share, and calling RocksDBCloud, whose     *)
(* records survive the process.  It composes with Driver: main, the        *)
(* statistics threads and the ends of the process are Driver's actions,    *)
(* and its one-step WorkerOp is replaced by the steps of DoInsert and of   *)
(* the five transactions, between which other workers run.                 *)
(***************************************************************************)
EXTENDS Driver

CONSTANTS
  InsertStart,         \* the insertstart property
  RequestDist,         \* the requestdistribution property
  NewKeys,             \* operationcount * insertproportion * 2: keys a zipfian
                       \* chooser may draw beyond the records
  Ordered,             \* insertorder: FALSE is "hashed"
  Hash(_),             \* utils::Hash
  Fields,              \* the fields of a record (fieldcount of them)
  WriteAllFields,      \* the writeallfields property
  UniformInsertStart,  \* what uniform_insert_counter starts at (1000000)
  Ops                  \* the operations with a proportion above zero

ASSUME ClientAssumption ==
  /\ InsertStart \in Nat
  /\ RequestDist \in {"uniform", "zipfian", "latest"}
  /\ RecordCount >= 3   \* below it the zipfian generators' assertions fail
  /\ NewKeys \in Nat
  /\ Ordered \in BOOLEAN
  /\ WriteAllFields \in BOOLEAN
  /\ UniformInsertStart \in Nat
  /\ Ops \subseteq {"READ", "UPDATE", "INSERT", "SCAN", "RMW"}
  /\ Ops # {}

VARIABLES
  key_generator,           \* the phase's CoreWorkload::key_generator_
  uniform_insert_counter,  \* the global of client.h
  op,                      \* the operation each worker is executing
  noResult,                \* RocksDBCloud::noResult
  store,                   \* the records of the DB: key name -> fields present
  misses,                  \* history: the reads of this process that found nothing
  loaded                   \* history: the most records a completed load reported

clientVars == <<key_generator, uniform_insert_counter, op, noResult, store, misses, loaded>>
allVars    == <<vars, clientVars>>

Idle == [step |-> "idle", kind |-> "none", num |-> 0, reg |-> 0]

Kinds == {"LOAD", "READ", "UPDATE", "INSERT", "SCAN", "RMW"}

ClientTypeOK ==
  /\ TypeOK
  /\ key_generator \in Nat
  /\ uniform_insert_counter \in Nat
  /\ op \in [Workers -> [step : {"idle", "get", "miss", "count", "put", "scan"},
                         kind : Kinds \cup {"none"}, num : Nat, reg : Nat]]
  /\ noResult \in Nat
  /\ \A n \in DOMAIN store : store[n] \subseteq Fields
  /\ misses \in Nat
  /\ loaded \in Nat

ClientInit ==
  /\ Init
  /\ key_generator = InsertStart
  /\ uniform_insert_counter = UniformInsertStart
  /\ op = [k \in Workers |-> Idle]
  /\ noResult = 0
  /\ store = << >>
  /\ misses = 0
  /\ loaded = 0

-----------------------------------------------------------------------------
(* CoreWorkload *)

\* The key numbers of transactions: KeyNums, NextTransactionKey.
INSTANCE KeySpace

\* The number in the key's name "user<number>".
BuildKeyName(n) == IF Ordered THEN n ELSE Hash(n)

\* Mutant of NameOf: only loading hashes the key.
NameOfUnhashed(o) == IF o.kind # "LOAD" THEN o.num ELSE BuildKeyName(o.num)

\* The key name an operation uses: a transaction's insert does not hash.
NameOf(o) == IF o.kind = "INSERT" THEN o.num ELSE BuildKeyName(o.num)

\* BuildValues, or BuildUpdate's single field.
ValuesOf(o) ==
  IF o.kind \in {"LOAD", "INSERT"} \/ WriteAllFields
  THEN {Fields}
  ELSE {{f} : f \in Fields}

-----------------------------------------------------------------------------
(* Client::DoInsert and Client::DoTransaction, on worker k *)

InClient(k, step) == InLoop(k) /\ op[k].step = step

\* The worker goes on inside its operation.
OpGoes(k, o) ==
  /\ op' = [op EXCEPT ![k] = o]
  /\ UNCHANGED vars

\* The operation returned kOK: back in the loop of DelegateClient.
OpDone(k) ==
  /\ op' = [op EXCEPT ![k] = Idle]
  /\ WorkerOp(k)

StartOp(k, kind, step, num) ==
  OpGoes(k, [step |-> step, kind |-> kind, num |-> num, reg |-> 0])

\* Mutant of DoInsert: it uses the counter's Last().
DoInsertLast(k) ==
  /\ InClient(k, "idle") /\ phase = "load"
  /\ key_generator' = key_generator + 1
  /\ StartOp(k, "LOAD", "put", key_generator - 1)
  /\ UNCHANGED <<uniform_insert_counter, noResult, store, misses, loaded>>

\* DoInsert takes the next key of the shared counter (fetch_add).
DoInsert(k) ==
  /\ InClient(k, "idle") /\ phase = "load"
  /\ key_generator' = key_generator + 1
  /\ StartOp(k, "LOAD", "put", key_generator)
  /\ UNCHANGED <<uniform_insert_counter, noResult, store, misses, loaded>>

\* Mutant of TransactionInsert: load() in place of fetch_add(1).
TransactionInsertLoad(k) ==
  /\ InClient(k, "idle") /\ phase = "run" /\ "INSERT" \in Ops
  /\ StartOp(k, "INSERT", "put", uniform_insert_counter)
  /\ UNCHANGED <<key_generator, uniform_insert_counter, noResult, store, misses, loaded>>

\* TransactionInsert takes its key from the global counter.
TransactionInsert(k) ==
  /\ InClient(k, "idle") /\ phase = "run" /\ "INSERT" \in Ops
  /\ uniform_insert_counter' = uniform_insert_counter + 1
  /\ StartOp(k, "INSERT", "put", uniform_insert_counter)
  /\ UNCHANGED <<key_generator, noResult, store, misses, loaded>>

\* The other transactions draw a key; where they go with it.
FirstStep == [READ |-> "get", RMW |-> "get", UPDATE |-> "put", SCAN |-> "scan"]

TransactionStart(k, kind) ==
  /\ InClient(k, "idle") /\ phase = "run" /\ kind \in Ops
  /\ \E n \in NextTransactionKey : StartOp(k, kind, FirstStep[kind], n)
  /\ UNCHANGED <<key_generator, uniform_insert_counter, noResult, store, misses, loaded>>

-----------------------------------------------------------------------------
(* RocksDBCloud (and BasicDB, which keeps nothing), on worker k *)

\* A call that reaches records: not one through BasicDB or a wild pointer.
Reaches == cmd.dbname = "rocksdb-cloud" /\ db = "open"

Present(k) == ~Reaches \/ NameOf(op[k]) \in DOMAIN store

\* A read is an operation of its own, or the first half of RMW.
AfterRead(k) ==
  IF op[k].kind = "RMW" THEN OpGoes(k, [op[k] EXCEPT !.step = "put"]) ELSE OpDone(k)

\* Mutant of ReadHit: noResult++ stands outside the NotFound branch.
ReadHitCounted(k) ==
  /\ InClient(k, "get") /\ Present(k)
  /\ OpGoes(k, [op[k] EXCEPT !.step = "miss"])
  /\ UNCHANGED <<key_generator, uniform_insert_counter, noResult, store, misses, loaded>>

\* Read: the record was found.
ReadHit(k) ==
  /\ InClient(k, "get") /\ Present(k)
  /\ AfterRead(k)
  /\ UNCHANGED <<key_generator, uniform_insert_counter, noResult, store, misses, loaded>>

\* Read: NotFound.  `noResult++` is a load and a store, and Read returns kOK.
ReadMiss(k) ==
  /\ InClient(k, "get") /\ ~Present(k)
  /\ misses' = misses + 1
  /\ OpGoes(k, [op[k] EXCEPT !.step = "miss"])
  /\ UNCHANGED <<key_generator, uniform_insert_counter, noResult, store, loaded>>

MissLoad(k) ==
  /\ InClient(k, "miss")
  /\ OpGoes(k, [op[k] EXCEPT !.step = "count", !.reg = noResult])
  /\ UNCHANGED <<key_generator, uniform_insert_counter, noResult, store, misses, loaded>>

\* Mutant of MissStore: a compare-exchange that is retried with the old value.
MissStoreStale(k) ==
  /\ InClient(k, "count") /\ noResult = op[k].reg
  /\ noResult' = op[k].reg + 1
  /\ AfterRead(k)
  /\ UNCHANGED <<key_generator, uniform_insert_counter, store, misses, loaded>>

MissStore(k) ==
  /\ InClient(k, "count")
  /\ noResult' = op[k].reg + 1
  /\ AfterRead(k)
  /\ UNCHANGED <<key_generator, uniform_insert_counter, store, misses, loaded>>

\* The record of the key becomes exactly the fields of the call.
Put(name, fs) ==
  store' = [n \in DOMAIN store \cup {name} |-> IF n = name THEN fs ELSE store[n]]

\* Mutant of Write: Put's status is not looked at.
WriteUnchecked(k) ==
  /\ InClient(k, "put")
  /\ \/ UNCHANGED store
     \/ Reaches /\ \E fs \in ValuesOf(op[k]) : Put(NameOf(op[k]), fs)
  /\ OpDone(k)
  /\ UNCHANGED <<key_generator, uniform_insert_counter, noResult, misses, loaded>>

\* Insert, and Update, which is Insert.
Write(k) ==
  /\ InClient(k, "put")
  /\ IF Reaches
     THEN \E fs \in ValuesOf(op[k]) : Put(NameOf(op[k]), fs)
     ELSE UNCHANGED store
  /\ OpDone(k)
  /\ UNCHANGED <<key_generator, uniform_insert_counter, noResult, misses, loaded>>

\* Scan walks the iterator and keeps nothing; an iterator's error goes unseen.
Scan(k) ==
  /\ InClient(k, "scan")
  /\ OpDone(k)
  /\ UNCHANGED <<key_generator, uniform_insert_counter, noResult, store, misses, loaded>>

\* Get or Put answered with an error: exit(0).
OpFails(k) ==
  /\ op[k].step \in {"get", "put"}
  /\ WorkerFails(k)
  /\ UNCHANGED clientVars

ClientWorkerNext(k) ==
  \/ DoInsert(k) \/ TransactionInsert(k)
  \/ \E kind \in DOMAIN FirstStep : TransactionStart(k, kind)
  \/ ReadHit(k) \/ ReadMiss(k) \/ MissLoad(k) \/ MissStore(k)
  \/ Write(k) \/ Scan(k) \/ OpFails(k)
  \/ (WorkerInit(k) \/ WorkerReturn(k) \/ ExitProcess(k)) /\ UNCHANGED clientVars

-----------------------------------------------------------------------------
(* main *)

\* A new CoreWorkload has a new key generator.
ClientInitWorkload ==
  /\ InitWorkload
  /\ key_generator' = InsertStart
  /\ UNCHANGED <<uniform_insert_counter, op, noResult, store, misses, loaded>>

\* "loading records:%d": what a load over an open DB reports.
ClientEndPhase ==
  /\ EndPhase
  /\ loaded' = IF phase = "load" /\ Reaches /\ sum > loaded THEN sum ELSE loaded
  /\ UNCHANGED <<key_generator, uniform_insert_counter, op, noResult, store, misses>>

ClientMainNext ==
  \/ ClientInitWorkload \/ ClientEndPhase
  \/ /\ \/ CreateBasic \/ CreateCloud \/ CreateCloudExit \/ CreateUnknown
        \/ InitThrows \/ LaunchWorker \/ LaunchThrows \/ EndLaunch \/ JoinWorker
        \/ PrintStats \/ SetFinish \/ WaitCompaction \/ SetDone
        \/ JoinMy \/ JoinRocks \/ JoinThrows \/ DeleteDB \/ Return
     /\ UNCHANGED clientVars

\* Mutant of ClientRestart: the writes bypass the write-ahead log.
ClientRestartNoLog ==
  /\ Restart
  /\ key_generator' = InsertStart
  /\ uniform_insert_counter' = UniformInsertStart
  /\ op' = [k \in Workers |-> Idle]
  /\ noResult' = 0
  /\ misses' = 0
  /\ \E kept \in SUBSET DOMAIN store : store' = [n \in kept |-> store[n]]
  /\ UNCHANGED loaded

\* A process starts with fresh globals and the records that were written:
\* Put without sync reaches the write-ahead log before it returns, which a
\* process that dies does not lose.
ClientRestart ==
  /\ Restart
  /\ key_generator' = InsertStart
  /\ uniform_insert_counter' = UniformInsertStart
  /\ op' = [k \in Workers |-> Idle]
  /\ noResult' = 0
  /\ misses' = 0
  /\ UNCHANGED <<store, loaded>>

ClientNext ==
  \/ ClientMainNext
  \/ \E k \in Workers : ClientWorkerNext(k)
  \/ (MyNext \/ RocksNext \/ WildCall \/ Kill \/ Over) /\ UNCHANGED clientVars
  \/ ClientRestart

(***************************************************************************)
(* As Driver's fairness, worker by worker step by step.  A draw that is    *)
(* thrown back leaves the state as it is, so fairness of the worker also   *)
(* says that a random draw is accepted at some time.                       *)
(***************************************************************************)
ClientFairness ==
  /\ WF_allVars(ClientMainNext)
  /\ \A k \in Workers : WF_allVars(ClientWorkerNext(k))
  /\ WF_allVars(MyNext /\ UNCHANGED clientVars)
  /\ WF_allVars(RocksNext /\ UNCHANGED clientVars)

ClientSpec     == ClientInit /\ [][ClientNext]_allVars
ClientFairSpec == ClientSpec /\ ClientFairness

-----------------------------------------------------------------------------
(* Properties *)

\* The key numbers 0..., as the load phase hands them out, that a load
\* reporting n records has written.
LoadedNums(n) == InsertStart..(InsertStart + n - 1)

(***************************************************************************)
(* Once a load over an open DB has reported n records, the records of the  *)
(* first n keys from insertstart on are in the DB, and stay there through  *)
(* every later operation, crash and process: the workers share one key     *)
(* counter, and no key is skipped or handed out twice in place of another. *)
(***************************************************************************)
LoadIsDurable == \A n \in LoadedNums(loaded) : BuildKeyName(n) \in DOMAIN store

(***************************************************************************)
(* While a load is under way, no key that was handed out is lost: it is in *)
(* the DB or a worker still has to write it (or failed on it and is about  *)
(* to end the process).                                                    *)
(***************************************************************************)
NoKeyLost ==
  (Running /\ phase = "load" /\ wl /\ Reaches) =>
    \A n \in InsertStart..(key_generator - 1) :
      \/ BuildKeyName(n) \in DOMAIN store
      \/ \E k \in Workers : op[k].step = "put" /\ op[k].num = n

(***************************************************************************)
(* "read not found:%d" never counts a miss that did not happen, and counts *)
(* at least one when there were any, although two readers that miss at     *)
(* once may count only one.                                                *)
(***************************************************************************)
NotFoundBounds ==
  /\ noResult <= misses
  /\ WorkDone /\ misses > 0 => noResult > 0

(***************************************************************************)
(* A read or a read-modify-write never misses a record that a completed    *)
(* load reported: what NextTransactionKey can draw beyond those records is *)
(* the remainder that integer division left unloaded.                      *)
(***************************************************************************)
LoadedNeverMissed ==
  [][\A k \in Workers :
       op[k].step = "get" /\ op'[k].step = "miss" =>
         op[k].num \notin LoadedNums(loaded)]_allVars

\* Worker k is about to write the record of a transaction's insert.
Inserting(k) == op[k].step = "put" /\ op[k].kind = "INSERT"

(***************************************************************************)
(* Within the first process over a DB, a transaction's insert creates a    *)
(* record: two workers never insert the same key, and no insert falls on a *)
(* key that was loaded or updated.  (The counter starts anew in each       *)
(* process, so a later one inserts the same keys again.)                   *)
(***************************************************************************)
InsertCreates ==
  [][\A k \in Workers :
       lives = 1 /\ Inserting(k) /\ Reaches /\ worker'[k].i = worker[k].i + 1 =>
         NameOf(op[k]) \notin DOMAIN store]_allVars

(***************************************************************************)
(* README.md: "Specify how many records to load by the recordcount         *)
(* property."  A completed load of a fresh process has loaded as many.     *)
(* (It loads recordcount div threadcount per thread.)                      *)
(***************************************************************************)
RecordCountLoaded == loaded > 0 => loaded = RecordCount
=============================================================================
