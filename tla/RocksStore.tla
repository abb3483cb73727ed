----------------------------- MODULE RocksStore -----------------------------
(***************************************************************************)
(* The DB over a local RocksDB (db/rocksdb_db.cc): its constructor, its    *)
(* operations by several clients, the bytes a record is stored as (the     *)
(* same in db/rocksdb_cloud_db.cc, with lib/coding.h), and the ends of the *)
(* process.  What was put survives the process.                            *)
(***************************************************************************)
EXTENDS Integers, Sequences, FiniteSets, Functions

CONSTANTS
  Clients, Keys, Fields, Values,  \* fields and values are sequences of bytes
  Base,       \* the values of a byte (256)
  Width,      \* the bytes of a fixed-width integer (8)
  Vectors,    \* the vectors of field/value pairs of the calls
  Ops,        \* the operations of the calls
  MaxCalls,   \* bound: the calls of all clients together
  MaxLives    \* bound: the processes, one after another

Byte == 0..(Base - 1)

\* What the byte at offset i of an integer counts for: value >> 8 * i.
Weight[i \in 0..Width] == IF i = 0 THEN 1 ELSE Base * Weight[i - 1]

ASSUME RocksAssumption ==
  /\ IsFiniteSet(Clients)
  /\ Base \in Nat /\ Base >= 2
  /\ Width \in Nat \ {0}
  /\ Ops \subseteq {"Read", "Scan", "Insert", "Update", "Delete"}
  /\ Vectors \subseteq Seq(Fields \X Values)
  /\ \A s \in Fields \cup Values : s \in Seq(Byte) /\ Len(s) < Weight[Width]
  /\ \A vs \in Vectors :
       /\ Len(vs) < Weight[Width]
       /\ \A i, j \in DOMAIN vs : vs[i][1] = vs[j][1] => i = j
  /\ MaxCalls \in Nat
  /\ MaxLives \in Nat \ {0}

VARIABLES
  store,     \* the RocksDB: key -> bytes
  put,       \* history: the pairs each key of it was last given
  proc,      \* "new" | "open" | "exited" | "returned"
  cl,        \* what each client is doing
  ans,       \* the answer to each client's last call
  noResult,  \* RocksDB::noResult
  calls,     \* how many calls there were
  lives      \* how many processes there were

vars == <<store, put, proc, cl, ans, noResult, calls, lives>>

-----------------------------------------------------------------------------
(* lib/coding.h, SerializeValues and DeSerializeValues *)

\* Mutant of EncodeFixed64: the low byte is not cut off.
EncodeFixedUncut(n) == [i \in 1..Width |-> n \div Weight[i - 1]]

\* Little endian.
EncodeFixed64(n) == [i \in 1..Width |-> (n \div Weight[i - 1]) % Base]

\* The byte at an offset; c_str() ends with a zero byte.
At(s, off) == IF off < Len(s) THEN s[off + 1] ELSE 0

DecodeFixed64(s, off) ==
  LET sum[i \in 0..Width] ==
        IF i = 0 THEN 0 ELSE sum[i - 1] + At(s, off + i - 1) * Weight[i - 1]
  IN sum[Width]

\* A string after its length.
PutString(s) == EncodeFixed64(Len(s)) \o s

SerializeValues(kvs) ==
  LET value[i \in 0..Len(kvs)] ==
        IF i = 0 THEN EncodeFixed64(Len(kvs))
        ELSE value[i - 1] \o PutString(kvs[i][1]) \o PutString(kvs[i][2])
  IN value[Len(kvs)]

\* Mutant of EndOf: the offset is not moved past the string.
EndOfLength(s, off) == off + Width

\* Where the string after the length at an offset ends.
EndOf(s, off) == off + Width + DecodeFixed64(s, off)

\* pair.first.assign(value.c_str() + offset, size)
StringAt(s, off) == SubSeq(s, off + Width + 1, EndOf(s, off))

\* The pairs, and the offset the loop ends at.
DeSerializeValues(s) ==
  LET kv_num == DecodeFixed64(s, 0)
      dec[i \in 0..kv_num] ==
        IF i = 0 THEN [kvs |-> << >>, offset |-> Width]
        ELSE LET done == dec[i - 1]
                 at   == done.offset
                 mid  == EndOf(s, at)
             IN [kvs    |-> Append(done.kvs, <<StringAt(s, at), StringAt(s, mid)>>),
                 offset |-> EndOf(s, mid)]
  IN dec[kv_num]

-----------------------------------------------------------------------------
(* The process *)

\* The record a vector of pairs with distinct fields stands for.
AsRecord(kvs) ==
  [f \in {kvs[i][1] : i \in DOMAIN kvs} |-> (CHOOSE v \in Range(kvs) : v[1] = f)[2]]

NoCall == [op |-> "none", key |-> "none", fields |-> {}, values |-> << >>, len |-> 0]

Idle == [pc |-> "idle", call |-> NoCall, kvs |-> << >>, reg |-> 0]

NoAnswer == [call |-> NoCall, code |-> 0, rows |-> << >>]

Init ==
  /\ store = << >>
  /\ put = << >>
  /\ proc = "new"
  /\ cl = [c \in Clients |-> Idle]
  /\ ans = [c \in Clients |-> NoAnswer]
  /\ noResult = 0
  /\ calls = 0
  /\ lives = 1

\* The histograms, the two output files, DB::Open.
Construct ==
  /\ proc = "new"
  /\ proc' = "open"
  /\ UNCHANGED <<store, put, cl, ans, noResult, calls, lives>>

\* One of them fails: exit(0), before any client has the DB.
ConstructExit ==
  /\ proc = "new"
  /\ proc' = "exited"
  /\ UNCHANGED <<store, put, cl, ans, noResult, calls, lives>>

\* ~RocksDB, once the clients are done.
Destroy ==
  /\ proc = "open" /\ \A c \in Clients : cl[c].pc = "idle"
  /\ proc' = "returned"
  /\ UNCHANGED <<store, put, cl, ans, noResult, calls, lives>>

\* Another process, over the same DB; this one ended or is killed.
Restart ==
  /\ lives < MaxLives
  /\ lives' = lives + 1
  /\ proc' = "new"
  /\ cl' = [c \in Clients |-> Idle]
  /\ ans' = [c \in Clients |-> NoAnswer]
  /\ noResult' = 0
  /\ UNCHANGED <<store, put, calls>>

-----------------------------------------------------------------------------
(* The operations *)

Call(c) ==
  /\ proc = "open" /\ cl[c].pc = "idle" /\ calls < MaxCalls
  /\ \E op \in Ops, k \in Keys :
       \E kvs \in IF op \in {"Insert", "Update"} THEN Vectors ELSE {<< >>} :
         cl' = [cl EXCEPT ![c] =
                  [Idle EXCEPT !.pc = "called", !.kvs = kvs,
                               !.call = [op |-> op, key |-> k, fields |-> {},
                                         values |-> AsRecord(kvs), len |-> 0]]]
  /\ ans' = [ans EXCEPT ![c] = NoAnswer]
  /\ calls' = calls + 1
  /\ UNCHANGED <<store, put, proc, noResult, lives>>

In(c, ops, pc) == proc = "open" /\ cl[c].call.op \in ops /\ cl[c].pc = pc

Goes(c, o) == cl' = [cl EXCEPT ![c] = o] /\ UNCHANGED ans

Result(c, rows) == [call |-> cl[c].call, code |-> 0, rows |-> rows]

\* return DB::kOK
Answer(c, rows) ==
  /\ cl' = [cl EXCEPT ![c] = Idle]
  /\ ans' = [ans EXCEPT ![c] = Result(c, rows)]

\* db_->Get: ok; DeSerializeValues(value, result), whatever the fields asked for.
ReadHit(c) ==
  /\ In(c, {"Read"}, "called") /\ cl[c].call.key \in DOMAIN store
  /\ Answer(c, <<AsRecord(DeSerializeValues(store[cl[c].call.key]).kvs)>>)
  /\ UNCHANGED <<store, put, proc, noResult, calls, lives>>

\* db_->Get: NotFound; noResult++ loads...
ReadMiss(c) ==
  /\ In(c, {"Read"}, "called") /\ cl[c].call.key \notin DOMAIN store
  /\ Goes(c, [cl[c] EXCEPT !.pc = "count", !.reg = noResult])
  /\ UNCHANGED <<store, put, proc, noResult, calls, lives>>

\* ...and stores, and Read returns kOK with no row.
ReadCount(c) ==
  /\ In(c, {"Read"}, "count")
  /\ noResult' = cl[c].reg + 1
  /\ Answer(c, << >>)
  /\ UNCHANGED <<store, put, proc, calls, lives>>

\* The iterator is walked, and what it yields is thrown away.
Scan(c) ==
  /\ In(c, {"Scan"}, "called")
  /\ Answer(c, << >>)
  /\ UNCHANGED <<store, put, proc, noResult, calls, lives>>

With(f, x, v) == [y \in DOMAIN f \cup {x} |-> IF y = x THEN v ELSE f[y]]

\* Mutant of Insert: Put's status is not looked at.
InsertUnchecked(c) ==
  /\ In(c, {"Insert", "Update"}, "called")
  /\ \/ UNCHANGED <<store, put>>
     \/ /\ store' = With(store, cl[c].call.key, SerializeValues(cl[c].kvs))
        /\ put' = With(put, cl[c].call.key, cl[c].kvs)
  /\ Answer(c, << >>)
  /\ UNCHANGED <<proc, noResult, calls, lives>>

\* SerializeValues, db_->Put; Update is Insert.
Insert(c) ==
  /\ In(c, {"Insert", "Update"}, "called")
  /\ store' = With(store, cl[c].call.key, SerializeValues(cl[c].kvs))
  /\ put' = With(put, cl[c].call.key, cl[c].kvs)
  /\ Answer(c, << >>)
  /\ UNCHANGED <<proc, noResult, calls, lives>>

\* db_->Delete
Delete(c) ==
  /\ In(c, {"Delete"}, "called")
  /\ store' = Restrict(store, DOMAIN store \ {cl[c].call.key})
  /\ put' = Restrict(put, DOMAIN put \ {cl[c].call.key})
  /\ Answer(c, << >>)
  /\ UNCHANGED <<proc, noResult, calls, lives>>

\* Get, Put or Delete with any other status: exit(0).
Fails(c) ==
  /\ In(c, {"Read", "Insert", "Update", "Delete"}, "called")
  /\ proc' = "exited"
  /\ UNCHANGED <<store, put, cl, ans, noResult, calls, lives>>

Over ==
  /\ proc \in {"exited", "returned"} /\ lives = MaxLives
  /\ UNCHANGED vars

Next ==
  \/ Construct \/ ConstructExit \/ Destroy \/ Restart \/ Over
  \/ \E c \in Clients :
       \/ Call(c) \/ ReadHit(c) \/ ReadMiss(c) \/ ReadCount(c)
       \/ Scan(c) \/ Insert(c) \/ Delete(c) \/ Fails(c)

Spec == Init /\ [][Next]_vars

-----------------------------------------------------------------------------
(* Properties *)

RocksTypeOK ==
  /\ Range(store) \subseteq Seq(Byte)
  /\ proc \in {"new", "open", "exited", "returned"}
  /\ \A c \in Clients :
       /\ cl[c].pc \in {"idle", "called", "count"}
       /\ cl[c].call.op \in Ops \cup {"none"}
       /\ cl[c].kvs \in Vectors \cup {<< >>}
       /\ cl[c].reg \in Nat
       /\ ans[c].code = 0
  /\ noResult \in 0..MaxCalls
  /\ calls \in 0..MaxCalls
  /\ lives \in 1..MaxLives

(***************************************************************************)
(* Whatever is stored decodes to the pairs that were put, in their order,  *)
(* and the decoder ends exactly at the last byte: it trusts the lengths it *)
(* finds and checks none of them against value.size().                     *)
(***************************************************************************)
DecodesExactly ==
  /\ DOMAIN store = DOMAIN put
  /\ \A k \in DOMAIN store :
       DeSerializeValues(store[k]) = [kvs |-> put[k], offset |-> Len(store[k])]

\* The records, and the answers: a miss is settled by what Get returned,
\* before it is counted.
Blobs == INSTANCE RecordStore WITH
  rec <- [k \in DOMAIN put |-> AsRecord(put[k])],
  ans <- [c \in Clients |-> IF cl[c].pc = "count" THEN Result(c, << >>) ELSE ans[c]]

(***************************************************************************)
(* Every call has the effect and the answer of the blob contract at one    *)
(* instant, whatever the other clients do meanwhile, and what was written  *)
(* is what a later process reads.                                          *)
(***************************************************************************)
ImplementsBlobs == Blobs!BlobSpec
=============================================================================
