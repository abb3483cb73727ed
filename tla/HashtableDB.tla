---------------------------- MODULE HashtableDB ----------------------------
(***************************************************************************)
(* HashtableDB (db/hashtable_db.cc): records as a hashtable of hashtables  *)
(* of heap strings, shared by several clients without a lock of its own.   *)
(* The two levels of hashtables are thread-safe (external: each call is    *)
(* one step), the operations made of several such calls are not atomic,    *)
(* and the strings and field tables are freed by hand.                     *)
(***************************************************************************)
EXTENDS Integers, Sequences, FiniteSets, Functions, FiniteSetsExt

CONSTANTS
  Clients, Keys, Fields, Values,
  FieldLists,  \* the field lists of the calls, NULL among them
  ValueLists,  \* the vectors of field/value pairs of the calls
  Garbage,     \* what is read from a string that was freed, if not some value
  MaxCalls,    \* bound: the calls of all clients together
  Workloads    \* which client may issue which operation on which key

(***************************************************************************)
(* A workload is a set of <<client, operation, key>>.  Reads, scans,       *)
(* inserts and updates of one key by several clients are all in it, as     *)
(* Client makes them with the one key chooser of all threads.  No client   *)
(* of core/client.h calls Delete: a client that does has its keys for      *)
(* itself.                                                                 *)
(***************************************************************************)
Touches(w, c, k) == \E op \in {"Read", "Insert", "Update", "Delete"} : <<c, op, k>> \in w

ASSUME HashtableAssumption ==
  /\ IsFiniteSet(Keys)
  /\ FieldLists \subseteq SUBSET Fields
  /\ Garbage \notin Values
  /\ \A vs \in ValueLists :
       /\ vs \in Seq(Fields \X Values) /\ vs # << >>
       /\ \A i, j \in DOMAIN vs : vs[i][1] = vs[j][1] => i = j
  /\ MaxCalls \in Nat
  /\ \A w \in Workloads :
       /\ w \subseteq Clients \X {"Read", "Scan", "Insert", "Update", "Delete"} \X Keys
       /\ \A c, d \in Clients, k \in Keys : c # d /\ <<c, "Delete", k>> \in w =>
            ~Touches(w, d, k) /\ \A j \in Keys : <<d, "Scan", j>> \notin w

VARIABLES
  workload,   \* the workload of this behaviour
  key_table,  \* key_table_: key -> field table
  tables,     \* the live field tables: field -> string
  strings,    \* the live heap strings: their contents
  cl,         \* what each client is doing
  ans,        \* the last answer to each client, of a call no other one disturbs
  seen,       \* the last answer to each client, of another call
  calls       \* how many calls there were

vars == <<workload, key_table, tables, strings, cl, ans, seen, calls>>

\* Addresses: the allocator returns the lowest free one, so freed ones recur.
NewAddress(live) == CHOOSE a \in 1..(Cardinality(live) + 1) : a \notin live

(***************************************************************************)
(* A call: where it is, its arguments (fields to read, NULL being all),    *)
(* the pairs it still has to write, the field tables it still has to       *)
(* visit, the string pointers it holds, the rows read so far, and          *)
(* (history) what was under its key.                                       *)
(***************************************************************************)
NoCall == [op |-> "none", key |-> "none", fields |-> {}, values |-> << >>, len |-> 0]

Idle == [pc |-> "idle", call |-> NoCall, vals |-> << >>, tabs |-> << >>, todo |-> {},
         ptrs |-> << >>, row |-> << >>, rows |-> << >>, was |-> << >>]

kOK            == 0
kErrorNoData   == 1
kErrorConflict == 2

NoAnswer == [call |-> NoCall, code |-> kOK, rows |-> << >>]

Init ==
  /\ workload \in Workloads
  /\ key_table = << >>
  /\ tables = << >>
  /\ strings = << >>
  /\ cl = [c \in Clients |-> Idle]
  /\ ans = [c \in Clients |-> NoAnswer]
  /\ seen = [c \in Clients |-> NoAnswer]
  /\ calls = 0

-----------------------------------------------------------------------------
(* StringHashtable, as HashtableDB uses it (external) *)

With(f, x, v)  == [y \in DOMAIN f \cup {x} |-> IF y = x THEN v ELSE f[y]]
Without(f, xs) == Restrict(f, DOMAIN f \ xs)

\* The contents of a field table.
Contents(t) == [f \in DOMAIN tables[t] |-> strings[tables[t][f]]]

\* What is under a key: no record, or one.
Under(k) == IF k \in DOMAIN key_table THEN <<Contents(key_table[k])>> ELSE << >>

-----------------------------------------------------------------------------
(* Calls and answers *)

NULL == {}   \* the field list that stands for all fields

\* The record a vector of pairs with distinct fields stands for.
AsRecord(vs) ==
  [f \in {vs[i][1] : i \in DOMAIN vs} |-> (CHOOSE v \in Range(vs) : v[1] = f)[2]]

Writes(c, k) == \E op \in {"Insert", "Update", "Delete"} : <<c, op, k>> \in workload

\* The keys the call of client c goes to: a scan goes to all.
Visited(c) == IF cl[c].call.op = "Scan" THEN Keys ELSE {cl[c].call.key}

\* No other client writes what the call of c goes to.
Undisturbed(c) == \A d \in Clients \ {c}, k \in Visited(c) : ~Writes(d, k)

\* The client goes on inside its call.
Goes(c, r) ==
  /\ cl' = [cl EXCEPT ![c] = r]
  /\ UNCHANGED <<workload, ans, seen>>

\* The call returns.
Answer(c, code, rows) ==
  LET a == [call |-> cl[c].call, code |-> code, rows |-> rows] IN
  /\ cl' = [cl EXCEPT ![c] = Idle]
  /\ IF Undisturbed(c)
     THEN ans' = [ans EXCEPT ![c] = a] /\ UNCHANGED seen
     ELSE seen' = [seen EXCEPT ![c] = a] /\ UNCHANGED ans
  /\ UNCHANGED workload

Call(c) ==
  /\ cl[c].pc = "idle" /\ calls < MaxCalls
  /\ calls' = calls + 1
  /\ \E op \in {"Read", "Scan", "Insert", "Update", "Delete"}, k \in Keys :
       /\ <<c, op, k>> \in workload
       /\ \E fs \in IF op \in {"Read", "Scan"} THEN FieldLists ELSE {NULL},
             vs \in IF op \in {"Insert", "Update"} THEN ValueLists ELSE {<< >>},
             n \in IF op = "Scan" THEN 0..Cardinality(Keys) ELSE {0} :
            cl' = [cl EXCEPT ![c] =
                     [Idle EXCEPT
                        !.pc = "called", !.vals = vs, !.was = Under(k),
                        !.call = [op |-> op, key |-> k, fields |-> fs,
                                  values |-> AsRecord(vs), len |-> n]]]
  /\ ans' = [ans EXCEPT ![c] = NoAnswer]
  /\ seen' = [seen EXCEPT ![c] = NoAnswer]
  /\ UNCHANGED <<workload, key_table, tables, strings>>

At(c, op, pc) == cl[c].call.op = op /\ cl[c].pc = pc

\* The operation goes on with field table t.
Visit(c, pc, ts) == Goes(c, [cl[c] EXCEPT !.pc = pc, !.tabs = ts, !.todo = cl[c].call.fields])

-----------------------------------------------------------------------------
(* Read and Scan *)

\* Mutant of ReadGet: the pointer is not compared with NULL.
ReadGetUnchecked(c) ==
  /\ At(c, "Read", "called")
  /\ Visit(c, "rows", <<IF cl[c].call.key \in DOMAIN key_table THEN key_table[cl[c].call.key] ELSE 0>>)
  /\ UNCHANGED <<key_table, tables, strings>>

\* key_table_->Get
ReadGet(c) ==
  /\ At(c, "Read", "called")
  /\ IF cl[c].call.key \in DOMAIN key_table
     THEN Visit(c, "rows", <<key_table[cl[c].call.key]>>)
     ELSE Answer(c, kErrorNoData, << >>)
  /\ UNCHANGED <<key_table, tables, strings>>

\* key_table_->Entries(key, len): at most len tables.  Where the hashtable
\* starts, in which order it goes and where it ends is up to it.
ScanEntries(c) ==
  /\ At(c, "Scan", "called")
  /\ \E n \in 0..Min({cl[c].call.len, Cardinality(DOMAIN key_table)}) :
       \E ks \in Injection(1..n, DOMAIN key_table) :
         Visit(c, "rows", [i \in 1..n |-> key_table[ks[i]]])
  /\ UNCHANGED <<key_table, tables, strings>>

\* field_table->Entries(), or field_table->Get of one of the fields: pointers.
RowPointers(c) ==
  /\ cl[c].pc = "rows" /\ cl[c].tabs # << >>
  /\ LET t == tables[Head(cl[c].tabs)] IN
       \/ /\ cl[c].call.fields = NULL
          /\ Goes(c, [cl[c] EXCEPT !.pc = "copy", !.ptrs = t])
       \/ \E f \in cl[c].todo :
            Goes(c, [cl[c] EXCEPT !.pc = "copy", !.todo = @ \ {f},
                                  !.ptrs = Restrict(t, DOMAIN t \cap {f})])
  /\ UNCHANGED <<key_table, tables, strings>>

\* Mutant of RowCopy: only the last field stays in the row.
RowCopyLast(c) ==
  /\ cl[c].pc = "copy"
  /\ LET row == [f \in DOMAIN cl[c].ptrs |->
                   IF cl[c].ptrs[f] \in DOMAIN strings THEN strings[cl[c].ptrs[f]] ELSE Garbage]
         o   == [cl[c] EXCEPT !.pc = "rows", !.ptrs = << >>, !.row = row]
     IN Goes(c, IF o.todo # {} THEN o
                ELSE [o EXCEPT !.row = << >>, !.rows = Append(@, row), !.tabs = Tail(@),
                               !.todo = o.call.fields])
  /\ UNCHANGED <<key_table, tables, strings>>

\* make_pair copies what the pointers point to, anything if the string was
\* freed; the row ends with its last field.
RowCopy(c) ==
  /\ cl[c].pc = "copy"
  /\ \E got \in [DOMAIN cl[c].ptrs -> Values \cup {Garbage}] :
       /\ \A f \in DOMAIN got :
            cl[c].ptrs[f] \in DOMAIN strings => got[f] = strings[cl[c].ptrs[f]]
       /\ LET row == [f \in DOMAIN cl[c].row \cup DOMAIN got |->
                        IF f \in DOMAIN got THEN got[f] ELSE cl[c].row[f]]
              o   == [cl[c] EXCEPT !.pc = "rows", !.ptrs = << >>, !.row = row]
          IN Goes(c, IF o.todo # {} THEN o
                     ELSE [o EXCEPT !.row = << >>, !.rows = Append(@, row), !.tabs = Tail(@),
                                    !.todo = o.call.fields])
  /\ UNCHANGED <<key_table, tables, strings>>

ReadReturn(c) ==
  /\ cl[c].pc = "rows" /\ cl[c].tabs = << >>
  /\ Answer(c, kOK, cl[c].rows)
  /\ UNCHANGED <<key_table, tables, strings>>

-----------------------------------------------------------------------------
(* Insert and Update *)

\* key_table_->Get: Insert fills the table it finds, Update overwrites it.
WriteGet(c) ==
  /\ cl[c].call.op \in {"Insert", "Update"} /\ cl[c].pc = "called"
  /\ IF cl[c].call.key \in DOMAIN key_table
     THEN Visit(c, IF cl[c].call.op = "Insert" THEN "fill" ELSE "over", <<key_table[cl[c].call.key]>>)
     ELSE Visit(c, "link", << >>)
  /\ UNCHANGED <<key_table, tables, strings>>

\* NewFieldHashtable, key_table_->Insert: its result is not looked at, and if
\* another client has put a table under the key meanwhile, this one is lost.
Link(c) ==
  /\ cl[c].pc = "link"
  /\ LET t == NewAddress(DOMAIN tables) IN
       /\ tables' = With(tables, t, << >>)
       /\ key_table' = IF cl[c].call.key \in DOMAIN key_table THEN key_table
                       ELSE With(key_table, cl[c].call.key, t)
       /\ Visit(c, "fill", <<t>>)
  /\ UNCHANGED strings

\* field_table->Insert of a new string, as the client's step to `next`.
InsertString(c, next) ==
  LET t == cl[c].tabs[1]
      v == Head(cl[c].vals)
      s == NewAddress(DOMAIN strings)
  IN /\ v[1] \notin DOMAIN tables[t]
     /\ strings' = With(strings, s, v[2])
     /\ tables' = [tables EXCEPT ![t] = With(@, v[1], s)]
     /\ Goes(c, [cl[c] EXCEPT !.pc = next, !.vals = Tail(@)])
     /\ UNCHANGED key_table

\* The field is there and the result is not looked at: the string is lost.
LeakString(c, next) ==
  /\ Head(cl[c].vals)[1] \in DOMAIN tables[cl[c].tabs[1]]
  /\ strings' = With(strings, NewAddress(DOMAIN strings), Head(cl[c].vals)[2])
  /\ Goes(c, [cl[c] EXCEPT !.pc = next, !.vals = Tail(@)])
  /\ UNCHANGED <<key_table, tables>>

\* CopyString, field_table->Insert.
Fill(c) ==
  /\ cl[c].pc = "fill" /\ cl[c].vals # << >>
  /\ InsertString(c, "fill")

\* Mutants of FillConflict: the string is not freed; the code is kOK.
FillConflictLeaks(c) ==
  /\ At(c, "Insert", "fill") /\ cl[c].vals # << >>
  /\ Head(cl[c].vals)[1] \in DOMAIN tables[cl[c].tabs[1]]
  /\ strings' = With(strings, NewAddress(DOMAIN strings), Head(cl[c].vals)[2])
  /\ Answer(c, kErrorConflict, << >>)
  /\ UNCHANGED <<key_table, tables>>

FillConflictUnseen(c) ==
  /\ At(c, "Insert", "fill") /\ cl[c].vals # << >>
  /\ Head(cl[c].vals)[1] \in DOMAIN tables[cl[c].tabs[1]]
  /\ Answer(c, kOK, << >>)
  /\ UNCHANGED <<key_table, tables, strings>>

\* The field is there: Insert does DeleteString(value) and returns
\* kErrorConflict...
FillConflict(c) ==
  /\ At(c, "Insert", "fill") /\ cl[c].vals # << >>
  /\ Head(cl[c].vals)[1] \in DOMAIN tables[cl[c].tabs[1]]
  /\ Answer(c, kErrorConflict, << >>)
  /\ UNCHANGED <<key_table, tables, strings>>

\* ...and Update, in the table it made, goes on.
FillLeak(c) ==
  /\ At(c, "Update", "fill") /\ cl[c].vals # << >>
  /\ LeakString(c, "fill")

\* field_table->Update returns the old string...
Overwrite(c) ==
  /\ At(c, "Update", "over") /\ cl[c].vals # << >>
  /\ LET t == cl[c].tabs[1]
         v == Head(cl[c].vals)
         s == NewAddress(DOMAIN strings)
     IN /\ v[1] \in DOMAIN tables[t]
        /\ strings' = With(strings, s, v[2])
        /\ tables' = [tables EXCEPT ![t][v[1]] = s]
        /\ Goes(c, [cl[c] EXCEPT !.pc = "free", !.vals = Tail(@),
                                 !.ptrs = [f \in {v[1]} |-> tables[t][f]]])
  /\ UNCHANGED key_table

\* Mutant of FreeOld: DeleteString(value) in place of DeleteString(old).
FreeNew(c) ==
  /\ At(c, "Update", "free")
  /\ strings' = Without(strings, {tables[cl[c].tabs[1]][f] : f \in DOMAIN cl[c].ptrs})
  /\ Goes(c, [cl[c] EXCEPT !.pc = "over", !.ptrs = << >>])
  /\ UNCHANGED <<key_table, tables>>

\* ...which DeleteString frees,
FreeOld(c) ==
  /\ At(c, "Update", "free")
  /\ strings' = Without(strings, Range(cl[c].ptrs))
  /\ Goes(c, [cl[c] EXCEPT !.pc = "over", !.ptrs = << >>])
  /\ UNCHANGED <<key_table, tables>>

\* ...or NULL,
UpdateMisses(c) ==
  /\ At(c, "Update", "over") /\ cl[c].vals # << >>
  /\ Head(cl[c].vals)[1] \notin DOMAIN tables[cl[c].tabs[1]]
  /\ Goes(c, [cl[c] EXCEPT !.pc = "insert"])
  /\ UNCHANGED <<key_table, tables, strings>>

\* ...and the string (allocated above, counted here) is inserted, if no other
\* client has inserted the field meanwhile.
InsertMissed(c) ==
  /\ At(c, "Update", "insert")
  /\ InsertString(c, "over") \/ LeakString(c, "over")

WriteReturn(c) ==
  /\ cl[c].pc \in {"fill", "over"} /\ cl[c].vals = << >>
  /\ Answer(c, kOK, << >>)
  /\ UNCHANGED <<key_table, tables, strings>>

-----------------------------------------------------------------------------
(* Delete *)

\* key_table_->Remove
DeleteRemove(c) ==
  /\ At(c, "Delete", "called")
  /\ IF cl[c].call.key \in DOMAIN key_table
     THEN /\ key_table' = Without(key_table, {cl[c].call.key})
          /\ Visit(c, "drop", <<key_table[cl[c].call.key]>>)
     ELSE Answer(c, kErrorNoData, << >>) /\ UNCHANGED key_table
  /\ UNCHANGED <<tables, strings>>

\* DeleteFieldHashtable (external): the table and its strings.
DeleteTable(c) ==
  /\ At(c, "Delete", "drop")
  /\ LET t == cl[c].tabs[1] IN
       /\ strings' = Without(strings, Range(tables[t]))
       /\ tables' = Without(tables, {t})
  /\ Answer(c, kOK, << >>)
  /\ UNCHANGED key_table

Step(c) ==
  \/ ReadGet(c) \/ ScanEntries(c) \/ RowPointers(c) \/ RowCopy(c) \/ ReadReturn(c)
  \/ WriteGet(c) \/ Link(c) \/ Fill(c) \/ FillConflict(c) \/ FillLeak(c)
  \/ Overwrite(c) \/ FreeOld(c) \/ UpdateMisses(c) \/ InsertMissed(c) \/ WriteReturn(c)
  \/ DeleteRemove(c) \/ DeleteTable(c)

\* No call is under way and there will be no other.
Over == calls = MaxCalls /\ (\A c \in Clients : cl[c].pc = "idle") /\ UNCHANGED vars

Next ==
  \/ \E c \in Clients : Call(c) \/ (Step(c) /\ UNCHANGED calls)
  \/ Over

Spec == Init /\ [][Next]_vars
-----------------------------------------------------------------------------
(* Properties *)

Address == Nat \ {0}

\* f is a partial function from S to T.
IsPartial(f, S, T) == DOMAIN f \subseteq S /\ Range(f) \subseteq T

HashtableTypeOK ==
  /\ workload \in Workloads
  /\ calls \in 0..MaxCalls
  /\ IsPartial(key_table, Keys, Address)
  /\ \A t \in DOMAIN tables : t \in Address /\ IsPartial(tables[t], Fields, Address)
  /\ IsPartial(strings, Address, Values)
  /\ \A c \in Clients :
       /\ cl[c].pc \in {"idle", "called", "rows", "copy", "link", "fill", "over", "insert", "free",
                        "drop"}
       /\ cl[c].call.op \in {"none", "Read", "Scan", "Insert", "Update", "Delete"}
       /\ cl[c].call.fields \subseteq Fields /\ cl[c].todo \subseteq cl[c].call.fields
       /\ cl[c].vals \in Seq(Fields \X Values)
       /\ cl[c].tabs \in Seq(Address)
       /\ IsPartial(cl[c].ptrs, Fields, Address)
       /\ {ans[c].code, seen[c].code} \subseteq {kOK, kErrorNoData, kErrorConflict}

\* Another client may update what the call of c goes to.
Overwritten(c) == \E d \in Clients \ {c}, k \in Visited(c) : <<d, "Update", k>> \in workload

(***************************************************************************)
(* Whatever clients read, scan, insert and update at once, every pointer   *)
(* in the hashtables and every field table and old string a client goes on *)
(* with was not freed; and the strings a read or scan is about to copy     *)
(* were not freed either, unless another client may update their record.   *)
(***************************************************************************)
PointersAreLive ==
  /\ Range(key_table) \subseteq DOMAIN tables
  /\ \A t \in DOMAIN tables : Range(tables[t]) \subseteq DOMAIN strings
  /\ \A c \in Clients :
       /\ Range(cl[c].tabs) \subseteq DOMAIN tables
       /\ ~(cl[c].pc = "copy" /\ Overwritten(c)) => Range(cl[c].ptrs) \subseteq DOMAIN strings

(***************************************************************************)
(* The strings a read or scan is about to copy (db/hashtable_db.cc:31, 37, *)
(* 58, 64) are there, whatever the other threads that share the DB do.     *)
(***************************************************************************)
ReadsLiveMemory ==
  \A c \in Clients : cl[c].pc = "copy" => Range(cl[c].ptrs) \subseteq DOMAIN strings

\* No key is written by two clients.
OneWriter == \A c, d \in Clients, k \in Keys : Writes(c, k) /\ Writes(d, k) => c = d

\* The places a string, and a field table, will be freed from.
StringOwners(s) ==
  Cardinality({x \in (DOMAIN tables) \X Fields :
                 x[2] \in DOMAIN tables[x[1]] /\ tables[x[1]][x[2]] = s})
    + Cardinality({c \in Clients : cl[c].pc = "free" /\ s \in Range(cl[c].ptrs)})

TableOwners(t) ==
  Cardinality({k \in DOMAIN key_table : key_table[k] = t})
    + Cardinality({c \in Clients : cl[c].pc = "drop" /\ cl[c].tabs[1] = t})

(***************************************************************************)
(* No live string and no live field table has two places it will be freed  *)
(* from, whoever shares a key: nothing is freed twice.  And if no two      *)
(* clients write one key, each has exactly one: nothing is lost, a failed  *)
(* insert and an overwritten value included.                               *)
(***************************************************************************)
OneOwner ==
  /\ \A s \in DOMAIN strings : StringOwners(s) <= 1 /\ (OneWriter => StringOwners(s) = 1)
  /\ \A t \in DOMAIN tables : TableOwners(t) <= 1 /\ (OneWriter => TableOwners(t) = 1)

\* A part of row r: the fields of a call's field list.
Wanted(c, r) ==
  IF cl[c].call.fields = NULL THEN r ELSE Restrict(r, DOMAIN r \cap cl[c].call.fields)

Within(r, q) == \A f \in DOMAIN r : f \in DOMAIN q /\ q[f] = r[f]

(***************************************************************************)
(* A read that meets inserts of other clients, but no update, returns a    *)
(* part of the record: at least what was there when it was called, at most *)
(* what is there when it returns, and it misses only if there was no       *)
(* record.                                                                 *)
(***************************************************************************)
ReadBetween ==
  [][\A c \in Clients : cl[c].call.op = "Read" /\ cl'[c].call.op = "none" /\ ~Overwritten(c) =>
       LET a == IF Undisturbed(c) THEN ans'[c] ELSE seen'[c] IN
       IF a.code = kErrorNoData THEN cl[c].was = << >>
       ELSE /\ \A i \in DOMAIN cl[c].was : Within(Wanted(c, cl[c].was[i]), a.rows[1])
            /\ Within(a.rows[1], Wanted(c, Under(cl[c].call.key)[1]))]_vars

\* The call that is changing what is under k.
Changing(k) ==
  {c \in Clients : cl[c].call.key = k /\ cl[c].call.op \in {"Insert", "Update", "Delete"}}

\* What is under k as long as that call has not returned.
Settled(k) == IF Changing(k) = {} THEN Under(k) ELSE cl[CHOOSE c \in Changing(k) : TRUE].was

\* The keys that at most one client writes.
Own == {k \in Keys : \A c, d \in Clients : Writes(c, k) /\ Writes(d, k) => c = d}

Contract == INSTANCE RecordStore WITH
  rec <- [k \in {j \in Own : Settled(j) # << >>} |-> Settled(k)[1]]

(***************************************************************************)
(* For the keys only one client writes, each of its calls has the effect   *)
(* and the answer core/db.h promises, as if it took place at one instant,  *)
(* while the other clients' reads, and their calls on other keys, go on in *)
(* the same tables.                                                        *)
(***************************************************************************)
ImplementsContract == Contract!Spec
=============================================================================
