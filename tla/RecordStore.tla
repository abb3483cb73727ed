---------------------------- MODULE RecordStore ----------------------------
(***************************************************************************)
(* What the interface DB (core/db.h) promises its callers: records of      *)
(* field/value pairs under keys, and the answers of its five operations,   *)
(* each taking effect at one instant.  Spec is the contract as db.h words  *)
(* it; BlobSpec is the weaker one of a DB that keeps each record as one    *)
(* opaque value and whose misses are no errors.  HashtableDB and           *)
(* RocksStore are shown to implement the one and the other.                *)
(***************************************************************************)
EXTENDS Integers, Sequences, FiniteSets, Functions

CONSTANTS Clients, Keys, Fields, Values

\* The error codes of DB.
kOK            == 0
kErrorNoData   == 1
kErrorConflict == 2

\* The records that can be made of some of the fields.
Records == UNION {[fs -> Values] : fs \in SUBSET Fields}

(***************************************************************************)
(* A call: the operation, the key (where a scan starts), the fields to     *)
(* read ({} is NULL, all of them), the field/value pairs to write, and how *)
(* many records a scan may return.                                         *)
(***************************************************************************)
Call(op, k, fs, r, n) == [op |-> op, key |-> k, fields |-> fs, values |-> r, len |-> n]

VARIABLES
  rec,  \* key -> record, for the keys that have one
  ans   \* each client's last call, its code and its rows, once it has returned

vars == <<rec, ans>>

NoAnswer == [call |-> Call("none", "none", {}, << >>, 0), code |-> kOK, rows |-> << >>]

Init ==
  /\ rec = << >>
  /\ ans = [c \in Clients |-> NoAnswer]

Give(c, call, code, rows) ==
  ans' = [ans EXCEPT ![c] = [call |-> call, code |-> code, rows |-> rows]]

\* The client makes another call.
Begin(c) ==
  /\ ans' = [ans EXCEPT ![c] = NoAnswer]
  /\ UNCHANGED rec

\* g wins where both are defined.
Over(f, g) == [x \in DOMAIN f \cup DOMAIN g |-> IF x \in DOMAIN g THEN g[x] ELSE f[x]]

Part(r, fs) == Restrict(r, DOMAIN r \cap fs)

Asked(r, fs) == IF fs = {} THEN r ELSE Part(r, fs)

\* The record of a key, empty if there is none.
Old(k) == IF k \in DOMAIN rec THEN rec[k] ELSE << >>

Write(k, r) == rec' = Over(rec, [x \in {k} |-> r])

-----------------------------------------------------------------------------
(* The contract as core/db.h words it *)

\* "Reads a record ... Zero on success, or a non-zero error code on
\* error/record-miss."
Read(c, k, fs) ==
  /\ IF k \in DOMAIN rec
     THEN Give(c, Call("Read", k, fs, << >>, 0), kOK, <<Asked(rec[k], fs)>>)
     ELSE Give(c, Call("Read", k, fs, << >>, 0), kErrorNoData, << >>)
  /\ UNCHANGED rec

\* "Performs a range scan for a set of records": at most n of them, in an
\* order the DB chooses, none twice.
Scan(c, k, n, fs) ==
  /\ \E m \in 0..n : \E ks \in Injection(1..m, DOMAIN rec) :
       Give(c, Call("Scan", k, fs, << >>, n), kOK, [i \in 1..m |-> Asked(rec[ks[i]], fs)])
  /\ UNCHANGED rec

\* "Field/value pairs ... are written to the record, overwriting any existing
\* values with the same field names."
Update(c, k, r) ==
  /\ Give(c, Call("Update", k, {}, r, 0), kOK, << >>)
  /\ Write(k, Over(Old(k), r))

\* "Field/value pairs ... are written into the record", or an error that
\* leaves every value that was there.
Insert(c, k, r) ==
  IF DOMAIN r \cap DOMAIN Old(k) = {}
  THEN /\ Write(k, Over(Old(k), r))
       /\ Give(c, Call("Insert", k, {}, r, 0), kOK, << >>)
  ELSE /\ \E fs \in SUBSET DOMAIN r : Write(k, Over(Part(r, fs), Old(k)))
       /\ Give(c, Call("Insert", k, {}, r, 0), kErrorConflict, << >>)

\* "Deletes a record."
Delete(c, k) ==
  /\ Give(c, Call("Delete", k, {}, << >>, 0),
          IF k \in DOMAIN rec THEN kOK ELSE kErrorNoData, << >>)
  /\ rec' = Restrict(rec, DOMAIN rec \ {k})

Next ==
  \E c \in Clients, k \in Keys :
    \/ Begin(c)
    \/ \E fs \in SUBSET Fields : Read(c, k, fs)
    \/ \E n \in 0..Cardinality(Keys), fs \in SUBSET Fields : Scan(c, k, n, fs)
    \/ \E r \in Records : Update(c, k, r) \/ Insert(c, k, r)
    \/ Delete(c, k)

Spec == Init /\ [][Next]_vars

-----------------------------------------------------------------------------
(* A DB whose records are blobs *)

BlobRead(c, k) ==
  /\ Give(c, Call("Read", k, {}, << >>, 0), kOK,
          IF k \in DOMAIN rec THEN <<rec[k]>> ELSE << >>)
  /\ UNCHANGED rec

BlobScan(c, k) ==
  /\ Give(c, Call("Scan", k, {}, << >>, 0), kOK, << >>)
  /\ UNCHANGED rec

BlobWrite(c, op, k, r) ==
  /\ Give(c, Call(op, k, {}, r, 0), kOK, << >>)
  /\ Write(k, r)

BlobDelete(c, k) ==
  /\ Give(c, Call("Delete", k, {}, << >>, 0), kOK, << >>)
  /\ rec' = Restrict(rec, DOMAIN rec \ {k})

\* The process and its callers are gone; the records are not.
Lose ==
  /\ ans' = [c \in Clients |-> NoAnswer]
  /\ UNCHANGED rec

BlobNext ==
  \/ \E c \in Clients, k \in Keys :
       \/ Begin(c) \/ BlobRead(c, k) \/ BlobScan(c, k) \/ BlobDelete(c, k)
       \/ \E op \in {"Insert", "Update"}, r \in Records : BlobWrite(c, op, k, r)
  \/ Lose

BlobSpec == Init /\ [][BlobNext]_vars
=============================================================================
