------------------------------ MODULE KeySpace ------------------------------
(***************************************************************************)
(* The key numbers CoreWorkload can draw for a transaction: what the key   *)
(* choosers of CoreWorkload::Init range over, and what NextTransactionKey  *)
(* keeps of it.  Client draws its keys from here; Generators shows that    *)
(* the generators, draw by draw, stay within it.                           *)
(***************************************************************************)
EXTENDS Integers

CONSTANTS
  RecordCount,   \* the recordcount property
  RequestDist,   \* the requestdistribution property
  NewKeys        \* operationcount * insertproportion * 2: keys a zipfian
                 \* chooser may draw beyond the records

\* insert_key_sequence_.Last(): set to the record count and never advanced.
LastInserted == RecordCount - 1

\* What key_chooser_ can draw.
KeyNums ==
  CASE RequestDist = "uniform" -> 0..(RecordCount - 1)
    [] RequestDist = "zipfian" -> 0..(RecordCount + NewKeys - 1)
    [] RequestDist = "latest"  -> 1..LastInserted

\* NextTransactionKey: draws beyond the last record are thrown back.
NextTransactionKey == {n \in KeyNums : n <= LastInserted}
=============================================================================
