------------------------------ MODULE MCClient ------------------------------
(* Client on small instances. *)
EXTENDS Client

\* Injective on the keys used and, like the 64-bit FNV hash of a small
\* number, far from every number the insert counter reaches.
MCHash(n) == 100 + ((7 * n) % 11)

Cloud(load, run, threads) ==
  [load |-> load, run |-> run, threads |-> threads, dbname |-> "rocksdb-cloud",
   valid |-> TRUE]

\* A load and a run in one process, two threads.
MCLoadAndRun == {Cloud(TRUE, TRUE, 2)}

\* The script: a load in one process, runs in others.
MCScript == {Cloud(TRUE, FALSE, 2), Cloud(FALSE, TRUE, 1)}

\* A load.
MCLoad == {Cloud(TRUE, FALSE, 2)}
=============================================================================
