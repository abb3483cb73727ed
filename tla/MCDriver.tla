------------------------------ MODULE MCDriver ------------------------------
(* Driver on small instances. *)
EXTENDS Driver

\* Every DB, with and without a load and a run, one thread and all of them.
MCCommands ==
  {c \in CommandLine : /\ c.dbname = "rocksdb" => c.run /\ ~c.load
                       /\ ~c.valid => c.load /\ c.dbname = "rocksdb-cloud"}

\* The default DB.
MCBasic == {c \in CommandLine : c.dbname = "basic" /\ c.valid /\ ~c.load /\ c.run}
=============================================================================
