--------------------------- MODULE MCHashtableDB ---------------------------
(* HashtableDB on a small instance. *)
EXTENDS HashtableDB

\* All fields, and a list of them.
MCFieldLists == {{}, {"f1", "f2"}}

\* One field, and both: the second one, inserted after the first, conflicts.
MCValueLists == {<<<<"f1", "a">>>>, <<<<"f2", "a">>, <<"f1", "b">>>>}

\* Two clients, each with a key it alone uses...
MCApart ==
  {"c1"} \X {"Read", "Insert", "Update", "Delete"} \X {"k1"}
    \cup {"c2"} \X {"Read", "Update", "Delete"} \X {"k2"}

\* ...a client that reads what the other one inserts...
MCLoading ==
  ({"c1"} \X {"Insert", "Read"} \X {"k1", "k2"}) \cup ({"c2"} \X {"Read"} \X {"k1", "k2"})

\* ...or updates...
MCUpdating == ({"c1"} \X {"Insert", "Update"} \X {"k1"}) \cup {<<"c2", "Read", "k1">>}

\* ...two clients that write the same key...
MCShared ==
  ({"c1"} \X {"Insert", "Update"} \X {"k1"}) \cup ({"c2"} \X {"Scan", "Update"} \X {"k1"})

\* ...and a client that does everything.
MCAlone == {"c1"} \X {"Read", "Scan", "Insert", "Update", "Delete"} \X {"k1", "k2"}

MCWorkloads == {MCApart, MCLoading, MCUpdating, MCShared, MCAlone}

\* The workload in which a read meets an update.
MCOneReads == {MCUpdating}
=============================================================================
