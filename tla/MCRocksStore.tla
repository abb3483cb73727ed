---------------------------- MODULE MCRocksStore ----------------------------
(* RocksStore on a small instance: bits for bytes, lengths of two of them. *)
EXTENDS RocksStore

MCFields == {<<0>>, <<1, 1>>}

\* The longest value is the longest a length can tell.
MCValues == {<< >>, <<1, 0, 1>>}

\* No pair, one, and two.
MCVectors ==
  {<< >>, <<<<<<0>>, <<1, 0, 1>>>>>>, <<<<<<1, 1>>, << >>>>, <<<<0>>, <<1, 0, 1>>>>>>}
=============================================================================
