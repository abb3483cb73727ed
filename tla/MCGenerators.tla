---------------------------- MODULE MCGenerators ----------------------------
(* Generators on a small instance. *)
EXTENDS Generators

\* Five proportions that are no multiples of a grain: shares are rounded up and down.
MCWeights == <<<<"READ", 2>>, <<"UPDATE", 1>>, <<"INSERT", 1>>, <<"SCAN", 1>>, <<"RMW", 1>>>>

\* Every request distribution, every distribution of the field length.
MCDists == {<<"uniform", "constant">>, <<"zipfian", "zipfian">>, <<"latest", "uniform">>}

\* Some of what it draws lies beyond the records.
MCHash(n) == 3 * n + 1
=============================================================================
