------------------------------ MODULE MCStatus ------------------------------
(* Status on a small instance. *)
EXTENDS Status

MCTickers == {"NUMBER_KEYS_READ", "NUMBER_KEYS_WRITTEN"}
=============================================================================
