---------------------------- MODULE MCServedPool -----------------------------
(* Small instances of ServedPool for TLC. *)
EXTENDS ServedPool
=============================================================================
