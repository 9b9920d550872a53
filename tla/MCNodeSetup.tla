----------------------------- MODULE MCNodeSetup ------------------------------
(* Small instances of NodeSetup for TLC. *)
EXTENDS NodeSetup
=============================================================================
