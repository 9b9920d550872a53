---------------------------- MODULE MCEcobeeTokens ----------------------------
(* Instances of EcobeeTokens for TLC, with two or three reading loops. *)
EXTENDS EcobeeTokens
=============================================================================
