--------------------------- MODULE MCVastProvider ----------------------------
(* Small instances of VastProvider for TLC. *)
EXTENDS VastProvider
=============================================================================
