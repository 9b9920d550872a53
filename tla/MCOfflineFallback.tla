------------------------- MODULE MCOfflineFallback ---------------------------
(* Small instances of OfflineFallback for TLC. *)
EXTENDS OfflineFallback
=============================================================================
