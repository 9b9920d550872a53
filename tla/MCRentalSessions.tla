-------------------------- MODULE MCRentalSessions ---------------------------
(* Small instances of RentalSessions for TLC. *)
EXTENDS RentalSessions
=============================================================================
