--------------------------- MODULE MCHeatOverride ----------------------------
(* Small instances of HeatOverride for TLC. *)
EXTENDS HeatOverride
=============================================================================
