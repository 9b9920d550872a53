------------------------------ MODULE MCFillWork ------------------------------
(* Instances of FillWork for TLC: the tasks are named in the .cfg. *)
EXTENDS FillWork
=============================================================================
