---------------------------- MODULE MCVastSchedule ----------------------------
(* Instances of VastSchedule for TLC; their sizes are in the .cfg files. *)
EXTENDS VastSchedule

(* East of Greenwich, on it, and west of it. *)
Offsets == {-1, 0, 1}
=============================================================================
