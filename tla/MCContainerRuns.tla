------------------------- MODULE MCContainerRuns ------------------------------
(* Small instances of ContainerRuns for TLC. *)
EXTENDS ContainerRuns
=============================================================================
