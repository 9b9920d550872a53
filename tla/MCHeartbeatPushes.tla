-------------------------- MODULE MCHeartbeatPushes --------------------------
(* Small instances of HeartbeatPushes for TLC. *)
EXTENDS HeartbeatPushes
=============================================================================
