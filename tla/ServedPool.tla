------------------------------ MODULE ServedPool -------------------------------
(***************************************************************************)
(* The pool (StoragePool) with the server that hands its files to other    *)
(* nodes (storage_server.py).  The server is a thread: it looks for a      *)
(* file, announces its size, opens it and reads it, while the transfer and *)
(* the collector rename files into their places and remove them.  It       *)
(* answers one request at a time.                                          *)
(***************************************************************************)
EXTENDS StoragePool

CONSTANT Asked           \* bound: the assets that peers ask for

ASSUME AskedAssumption == Asked \subseteq Assets

VARIABLES
  request,       \* the asset that is asked for
  reply,         \* where do_GET is
  size,          \* the size it announced: that of a whole or of a bad file
  handle         \* what the open file holds, though its name has gone

serverVars == <<request, reply, size, handle>>
allVars == <<vars, serverVars>>

Contents == {"none", "whole", "bad"}

ServerTypeOK ==
  /\ request \in Asked \cup {None}
  /\ reply \in {"idle", "found", "announced", "sending"}
  /\ size \in Contents /\ handle \in Contents

Quiet == request = None /\ reply = "idle" /\ size = "none" /\ handle = "none"

ServedInit == Init /\ Quiet

-----------------------------------------------------------------------------
Finish == request' = None /\ reply' = "idle" /\ size' = "none" /\ handle' = "none"

(* Not there: 404. *)
Request(a) ==
  /\ reply = "idle" /\ file[a] # "none"
  /\ request' = a /\ reply' = "found"
  /\ UNCHANGED <<size, handle>>

(* Gone since: 500. *)
Announce ==
  /\ reply = "found"
  /\ IF file[request] = "none" THEN Finish
     ELSE /\ size' = file[request] /\ reply' = "announced"
          /\ UNCHANGED <<request, handle>>

(* Gone since: the body is missing, and the peer hears it from the length. *)
OpenFile ==
  /\ reply = "announced"
  /\ IF file[request] = "none" THEN Finish
     ELSE /\ handle' = file[request] /\ reply' = "sending"
          /\ UNCHANGED <<request, size>>

(* Everything that was announced, if the peer waits for it.                *)
SendAll ==
  /\ reply = "sending"
  /\ Finish

Server == (\E a \in Asked : Request(a)) \/ Announce \/ OpenFile \/ SendAll

ServedNext ==
  \/ (Transfer \/ GcFetch \/ GcSweep \/ GcFails) /\ UNCHANGED serverVars
  \/ (\E a \in Assets : DeleteAsset(a) \/ AddAsset(a)) /\ UNCHANGED serverVars
  \/ Crash /\ Finish
  \/ Server /\ UNCHANGED vars

ServedSpec == ServedInit /\ [][ServedNext]_allVars
FairServedSpec == ServedSpec /\ Fairness

-----------------------------------------------------------------------------
(* What a peer receives to the announced end is the whole asset, whatever  *)
(* peers and relay sent, the collector removed and a crash left: a file    *)
(* never has its name before it is whole, and one that is swept while it   *)
(* is read is still read to its end (agent.py 1413-1414,                   *)
(* storage_server.py 33-68).                                               *)
PeersGetWhole ==
  reply = "sending" => size = "whole" /\ handle = "whole"
=============================================================================
