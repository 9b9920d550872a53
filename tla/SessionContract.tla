--------------------------- MODULE SessionContract ---------------------------
(***************************************************************************)
(* What the rental session handler promises about one node's sessions,     *)
(* without its heartbeats, tasks, threads and messages: how the dispatcher's*)
(* status of a session and the session's container may change, and what    *)
(* each change requires of the other.                                      *)
(***************************************************************************)
CONSTANT Sessions

VARIABLES status,   \* the dispatcher's status of each session
          box       \* the container of each session: none, exited or running

vars == <<status, box>>

Statuses == {"starting", "active", "stopping", "stopped", "lost"}
BoxStates == {"none", "exited", "running"}

Init == /\ status = [s \in Sessions |-> "starting"]
        /\ box = [s \in Sessions |-> "none"]

SetStatus(s, new) == /\ status' = [status EXCEPT ![s] = new]
                     /\ UNCHANGED box

SetBox(s, new) == /\ box' = [box EXCEPT ![s] = new]
                  /\ UNCHANGED status

(* A container is created only for a session that is not being served. *)
Provision(s) == box[s] = "none" /\ status[s] # "active" /\ SetBox(s, "exited")

(* A container of a session that is being served is never started again. *)
Boot(s) == box[s] = "exited" /\ status[s] # "active" /\ SetBox(s, "running")

Die(s) == box[s] = "running" /\ SetBox(s, "exited")

(* Only what was asked to stop is torn down. *)
Teardown(s) == /\ status[s] \in {"stopping", "stopped"}
               /\ \E new \in {"none", "exited"} : SetBox(s, new)

(* A session becomes active only when its container is there. *)
Activate(s) == /\ status[s] = "starting"
               /\ box[s] # "none"
               /\ SetStatus(s, "active")

(* A session is given up only when its container is not running. *)
Lose(s) == /\ status[s] = "active"
           /\ box[s] # "running"
           /\ SetStatus(s, "lost")

AskStop(s) == status[s] \in {"starting", "active"} /\ SetStatus(s, "stopping")

Stopped(s) == status[s] = "stopping" /\ SetStatus(s, "stopped")

Next == \E s \in Sessions :
          \/ Provision(s) \/ Boot(s) \/ Die(s) \/ Teardown(s)
          \/ Activate(s) \/ Lose(s) \/ AskStop(s) \/ Stopped(s)

Spec == Init /\ [][Next]_vars
=============================================================================
