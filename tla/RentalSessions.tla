--------------------------- MODULE RentalSessions ----------------------------
(***************************************************************************)
(* The rental session handler of a node agent (rental_session_handler.py)  *)
(* with what it works on: the heartbeat that carries the dispatcher's list *)
(* of sessions, the Docker daemon, and the POSTs back to the dispatcher.   *)
(*                                                                         *)
(* Heartbeats follow one another, but each one's sessions are handled by   *)
(* asyncio tasks that outlive it.  A start runs `docker run` in a thread   *)
(* (image pull, create, start), a reconcile lists containers in a thread;  *)
(* a stop blocks the event loop, so it is one step.  The agent may restart *)
(* at any point: tasks and the in-memory map go, containers stay.          *)
(***************************************************************************)
EXTENDS Naturals, FiniteSets

CONSTANTS
  Sessions,      \* rental sessions the dispatcher places on this node
  Servable,      \* those the node can serve (a media session needs COMFYUI_MODELS_PATH)
  MaxStarts,     \* bound: start tasks in flight for one session
  MaxRestarts,   \* bound: restarts of the agent
  DockerErrors   \* whether the Docker API may fail

ASSUME SessionAssumption == Servable \subseteq Sessions
ASSUME BoundAssumption == /\ MaxStarts \in Nat \ {0}
                          /\ MaxRestarts \in Nat
                          /\ DockerErrors \in BOOLEAN

VARIABLES
  status,        \* dispatcher: status of each session
  reply,         \* heartbeat response on its way to the agent, or NoReply
  net,           \* POSTs of the agent on their way to the dispatcher
  box,           \* Docker: the container named hadcd-session-<sid8>
  maker,         \* Docker: the start task that made it, NoTask if none of this process
  active,        \* handler: keys of self._active
  stopping,      \* handler: self._stopping
  reconciling,   \* handler: self._reconciling
  start,         \* phase of each start task
  recon,         \* phase of each reconcile task
  restarts,      \* restarts so far
  late           \* history: sessions a container of which was being made, or could
                 \* not be removed, when they were last torn down

vars == <<status, reply, net, box, maker, active, stopping, reconciling,
          start, recon, restarts, late>>

agentVars == <<active, stopping, reconciling, start, recon>>
dockerVars == <<box, maker>>
counts == <<restarts, late>>

Tasks == 1..MaxStarts
NoTask == 0
NoReply == [s \in Sessions |-> "unlisted"]
Statuses == {"starting", "active", "stopping", "stopped", "lost"}
BoxStates == {"none", "exited", "running"}
StartPhases == {"idle", "pulling", "made", "up"}
ReconPhases == {"idle", "asked", "running", "absent", "error", "posting"}
Posts == {"activate", "stopped", "lost"} \X Sessions

TypeOK ==
  /\ status \in [Sessions -> Statuses]
  /\ reply \in [Sessions -> Statuses \cup {"unlisted"}]
  /\ net \subseteq Posts
  /\ box \in [Sessions -> BoxStates]
  /\ maker \in [Sessions -> Tasks \cup {NoTask}]
  /\ active \subseteq Sessions
  /\ stopping \subseteq Sessions
  /\ reconciling \subseteq Sessions
  /\ start \in [Sessions -> [Tasks -> StartPhases]]
  /\ recon \in [Sessions -> ReconPhases]
  /\ restarts \in 0..MaxRestarts
  /\ late \subseteq Sessions

AllIdle == [s \in Sessions |-> [k \in Tasks |-> "idle"]]

Init ==
  /\ status = [s \in Sessions |-> "starting"]
  /\ reply = NoReply
  /\ net = {}
  /\ box = [s \in Sessions |-> "none"]
  /\ maker = [s \in Sessions |-> NoTask]
  /\ active = {} /\ stopping = {} /\ reconciling = {}
  /\ start = AllIdle
  /\ recon = [s \in Sessions |-> "idle"]
  /\ restarts = 0 /\ late = {}

-----------------------------------------------------------------------------
(* The dispatcher (external) and the heartbeat.                            *)

(* The renter or the operator ends a session. *)
AskStop(s) ==
  /\ status[s] \in {"starting", "active"}
  /\ status' = [status EXCEPT ![s] = "stopping"]
  /\ UNCHANGED <<reply, net, counts, dockerVars, agentVars>>

(* A heartbeat POST reaches the dispatcher, which answers with the sessions *)
(* as they stand; the answer is read later.                                 *)
HeartbeatSend ==
  /\ reply = NoReply
  /\ reply' = status
  /\ UNCHANGED <<status, net, counts, dockerVars, agentVars>>

HeartbeatLost ==
  /\ reply # NoReply
  /\ reply' = NoReply
  /\ UNCHANGED <<status, net, counts, dockerVars, agentVars>>

(* How the dispatcher takes a POST: a report that does not fit the status  *)
(* is refused and changes nothing.                                         *)
Accepted(m) == \/ m[1] = "activate" /\ status[m[2]] = "starting"
               \/ m[1] = "stopped" /\ status[m[2]] = "stopping"
               \/ m[1] = "lost" /\ status[m[2]] = "active"

StatusAfter(m) == IF m[1] = "activate" THEN "active" ELSE m[1]

PostDelivered(m) ==
  /\ m \in net
  /\ net' = net \ {m}
  /\ status' = IF Accepted(m) THEN [status EXCEPT ![m[2]] = StatusAfter(m)] ELSE status
  /\ UNCHANGED <<reply, counts, dockerVars, agentVars>>

PostLost(m) ==
  /\ m \in net
  /\ net' = net \ {m}
  /\ UNCHANGED <<status, reply, counts, dockerVars, agentVars>>

-----------------------------------------------------------------------------
(* handle_sessions: the loop over the list has no await, the tasks it      *)
(* collects then run side by side.                                         *)

FreeTasks(s) == {k \in Tasks : start[s][k] = "idle"}

(* Nothing but self._active keeps a second start away: a start in flight   *)
(* is not in it yet.                                                       *)
ToStart == {s \in Servable : /\ reply[s] = "starting"
                             /\ s \notin active
                             /\ FreeTasks(s) # {}}

ToReconcile == {s \in Sessions : reply[s] = "active" /\ s \notin reconciling}

ToStop == {s \in Sessions : reply[s] = "stopping" /\ s \notin stopping}

HandleSessions ==
  /\ reply # NoReply
  /\ reply' = NoReply
  /\ start' = [s \in Sessions |->
                 IF s \in ToStart
                 THEN [start[s] EXCEPT ![CHOOSE k \in FreeTasks(s) : TRUE] = "pulling"]
                 ELSE start[s]]
  /\ recon' = [s \in Sessions |-> IF s \in ToReconcile THEN "asked" ELSE recon[s]]
  /\ reconciling' = reconciling \cup ToReconcile
  /\ stopping' = stopping \cup ToStop
  /\ UNCHANGED <<status, net, active, counts, dockerVars>>

-----------------------------------------------------------------------------
(* _start_session.  containers.run in the thread: pull the image if it is  *)
(* missing, create the container under its fixed name, start it.           *)

SetStart(s, k, phase) == start' = [start EXCEPT ![s][k] = phase]

(* Mutation: the container name is not fixed, so nothing clashes. *)
CreateAnyName(s, k) ==
  /\ start[s][k] = "pulling"
  /\ box' = [box EXCEPT ![s] = "exited"]
  /\ maker' = [maker EXCEPT ![s] = k]
  /\ SetStart(s, k, "made")
  /\ UNCHANGED <<status, reply, net, active, stopping, reconciling, recon, counts>>

(* Docker refuses a second container of the same name. *)
CreateContainer(s, k) ==
  /\ start[s][k] = "pulling"
  /\ box[s] = "none"
  /\ box' = [box EXCEPT ![s] = "exited"]
  /\ maker' = [maker EXCEPT ![s] = k]
  /\ SetStart(s, k, "made")
  /\ UNCHANGED <<status, reply, net, active, stopping, reconciling, recon, counts>>

(* The task starts the container it made, by id. *)
StartContainer(s, k) ==
  /\ start[s][k] = "made"
  /\ maker[s] = k /\ box[s] = "exited"
  /\ box' = [box EXCEPT ![s] = "running"]
  /\ SetStart(s, k, "up")
  /\ UNCHANGED <<status, reply, net, maker, active, stopping, reconciling, recon, counts>>

(* A name conflict, a container that was removed meanwhile, or a Docker    *)
(* error: logged, nothing is reported, what was created stays.             *)
RunFails(s, k) ==
  /\ \/ start[s][k] = "pulling" /\ (box[s] # "none" \/ DockerErrors)
     \/ start[s][k] = "made" /\ (maker[s] # k \/ DockerErrors)
  /\ SetStart(s, k, "idle")
  /\ UNCHANGED <<status, reply, net, active, stopping, reconciling, recon, counts, dockerVars>>

(* Back on the event loop, after the await on the Tailscale address: enter *)
(* the map and send the activation, once.                                  *)
Activate(s, k) ==
  /\ start[s][k] = "up"
  /\ active' = active \cup {s}
  /\ net' = net \cup {<<"activate", s>>}
  /\ SetStart(s, k, "idle")
  /\ UNCHANGED <<status, reply, stopping, reconciling, recon, counts, dockerVars>>

-----------------------------------------------------------------------------
(* _stop_session: synchronous up to its POST, which is sent whatever Docker *)
(* answered: removed (or nothing found), stopped but not removed, or error. *)

SetBox(s, new) ==
  /\ box' = [box EXCEPT ![s] = new]
  /\ maker' = [maker EXCEPT ![s] = IF new = "none" THEN NoTask ELSE @]

BeingMade(s) == \E k \in Tasks : start[s][k] = "pulling"

Torn(s, new) ==
  /\ SetBox(s, new)
  /\ late' = IF BeingMade(s) \/ new # "none" THEN late \cup {s} ELSE late \ {s}

(* Mutation: only what this process has started is removed. *)
StopActiveOnly(s) ==
  /\ s \in stopping
  /\ IF s \in active THEN Torn(s, "none") ELSE UNCHANGED <<dockerVars, late>>
  /\ active' = active \ {s}
  /\ stopping' = stopping \ {s}
  /\ net' = net \cup {<<"stopped", s>>}
  /\ UNCHANGED <<status, reply, reconciling, start, recon, restarts>>

(* Mutation: without a container there is nothing to stop, or to report. *)
StopFound(s) ==
  /\ s \in stopping
  /\ \E new \in {"none"} \cup (IF DockerErrors /\ box[s] # "none"
                              THEN {box[s], "exited"} ELSE {}) : Torn(s, new)
  /\ active' = active \ {s}
  /\ stopping' = stopping \ {s}
  /\ net' = IF box[s] = "none" THEN net ELSE net \cup {<<"stopped", s>>}
  /\ UNCHANGED <<status, reply, reconciling, start, recon, restarts>>

StopSession(s) ==
  /\ s \in stopping
  /\ \E new \in {"none"} \cup (IF DockerErrors /\ box[s] # "none"
                              THEN {box[s], "exited"} ELSE {}) : Torn(s, new)
  /\ active' = active \ {s}
  /\ stopping' = stopping \ {s}
  /\ net' = net \cup {<<"stopped", s>>}
  /\ UNCHANGED <<status, reply, reconciling, start, recon, restarts>>

-----------------------------------------------------------------------------
(* _reconcile_active_session *)

SetRecon(s, phase) == recon' = [recon EXCEPT ![s] = phase]

(* Mutation: a Docker error counts as no running container. *)
FindErrorIsAbsent(s) ==
  /\ recon[s] = "asked"
  /\ \E found \in {IF box[s] = "running" THEN "running" ELSE "absent"}
                  \cup (IF DockerErrors THEN {"absent"} ELSE {}) : SetRecon(s, found)
  /\ UNCHANGED <<status, reply, net, active, stopping, reconciling, start, counts, dockerVars>>

(* _find_running in its thread *)
FindRunning(s) ==
  /\ recon[s] = "asked"
  /\ \E found \in {IF box[s] = "running" THEN "running" ELSE "absent"}
                  \cup (IF DockerErrors THEN {"error"} ELSE {}) : SetRecon(s, found)
  /\ UNCHANGED <<status, reply, net, active, stopping, reconciling, start, counts, dockerVars>>

(* The result is used back on the event loop. *)
ReconcileFound(s) ==
  /\ recon[s] = "running"
  /\ active' = active \cup {s}
  /\ reconciling' = reconciling \ {s}
  /\ SetRecon(s, "idle")
  /\ UNCHANGED <<status, reply, net, stopping, start, counts, dockerVars>>

ReconcileAbsent(s) ==
  /\ recon[s] = "absent"
  /\ active' = active \ {s}
  /\ net' = net \cup {<<"lost", s>>}
  /\ SetRecon(s, "posting")
  /\ UNCHANGED <<status, reply, stopping, reconciling, start, counts, dockerVars>>

(* Mutation: a Docker failure keeps the session marked as being reconciled. *)
ReconcileErrorKeepsMark(s) ==
  /\ recon[s] \in {"error", "posting"}
  /\ reconciling' = IF recon[s] = "error" THEN reconciling ELSE reconciling \ {s}
  /\ SetRecon(s, "idle")
  /\ UNCHANGED <<status, reply, net, active, stopping, start, counts, dockerVars>>

(* A Docker failure, or the end of the lost POST (answered or timed out).  *)
ReconcileEnds(s) ==
  /\ recon[s] \in {"error", "posting"}
  /\ reconciling' = reconciling \ {s}
  /\ SetRecon(s, "idle")
  /\ UNCHANGED <<status, reply, net, active, stopping, start, counts, dockerVars>>

-----------------------------------------------------------------------------
(* The container exits by itself; the agent process restarts. *)

ContainerDies(s) ==
  /\ box[s] = "running"
  /\ box' = [box EXCEPT ![s] = "exited"]
  /\ UNCHANGED <<status, reply, net, maker, counts, agentVars>>

Restart ==
  /\ restarts < MaxRestarts
  /\ restarts' = restarts + 1
  /\ reply' = NoReply
  /\ active' = {} /\ stopping' = {} /\ reconciling' = {}
  /\ start' = AllIdle
  /\ recon' = [s \in Sessions |-> "idle"]
  /\ maker' = [s \in Sessions |-> NoTask]
  /\ UNCHANGED <<status, net, box, late>>

-----------------------------------------------------------------------------
SessionStep(s) ==
  \/ AskStop(s) \/ StopSession(s)
  \/ FindRunning(s) \/ ReconcileFound(s) \/ ReconcileAbsent(s) \/ ReconcileEnds(s)
  \/ ContainerDies(s)

StartStep(s, k) ==
  \/ CreateContainer(s, k) \/ StartContainer(s, k) \/ RunFails(s, k) \/ Activate(s, k)

PostStep(m) == PostDelivered(m) \/ PostLost(m)

Next ==
  \/ HeartbeatSend \/ HeartbeatLost \/ HandleSessions \/ Restart
  \/ \E s \in Sessions : SessionStep(s)
  \/ \E s \in Sessions, k \in Tasks : StartStep(s, k)
  \/ \E m \in Posts : PostStep(m)

Spec == Init /\ [][Next]_vars

(* The heartbeat loop keeps going, tasks and threads run, and a link that  *)
(* is tried again and again gets through: answers and POSTs need strong    *)
(* fairness, being lost disables them.  So does Docker's answer to a list. *)
Fairness ==
  /\ WF_vars(HeartbeatSend)
  /\ SF_vars(HandleSessions)
  /\ \A s \in Sessions :
       /\ WF_vars(StopSession(s))
       /\ WF_vars(FindRunning(s))
       /\ SF_vars(FindRunning(s) /\ recon'[s] # "error")
       /\ WF_vars(ReconcileFound(s) \/ ReconcileAbsent(s) \/ ReconcileEnds(s))
       /\ \A k \in Tasks : WF_vars(StartStep(s, k))
  /\ \A m \in Posts : SF_vars(PostDelivered(m))

FairSpec == Spec /\ Fairness

-----------------------------------------------------------------------------
(* Safety.                                                                 *)

Wanted(s) == status[s] \in {"starting", "active"}

(* While the dispatcher wants a session, at most one of the start tasks    *)
(* that overlapping heartbeats launch for it holds its container: the name *)
(* clash turns the others away (lines 249-266, 293-326, 345-372).          *)
OneHolder ==
  \A s \in Sessions : Wanted(s) =>
    \A j, k \in Tasks : start[s][j] \in {"made", "up"} /\ start[s][k] \in {"made", "up"} => j = k

(* A session the handler has in its map, which keeps it from being started *)
(* again, has a container for as long as the dispatcher wants it: no stop, *)
(* loss or late reconcile leaves a wanted session that is neither there    *)
(* nor startable.                                                          *)
MapIsBacked ==
  \A s \in active : Wanted(s) => box[s] # "none"

(* What was reported stopped has no container, whoever started it and      *)
(* whatever start tasks still run, unless Docker did not remove it, or was *)
(* creating it while it was torn down: then it runs on for nobody (lines   *)
(* 216-222, 345, 408-443).                                                 *)
StoppedIsGone ==
  \A s \in Sessions \ late : status[s] = "stopped" => box[s] = "none"

(* Teardown starts only for a session the dispatcher ended, however late   *)
(* its heartbeat answer is handled.                                        *)
StopsAreAsked ==
  \A s \in Sessions :
    s \in stopping \/ <<"stopped", s>> \in net => status[s] \in {"stopping", "stopped"}

(* The handler implements the contract between a session's status and its  *)
(* container: activation needs a container, a loss report needs one that   *)
(* does not run, teardown needs a stop.                                    *)
Contract == INSTANCE SessionContract
ContractSpec == Contract!Spec

-----------------------------------------------------------------------------
(* Liveness.                                                               *)

(* Every stop is carried out and reported, whatever POSTs, answers or      *)
(* Docker calls fail on the way: each heartbeat tries again.               *)
StopsComplete == \A s \in Sessions : status[s] = "stopping" ~> status[s] # "stopping"

(* A container that died under an active session does not go unnoticed.    *)
LossNoticed ==
  \A s \in Sessions : (status[s] = "active" /\ box[s] # "running") ~> status[s] # "active"

=============================================================================
