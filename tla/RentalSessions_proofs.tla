------------------------ MODULE RentalSessions_proofs ------------------------
(***************************************************************************)
(* Proofs about RentalSessions, for any set of sessions and any bounds:    *)
(* its safety invariants, and that it implements SessionContract.          *)
(***************************************************************************)
EXTENDS RentalSessions, TLAPS

Holding == {"made", "up"}

NotHeld(s) == \A k \in Tasks : start[s][k] \notin Holding

(* Whatever may still lead to a teardown was asked for. *)
AskedInv ==
  \A s \in Sessions :
    reply[s] = "stopping" \/ s \in stopping \/ <<"stopped", s>> \in net
      => status[s] \in {"stopping", "stopped"}

(* Whatever came of an active listing comes after the activation. *)
ActivatedInv ==
  \A s \in Sessions :
    reply[s] = "active" \/ recon[s] # "idle" \/ <<"lost", s>> \in net
      => status[s] # "starting"

(* A task that holds a container of a wanted session holds the one there is. *)
HolderInv ==
  \A s \in Sessions, k \in Tasks :
    Wanted(s) /\ start[s][k] \in Holding => maker[s] = k /\ box[s] # "none"

(* Once the activation is sent the container is left to itself. *)
ServedInv ==
  \A s \in Sessions :
    status[s] = "active" \/ (Wanted(s) /\ <<"activate", s>> \in net)
      => box[s] # "none" /\ NotHeld(s)

(* What a reconcile saw stays true for as long as the session is active. *)
ReconInv ==
  \A s \in Sessions :
    status[s] = "active" /\ (recon[s] = "absent" \/ <<"lost", s>> \in net)
      => box[s] # "running"

(* A teardown that removed everything comes after the last start.  *)
TornDown(s) == <<"stopped", s>> \in net \/ status[s] = "stopped"

TornInv ==
  \A s \in Sessions :
    /\ s \in stopping \/ TornDown(s) => reply[s] # "starting"
    /\ TornDown(s) /\ s \notin late => box[s] = "none" /\ ~BeingMade(s)

IInv == /\ TypeOK /\ AskedInv /\ ActivatedInv /\ HolderInv
        /\ ServedInv /\ ReconInv /\ MapIsBacked /\ TornInv

-----------------------------------------------------------------------------
LEMMA InitIInv == Init => IInv
  <1> SUFFICES ASSUME Init PROVE IInv
    OBVIOUS
  <1> USE BoundAssumption DEF Init
  <1>1. TypeOK
    BY DEF TypeOK, NoReply, Tasks, NoTask, Statuses, BoxStates, StartPhases, ReconPhases, AllIdle
  <1>2. AskedInv /\ ActivatedInv /\ MapIsBacked /\ ReconInv
    BY DEF AskedInv, ActivatedInv, MapIsBacked, ReconInv, NoReply
  <1>3. HolderInv /\ ServedInv
    BY DEF HolderInv, ServedInv, Holding, AllIdle, Tasks
  <1>4. TornInv
    BY DEF TornInv, TornDown, NoReply
  <1> QED BY <1>1, <1>2, <1>3, <1>4 DEF IInv

LEMMA NextIInv == IInv /\ [Next]_vars => IInv'
  <1> SUFFICES ASSUME IInv, [Next]_vars PROVE IInv'
    OBVIOUS
  <1> USE BoundAssumption, SessionAssumption
      DEF IInv, TypeOK, AskedInv, ActivatedInv, HolderInv, ServedInv, ReconInv, MapIsBacked,
          Holding, NotHeld, Wanted, Tasks, NoTask, NoReply, Statuses, BoxStates,
          StartPhases, ReconPhases, Posts, AllIdle, dockerVars, agentVars, counts,
          TornInv, TornDown, BeingMade
  <1>1. ASSUME NEW s \in Sessions, AskStop(s) PROVE IInv'
    BY <1>1 DEF AskStop
  <1>2. CASE HeartbeatSend
    BY <1>2 DEF HeartbeatSend
  <1>3. CASE HeartbeatLost
    BY <1>3 DEF HeartbeatLost
  <1>4. ASSUME NEW m \in Posts, PostDelivered(m) PROVE IInv'
    BY <1>4 DEF PostDelivered, Accepted, StatusAfter
  <1>5. ASSUME NEW m \in Posts, PostLost(m) PROVE IInv'
    BY <1>5 DEF PostLost
  <1>6. CASE HandleSessions
    BY <1>6 DEF HandleSessions, ToStart, ToReconcile, ToStop, FreeTasks
  <1>7. ASSUME NEW s \in Sessions, NEW k \in Tasks, CreateContainer(s, k) PROVE IInv'
    BY <1>7 DEF CreateContainer, SetStart
  <1>8. ASSUME NEW s \in Sessions, NEW k \in Tasks, StartContainer(s, k) PROVE IInv'
    <2>1. status[s] # "active"
      BY <1>8 DEF StartContainer
    <2>2. TypeOK'
      BY <1>8 DEF StartContainer, SetStart
    <2>3. AskedInv' /\ ActivatedInv' /\ MapIsBacked' /\ HolderInv'
      BY <1>8 DEF StartContainer, SetStart
    <2>4. ServedInv'
      BY <1>8 DEF StartContainer, SetStart
    <2>5. ReconInv'
      BY <1>8, <2>1 DEF StartContainer
    <2>6. TornInv'
      <3>1. box[s] # "none" /\ start[s][k] # "pulling"
        BY <1>8 DEF StartContainer
      <3>2. \A t \in Sessions : BeingMade(t)' => BeingMade(t)
        BY <1>8 DEF StartContainer, SetStart
      <3> QED
        BY <1>8, <3>1, <3>2 DEF StartContainer
    <2> QED BY <2>2, <2>3, <2>4, <2>5, <2>6
  <1>9. ASSUME NEW s \in Sessions, NEW k \in Tasks, RunFails(s, k) PROVE IInv'
    BY <1>9 DEF RunFails, SetStart
  <1>10. ASSUME NEW s \in Sessions, NEW k \in Tasks, Activate(s, k) PROVE IInv'
    BY <1>10 DEF Activate, SetStart
  <1>11. ASSUME NEW s \in Sessions, StopSession(s) PROVE IInv'
    <2>1. status[s] \in {"stopping", "stopped"}
      BY <1>11 DEF StopSession
    <2>2. PICK new \in BoxStates :
            /\ box' = [box EXCEPT ![s] = new]
            /\ maker' = [maker EXCEPT ![s] = IF new = "none" THEN 0 ELSE maker[s]]
            /\ late' = IF BeingMade(s) \/ new # "none" THEN late \cup {s} ELSE late \ {s}
      BY <1>11 DEF StopSession, SetBox, Torn
    <2>3. TypeOK'
      BY <1>11, <2>2 DEF StopSession
    <2>4. AskedInv' /\ ActivatedInv' /\ MapIsBacked'
      BY <1>11, <2>1, <2>2 DEF StopSession
    <2>5. HolderInv'
      BY <1>11, <2>1, <2>2 DEF StopSession
    <2>6. ServedInv' /\ ReconInv'
      BY <1>11, <2>1, <2>2 DEF StopSession
    <2>7. TornInv'
      <3>1. reply[s] # "starting"
        BY <1>11 DEF StopSession
      <3>2. \A t \in Sessions : BeingMade(t)' <=> BeingMade(t)
        BY <1>11 DEF StopSession
      <3>3. s \notin late' => box'[s] = "none" /\ ~BeingMade(s)
        BY <2>2
      <3>4. \A t \in Sessions \ {s} : /\ TornDown(t)' => TornDown(t)
                                    /\ box'[t] = box[t] /\ (t \in late' <=> t \in late)
        BY <1>11, <2>2 DEF StopSession
      <3>5. stopping' = stopping \ {s} /\ UNCHANGED reply
        BY <1>11 DEF StopSession
      <3> HIDE DEF BeingMade, TornDown
      <3>6. ASSUME NEW t \in Sessions
            PROVE  /\ t \in stopping' \/ TornDown(t)' => reply'[t] # "starting"
                   /\ TornDown(t)' /\ t \notin late' => box'[t] = "none" /\ ~BeingMade(t)'
        <4>1. CASE t = s
          BY <3>1, <3>2, <3>3, <3>5, <4>1
        <4>2. CASE t # s
          BY <3>2, <3>4, <3>5, <4>2
        <4> QED
          BY <4>1, <4>2
      <3> QED
        BY <3>6
    <2> QED BY <2>3, <2>4, <2>5, <2>6, <2>7
  <1>12. ASSUME NEW s \in Sessions, FindRunning(s) PROVE IInv'
    BY <1>12 DEF FindRunning, SetRecon
  <1>13. ASSUME NEW s \in Sessions, ReconcileFound(s) PROVE IInv'
    BY <1>13 DEF ReconcileFound, SetRecon
  <1>14. ASSUME NEW s \in Sessions, ReconcileAbsent(s) PROVE IInv'
    BY <1>14 DEF ReconcileAbsent, SetRecon
  <1>15. ASSUME NEW s \in Sessions, ReconcileEnds(s) PROVE IInv'
    BY <1>15 DEF ReconcileEnds, SetRecon
  <1>16. ASSUME NEW s \in Sessions, ContainerDies(s) PROVE IInv'
    BY <1>16 DEF ContainerDies
  <1>17. CASE Restart
    BY <1>17 DEF Restart
  <1>18. CASE UNCHANGED vars
    BY <1>18 DEF vars
  <1> QED
    BY <1>1, <1>2, <1>3, <1>4, <1>5, <1>6, <1>7, <1>8, <1>9, <1>10, <1>11, <1>12,
       <1>13, <1>14, <1>15, <1>16, <1>17, <1>18
    DEF Next, SessionStep, StartStep, PostStep
-----------------------------------------------------------------------------
LEMMA Inductive == Spec => []IInv
  BY InitIInv, NextIInv, PTL DEF Spec

(* Every variable keeps its type, whatever heartbeats, tasks, Docker and    *)
(* restarts do (the whole handler, lines 183-492).                          *)
THEOREM TypeCorrect == Spec => []TypeOK
  BY Inductive, PTL DEF IInv

(* However many heartbeats launch a start for the same wanted session, at   *)
(* most one of them holds its container (lines 209-211, 230-405).           *)
THEOREM OneHolderHolds == Spec => []OneHolder
  <1>1. IInv => OneHolder
    BY DEF IInv, HolderInv, OneHolder, Holding, TypeOK
  <1> QED BY <1>1, Inductive, PTL

(* A wanted session that the handler has in its map has a container         *)
(* (lines 398-402, 417, 472-480).                                           *)
THEOREM MapIsBackedHolds == Spec => []MapIsBacked
  BY Inductive, PTL DEF IInv

(* A teardown and its report concern a session the dispatcher ended         *)
(* (lines 216-222, 410-441).                                                *)
THEOREM StopsAreAskedHolds == Spec => []StopsAreAsked
  <1>1. IInv => StopsAreAsked
    BY DEF IInv, AskedInv, StopsAreAsked
  <1> QED BY <1>1, Inductive, PTL

(* A session that was reported stopped has no container, unless Docker did  *)
(* not remove it or was creating one meanwhile (lines 216-222, 408-443).    *)
THEOREM StoppedIsGoneHolds == Spec => []StoppedIsGone
  <1>1. IInv => StoppedIsGone
    BY DEF IInv, TornInv, TornDown, StoppedIsGone
  <1> QED BY <1>1, Inductive, PTL

-----------------------------------------------------------------------------
LEMMA InitContract == Init => Contract!Init
  BY DEF Init, Contract!Init

LEMMA NextContract == IInv /\ [Next]_vars => [Contract!Next]_(Contract!vars)
  <1> SUFFICES ASSUME IInv, [Next]_vars
               PROVE  Contract!Next \/ UNCHANGED Contract!vars
    OBVIOUS
  <1> USE BoundAssumption DEF IInv, TypeOK, dockerVars, agentVars, Contract!vars
  <1>1. ASSUME NEW s \in Sessions, AskStop(s) PROVE Contract!AskStop(s)
    BY <1>1 DEF AskStop, Contract!AskStop, Contract!SetStatus
  <1>2. ASSUME NEW m \in Posts, PostDelivered(m)
        PROVE  Contract!Next \/ UNCHANGED Contract!vars
    <2>1. PICK kind \in {"activate", "stopped", "lost"}, s \in Sessions : m = <<kind, s>>
      BY DEF Posts
    <2>2. CASE kind = "activate" /\ status[s] = "starting"
      <3>1. Contract!Activate(s)
        BY <1>2, <2>1, <2>2 DEF PostDelivered, Accepted, StatusAfter, ServedInv, Wanted,
           Contract!Activate, Contract!SetStatus
      <3> QED BY <3>1 DEF Contract!Next
    <2>3. CASE kind = "stopped" /\ status[s] = "stopping"
      <3>1. Contract!Stopped(s)
        BY <1>2, <2>1, <2>3 DEF PostDelivered, Accepted, StatusAfter,
           Contract!Stopped, Contract!SetStatus
      <3> QED BY <3>1 DEF Contract!Next
    <2>4. CASE kind = "lost" /\ status[s] = "active"
      <3>1. Contract!Lose(s)
        BY <1>2, <2>1, <2>4 DEF PostDelivered, Accepted, StatusAfter, ReconInv,
           Contract!Lose, Contract!SetStatus
      <3> QED BY <3>1 DEF Contract!Next
    <2>5. CASE ~Accepted(m)
      BY <1>2, <2>5 DEF PostDelivered
    <2> QED BY <2>1, <2>2, <2>3, <2>4, <2>5 DEF Accepted
  <1>3. ASSUME NEW s \in Sessions, NEW k \in Tasks, CreateContainer(s, k)
        PROVE  Contract!Provision(s)
    BY <1>3 DEF CreateContainer, ServedInv, Contract!Provision, Contract!SetBox
  <1>4. ASSUME NEW s \in Sessions, NEW k \in Tasks, StartContainer(s, k)
        PROVE  Contract!Boot(s)
    BY <1>4 DEF StartContainer, ServedInv, NotHeld, Holding, Contract!Boot, Contract!SetBox
  <1>5. ASSUME NEW s \in Sessions, StopSession(s)
        PROVE  Contract!Teardown(s) \/ UNCHANGED Contract!vars
    <2>1. status[s] \in {"stopping", "stopped"} /\ status' = status
      BY <1>5 DEF StopSession, AskedInv
    <2>2. \/ \E new \in {"none", "exited"} : box' = [box EXCEPT ![s] = new]
          \/ box' = [box EXCEPT ![s] = box[s]]
      BY <1>5 DEF StopSession, SetBox, Torn
    <2> QED BY <2>1, <2>2 DEF Contract!Teardown, Contract!SetBox
  <1>6. ASSUME NEW s \in Sessions, ContainerDies(s) PROVE Contract!Die(s)
    BY <1>6 DEF ContainerDies, Contract!Die, Contract!SetBox
  <1>7. ASSUME NEW s \in Sessions,
               \/ FindRunning(s) \/ ReconcileFound(s) \/ ReconcileAbsent(s) \/ ReconcileEnds(s)
        PROVE  UNCHANGED Contract!vars
    BY <1>7 DEF FindRunning, ReconcileFound, ReconcileAbsent, ReconcileEnds
  <1>8. ASSUME NEW s \in Sessions, NEW k \in Tasks, RunFails(s, k) \/ Activate(s, k)
        PROVE  UNCHANGED Contract!vars
    BY <1>8 DEF RunFails, Activate
  <1>9. ASSUME NEW m \in Posts, PostLost(m) PROVE UNCHANGED Contract!vars
    BY <1>9 DEF PostLost
  <1>10. CASE HeartbeatSend \/ HeartbeatLost \/ HandleSessions \/ Restart \/ UNCHANGED vars
    BY <1>10 DEF HeartbeatSend, HeartbeatLost, HandleSessions, Restart, vars
  <1> QED
    BY <1>1, <1>2, <1>3, <1>4, <1>5, <1>6, <1>7, <1>8, <1>9, <1>10
    DEF Next, SessionStep, StartStep, PostStep, Contract!Next

(* The handler implements the contract: a session is activated only with a  *)
(* container, given up only when the container does not run, torn down only *)
(* when it was ended, and never revived (lines 193-492).                    *)
THEOREM Refinement == Spec => ContractSpec
  BY Inductive, InitContract, NextContract, PTL DEF Spec, ContractSpec, Contract!Spec
=============================================================================
