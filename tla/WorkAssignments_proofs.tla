------------------------ MODULE WorkAssignments_proofs ------------------------
(***************************************************************************)
(* For any set of tasks and any size of the pool, whatever fails and       *)
(* however the agent stops: types, directories, honest results and the     *)
(* contract with the backend; then the same with the fill handlers in the  *)
(* pool, which implement WorkAssignments and leave no miner behind.        *)
(***************************************************************************)
EXTENDS FillWork, TLAPS

(* Every variable keeps its type (agent.py lines 704-727, 946-1180). *)
THEOREM TypeCorrect == Spec => []TypeOK
<1>1. Init => TypeOK
  BY DEF Init, TypeOK, Pcs
<1>2. TypeOK /\ [Next]_vars => TypeOK'
  <2> SUFFICES ASSUME TypeOK, [Next]_vars PROVE TypeOK'
    OBVIOUS
  <2> USE DEF TypeOK, Pcs
  <2>1. ASSUME NEW new \in SUBSET Tasks, Poll(new) PROVE TypeOK'
    BY <2>1 DEF Poll
  <2>2. ASSUME NEW t \in Tasks, TaskStep(t) PROVE TypeOK'
    <3>1. CASE Staged(t) \/ StageFails(t) \/ StageRaises(t)
      BY <3>1 DEF Staged, StageFails, StageRaises, Enter
    <3>2. CASE Begin(t)
      BY <3>2 DEF Begin
    <3>3. CASE WorkerDies(t)
      BY <3>3 DEF WorkerDies
    <3>4. CASE Refused(t)
      BY <3>4 DEF Refused
    <3>5. ASSUME NEW out \in {"ok", "error"}, Returns(t, out) PROVE TypeOK'
      BY <3>5 DEF Returns, Returned
    <3>6. CASE UploadEnds(t) \/ UploadRaises(t)
      BY <3>6 DEF UploadEnds, UploadRaises
    <3>7. CASE PostFailure(t) \/ PostResult(t)
      BY <3>7 DEF PostFailure, PostResult, Post, ResultOf
    <3>8. CASE PostHeatSession(t)
      BY <3>8 DEF PostHeatSession
    <3> QED
      BY <2>2, <3>1, <3>2, <3>3, <3>4, <3>5, <3>6, <3>7, <3>8 DEF TaskStep
  <2>3. CASE Shutdown
    <3>1. CASE StopSignal \/ LoopsEnd \/ Drained
      BY <3>1 DEF StopSignal, LoopsEnd, Drained
    <3>2. CASE DrainTimesOut \/ LoopRaises
      <4>1. CancelAll
        BY <3>2 DEF DrainTimesOut, LoopRaises
      <4>2. pc' \in [Tasks -> Pcs] /\ worker' \in [Tasks -> {"none", "queued", "running", "ended", "cancelled"}]
        BY <4>1 DEF CancelAll
      <4>3. dir' \in [Tasks -> BOOLEAN]
        BY <4>1 DEF CancelAll
      <4> QED
        BY <4>1, <4>2, <4>3 DEF CancelAll
    <3> QED
      BY <2>3, <3>1, <3>2 DEF Shutdown
  <2>4. CASE UNCHANGED vars
    BY <2>4 DEF vars
  <2> QED
    BY <2>1, <2>2, <2>3, <2>4 DEF Next
<1> QED
  BY <1>1, <1>2, PTL DEF Spec

-----------------------------------------------------------------------------
(* Where a coroutine is tells what its directory, its item in the pool and *)
(* its outcome are; only a stopped agent leaves an item behind.            *)

DirsMatch(t) ==
  /\ t \in Blobs /\ pc[t] \in {"staging", "failing", "pooled", "uploading"} => dir[t]
  /\ pc[t] \in {"posting", "filing", "done"} => ~dir[t]
  /\ t \notin Blobs => ~dir[t]

PoolMatches(t) ==
  /\ worker[t] \in {"queued", "running"} =>
       pc[t] = "pooled" \/ (pc[t] = "gone" /\ stop = "down")
  /\ pc[t] \in {"staging", "failing"} => t \in Blobs

OutcomeMatches(t) ==
  /\ pc[t] \in {"backend", "staging", "pooled"} => outcome[t] = "none"
  /\ outcome[t] = "ok" => worker[t] = "ended"
  /\ pc[t] \in {"uploading", "filing"} => outcome[t] = "ok"
  /\ pc[t] = "filing" => t \in Fill
  /\ pc[t] = "failing" => outcome[t] = "error"
  /\ pc[t] = "posting" => outcome[t] # "none"
  /\ result[t] # "none" => pc[t] \in {"filing", "done", "gone"}
  /\ result[t] = "success" => outcome[t] = "ok"
  /\ result[t] = "failure" => outcome[t] \in {"error", "died", "refused"}
  /\ filed[t] => outcome[t] = "ok" /\ pc[t] = "done"

Inv == \A t \in Tasks : DirsMatch(t) /\ PoolMatches(t) /\ OutcomeMatches(t)

LEMMA InvInit == Init => Inv
  BY DEF Init, Inv, DirsMatch, PoolMatches, OutcomeMatches

LEMMA InvStep == TypeOK /\ Inv /\ [Next]_vars => Inv'
<1> SUFFICES ASSUME TypeOK, Inv, [Next]_vars PROVE Inv'
  OBVIOUS
<1> USE WorkAssumption DEF TypeOK, Pcs, Inv, DirsMatch, PoolMatches, OutcomeMatches, Up
<1>1. ASSUME NEW new \in SUBSET Tasks, Poll(new) PROVE Inv'
  <2> SUFFICES ASSUME NEW t \in Tasks
               PROVE  (DirsMatch(t) /\ PoolMatches(t) /\ OutcomeMatches(t))'
    OBVIOUS
  <2>1. CASE t \in new
    <3>1. pc[t] = "backend" /\ pc'[t] = IF t \in Blobs THEN "staging" ELSE "pooled"
      BY <1>1, <2>1 DEF Poll
    <3>2. worker'[t] = IF t \in Blobs THEN worker[t] ELSE "queued"
      BY <1>1, <2>1 DEF Poll
    <3>3. dir'[t] = (dir[t] \/ t \in Blobs)
      BY <1>1, <2>1 DEF Poll
    <3>4. outcome'[t] = outcome[t] /\ result'[t] = result[t] /\ filed'[t] = filed[t] /\ stop' = stop
      BY <1>1 DEF Poll
    <3>5. DirsMatch(t)'
      BY <3>1, <3>3
    <3>6. PoolMatches(t)'
      BY <3>1, <3>2
    <3>7. OutcomeMatches(t)'
      BY <3>1, <3>2, <3>4
    <3> QED
      BY <3>5, <3>6, <3>7
  <2>2. CASE t \notin new
    BY <1>1, <2>2 DEF Poll
  <2> QED
    BY <2>1, <2>2
<1>2. ASSUME NEW t \in Tasks, TaskStep(t) PROVE Inv'
  <2>1. CASE Staged(t) \/ StageFails(t) \/ StageRaises(t)
    <3>1. CASE Staged(t)
      <4>1. pc' = [pc EXCEPT ![t] = "pooled"] /\ worker' = [worker EXCEPT ![t] = "queued"]
        BY <3>1 DEF Staged, Enter
      <4>2. pc[t] = "staging" /\ UNCHANGED <<outcome, dir, result, filed, broken, stop>>
        BY <3>1 DEF Staged
      <4>3. \A u \in Tasks : DirsMatch(u)'
        BY <4>1, <4>2
      <4>4. \A u \in Tasks : PoolMatches(u)'
        BY <4>1, <4>2
      <4>5. \A u \in Tasks : OutcomeMatches(u)'
        BY <4>1, <4>2
      <4> QED
        BY <4>3, <4>4, <4>5
    <3>2. CASE StageFails(t)
      BY <3>2 DEF StageFails
    <3>3. CASE StageRaises(t)
      BY <3>3 DEF StageRaises
    <3> QED
      BY <2>1, <3>1, <3>2, <3>3
  <2>2. CASE Begin(t)
    BY <2>2 DEF Begin
  <2>3. CASE WorkerDies(t)
    BY <2>3 DEF WorkerDies
  <2>4. CASE Refused(t)
    BY <2>4 DEF Refused
  <2>5. ASSUME NEW out \in {"ok", "error"}, Returns(t, out) PROVE Inv'
    BY <2>5 DEF Returns, Returned
  <2>6. CASE UploadEnds(t) \/ UploadRaises(t)
    BY <2>6 DEF UploadEnds, UploadRaises
  <2>7. CASE PostFailure(t)
    BY <2>7 DEF PostFailure, Post, ResultOf
  <2>8. CASE PostResult(t)
    BY <2>8 DEF PostResult, Post, ResultOf
  <2>9. CASE PostHeatSession(t)
    BY <2>9 DEF PostHeatSession
  <2> QED
    BY <1>2, <2>1, <2>2, <2>3, <2>4, <2>5, <2>6, <2>7, <2>8, <2>9 DEF TaskStep
<1>3. CASE DrainTimesOut \/ LoopRaises
  BY <1>3 DEF DrainTimesOut, LoopRaises, CancelAll, InFlight
<1>4. CASE StopSignal \/ LoopsEnd
  BY <1>4 DEF StopSignal, LoopsEnd
<1>5. CASE Drained
  BY <1>5 DEF Drained
<1>6. CASE UNCHANGED vars
  BY <1>6 DEF vars
<1> QED
  BY <1>1, <1>2, <1>3, <1>4, <1>5, <1>6 DEF Next, Shutdown

LEMMA InvHolds == Spec => []Inv
  BY InvInit, InvStep, TypeCorrect, PTL DEF Spec

(* While the agent is up, the directory of a handler outlives it. *)
THEOREM DirOutlivesHandlerHolds == Spec => []DirOutlivesHandler
<1>1. Inv => DirOutlivesHandler
  BY WorkAssumption DEF Inv, DirsMatch, PoolMatches, DirOutlivesHandler, Up
<1> QED
  BY <1>1, InvHolds, PTL

(* The backend is told what happened, and no heat session is filed that    *)
(* was not earned.                                                         *)
THEOREM ResultsAreEarnedHolds == Spec => []ResultsAreEarned
<1>1. Inv => ResultsAreEarned
  BY DEF Inv, OutcomeMatches, ResultsAreEarned
<1> QED
  BY <1>1, InvHolds, PTL

(* A coroutine that came to its end left neither directory nor pool item.  *)
THEOREM DoneIsCleanHolds == Spec => []DoneIsClean
<1>1. Inv => DoneIsClean
  BY DEF Inv, DirsMatch, PoolMatches, DoneIsClean
<1> QED
  BY <1>1, InvHolds, PTL

-----------------------------------------------------------------------------
(* The contract: what a step does to the fates, and to what is told of     *)
(* them, the contract allows.                                              *)

LEMMA FateOf ==
  ASSUME TypeOK, Inv
  PROVE  \A t \in Tasks :
           /\ pc[t] = "backend" => Fate[t] = "waiting"
           /\ pc[t] \in {"staging", "pooled"} => Fate[t] = "running"
           /\ pc[t] \in {"uploading", "filing"} => Fate[t] = "ok"
           /\ pc[t] = "failing" => Fate[t] = "failed"
           /\ pc[t] = "posting" =>
                Fate[t] = IF ResultOf(t) = "success" THEN "ok" ELSE "failed"
  BY DEF Fate, TypeOK, Inv, OutcomeMatches, ResultOf

(* A step that changes no outcome and hands over nothing.                  *)
LEMMA FatesKept ==
  ASSUME UNCHANGED outcome, \A t \in Tasks : (pc[t] = "backend") <=> (pc'[t] = "backend")
  PROVE  UNCHANGED Fate
  BY DEF Fate

LEMMA ContractInit == Init => Contract!Init
  BY DEF Init, Contract!Init, Fate

LEMMA ContractStep == TypeOK /\ Inv /\ [Next]_vars => [Contract!Next]_(Contract!vars)
<1> SUFFICES ASSUME TypeOK, Inv, [Next]_vars PROVE [Contract!Next]_(Contract!vars)
  OBVIOUS
<1>a. \A t \in Tasks : OutcomeMatches(t) /\ PoolMatches(t)
  BY DEF Inv
<1>1. ASSUME NEW new \in SUBSET Tasks, Poll(new) PROVE Contract!Hand(new)
  <2>1. \A t \in new : Fate[t] = "waiting"
    BY <1>1, FateOf DEF Poll
  <2>2. Fate' = [t \in Tasks |-> IF t \in new THEN "running" ELSE Fate[t]]
    <3>1. \A t \in Tasks : outcome'[t] = outcome[t] /\ (t \in new => outcome[t] = "none")
      BY <1>1, <1>a DEF Poll, OutcomeMatches
    <3>2. \A t \in Tasks : /\ t \in new => pc'[t] # "backend"
                           /\ t \notin new => pc'[t] = pc[t]
      BY <1>1 DEF Poll, TypeOK
    <3> QED
      BY <3>1, <3>2 DEF Fate
  <2> QED
    BY <1>1, <2>1, <2>2 DEF Poll, Contract!Hand
<1>2. ASSUME NEW t \in Tasks, TaskStep(t) PROVE [Contract!Next]_(Contract!vars)
  <2>1. CASE Staged(t) \/ StageRaises(t) \/ Begin(t) \/ UploadEnds(t) \/ UploadRaises(t)
    <3>1. UNCHANGED <<outcome, result, filed>>
      BY <2>1 DEF Staged, StageRaises, Begin, UploadEnds, UploadRaises
    <3>2. \A u \in Tasks : (pc[u] = "backend") <=> (pc'[u] = "backend")
      BY <2>1 DEF Staged, StageRaises, Begin, UploadEnds, UploadRaises, TypeOK
    <3> QED
      BY <3>1, <3>2, FatesKept DEF Contract!vars
  <2>2. ASSUME NEW lost \in SUBSET Tasks, UNCHANGED <<result, filed>>,
               \A u \in lost : Fate[u] = "running" /\ outcome'[u] \in {"error", "died", "refused"},
               \A u \in Tasks \ lost : outcome'[u] = outcome[u] /\ pc'[u] = pc[u]
        PROVE  Contract!Next
    <3>1. Fate' = [u \in Tasks |-> IF u \in lost THEN "failed" ELSE Fate[u]]
      BY <2>2 DEF Fate
    <3>2. Contract!Fail(lost)
      BY <2>2, <3>1 DEF Contract!Fail
    <3> QED
      BY <3>2 DEF Contract!Next
  <2>3. ASSUME Fate[t] = "running", UNCHANGED <<result, filed>>,
                outcome'[t] \in {"error", "died", "refused"},
                \A u \in Tasks \ {t} : outcome'[u] = outcome[u] /\ pc'[u] = pc[u]
         PROVE  Contract!Next
    <3>1. {t} \in SUBSET Tasks
      OBVIOUS
    <3> QED
      BY <2>2, <2>3, <3>1
  <2>4. CASE StageFails(t)
    <3>1. Fate[t] = "running"
      BY <2>4, FateOf DEF StageFails
    <3>2. outcome'[t] = "error" /\ UNCHANGED <<result, filed>>
      BY <2>4 DEF StageFails, TypeOK
    <3>3. \A u \in Tasks \ {t} : outcome'[u] = outcome[u] /\ pc'[u] = pc[u]
      BY <2>4 DEF StageFails, TypeOK
    <3> QED
      BY <2>3, <3>1, <3>2, <3>3
  <2>5. CASE WorkerDies(t)
    <3> DEFINE lost == {u \in Tasks : worker[u] \in {"queued", "running"}}
    <3>1. \A u \in lost : Fate[u] = "running"
      BY <2>5, <1>a, FateOf DEF WorkerDies, PoolMatches, Up
    <3>2. \A u \in lost : outcome'[u] \in {"died", "refused"}
      BY <2>5 DEF WorkerDies, TypeOK
    <3>3. UNCHANGED <<result, filed>>
      BY <2>5 DEF WorkerDies
    <3>4. \A u \in Tasks \ lost : outcome'[u] = outcome[u] /\ pc'[u] = pc[u]
      BY <2>5 DEF WorkerDies, TypeOK
    <3>5. lost \in SUBSET Tasks
      OBVIOUS
    <3> HIDE DEF lost
    <3> QED
      BY <2>2, <3>1, <3>2, <3>3, <3>4, <3>5
  <2>6. CASE Refused(t)
    <3>1. Fate[t] = "running"
      BY <2>6, <1>a, FateOf DEF Refused, PoolMatches, Up
    <3>2. outcome'[t] = "refused" /\ UNCHANGED <<result, filed>>
      BY <2>6 DEF Refused, TypeOK
    <3>3. \A u \in Tasks \ {t} : outcome'[u] = outcome[u] /\ pc'[u] = pc[u]
      BY <2>6 DEF Refused, TypeOK
    <3> QED
      BY <2>3, <3>1, <3>2, <3>3
  <2>7. ASSUME NEW out \in {"ok", "error"}, Returns(t, out) PROVE Contract!Next
    <3>1. Fate[t] = "running"
      BY <2>7, FateOf DEF Returns
    <3>2. outcome'[t] = out /\ UNCHANGED <<result, filed>>
      BY <2>7 DEF Returns, TypeOK
    <3>3. \A u \in Tasks \ {t} : outcome'[u] = outcome[u] /\ pc'[u] = pc[u]
      BY <2>7 DEF Returns, TypeOK
    <3>4. CASE out = "error"
      BY <2>3, <3>1, <3>2, <3>3, <3>4
    <3>5. CASE out = "ok"
      <4>1. Fate' = [Fate EXCEPT ![t] = "ok"]
        BY <3>2, <3>3, <3>5 DEF Fate
      <4>2. Contract!Succeed(t)
        BY <3>1, <3>2, <4>1 DEF Contract!Succeed
      <4> QED
        BY <4>2 DEF Contract!Next
    <3> QED
      BY <3>4, <3>5
  <2>8. CASE PostFailure(t) \/ PostResult(t)
    <3>1. UNCHANGED <<outcome, filed>> /\ Post(t) /\ pc[t] \in {"failing", "posting"}
      BY <2>8 DEF PostFailure, PostResult
    <3>2. \A u \in Tasks : (pc[u] = "backend") <=> (pc'[u] = "backend")
      BY <2>8 DEF PostFailure, PostResult, TypeOK
    <3>3. UNCHANGED Fate
      BY <3>1, <3>2, FatesKept
    <3>4. result[t] = "none" /\ ~filed[t]
      BY <3>1, <1>a DEF OutcomeMatches, TypeOK
    <3>5. CASE UNCHANGED result
      BY <3>1, <3>3, <3>5 DEF Contract!vars
    <3>6. CASE result' = [result EXCEPT ![t] = ResultOf(t)]
      <4>1. \/ Fate[t] = "ok" /\ ResultOf(t) = "success"
            \/ Fate[t] = "failed" /\ ResultOf(t) = "failure"
        BY <3>1, <1>a, FateOf DEF ResultOf, OutcomeMatches
      <4>2. Contract!Tell(t)
        BY <3>1, <3>3, <3>4, <3>6, <4>1 DEF Contract!Tell
      <4> QED
        BY <4>2 DEF Contract!Next
    <3> QED
      BY <3>1, <3>5, <3>6 DEF Post
  <2>9. CASE PostHeatSession(t)
    <3>1. UNCHANGED <<outcome, result>> /\ pc[t] = "filing"
      BY <2>9 DEF PostHeatSession
    <3>2. \A u \in Tasks : (pc[u] = "backend") <=> (pc'[u] = "backend")
      BY <2>9 DEF PostHeatSession, TypeOK
    <3>3. UNCHANGED Fate
      BY <3>1, <3>2, FatesKept
    <3>4. t \in Fill /\ ~filed[t] /\ Fate[t] = "ok"
      BY <3>1, <1>a, FateOf DEF OutcomeMatches, TypeOK
    <3>5. CASE UNCHANGED filed
      BY <3>1, <3>3, <3>5 DEF Contract!vars
    <3>6. CASE filed' = [filed EXCEPT ![t] = TRUE]
      <4>1. Contract!File(t)
        BY <3>1, <3>3, <3>4, <3>6 DEF Contract!File
      <4> QED
        BY <4>1 DEF Contract!Next
    <3> QED
      BY <2>9, <3>5, <3>6 DEF PostHeatSession
  <2> QED
    BY <1>2, <2>1, <2>4, <2>5, <2>6, <2>7, <2>8, <2>9 DEF TaskStep
<1>3. CASE Shutdown
  <2>1. UNCHANGED <<outcome, result, filed>>
    BY <1>3 DEF Shutdown, StopSignal, LoopsEnd, Drained, DrainTimesOut, LoopRaises, CancelAll
  <2>2. \A t \in Tasks : (pc[t] = "backend") <=> (pc'[t] = "backend")
    BY <1>3 DEF Shutdown, StopSignal, LoopsEnd, Drained, DrainTimesOut, LoopRaises,
       CancelAll, InFlight
  <2> QED
    BY <2>1, <2>2, FatesKept DEF Contract!vars
<1>4. CASE UNCHANGED vars
  BY <1>4 DEF vars, Contract!vars, Fate
<1> QED
  BY <1>1, <1>2, <1>3, <1>4 DEF Next, Contract!Next

(* Whatever coroutines, the pool and the shutdown do, the backend is told  *)
(* each task's fate, once and after it (agent.py lines 1072-1132).         *)
THEOREM ContractHolds == Spec => ContractSpec
  BY ContractInit, ContractStep, TypeCorrect, InvHolds, PTL DEF Spec, ContractSpec, Contract!Spec

-----------------------------------------------------------------------------
(* With the handlers in the pool. *)

LEMMA FillStep == [FillNext]_allVars => [Next]_vars
<1> SUFFICES ASSUME [FillNext]_allVars PROVE [Next]_vars
  OBVIOUS
<1>1. ASSUME NEW t \in Tasks, FillTaskStep(t) PROVE Next
  <2>1. TaskStep(t)
    BY <1>1 DEF FillTaskStep, FillBegin, FillWorkerDies, FillReturns, Elsewhere, TaskStep
  <2> QED
    BY <2>1 DEF Next
<1>2. CASE (\E new \in SUBSET Tasks : Poll(new)) \/ Shutdown
  BY <1>2 DEF Next
<1>3. CASE UNCHANGED vars
  BY <1>3
<1> QED
  BY <1>1, <1>2, <1>3 DEF FillNext, Reaped, allVars, vars

(* Whatever the handlers do, they are handlers of WorkAssignments: each    *)
(* has begun, and returns or raises once (executor.py lines 60-82).        *)
THEOREM FillImplementsWork == FillSpec => Spec
<1>1. FillInit => Init
  BY DEF FillInit
<1> QED
  BY <1>1, FillStep, PTL DEF FillSpec, Spec

(* So the agent keeps its contract about their tasks.                      *)
THEOREM FillKeepsContract == FillSpec => ContractSpec
  BY FillImplementsWork, ContractHolds, PTL

(* A handler runs in a worker that runs its item; what it has not launched *)
(* or has waited for or killed is not alive.                               *)
SliceMatches(s) ==
  /\ S!Running(s) => worker[s] = "running"
  /\ slice[s] \in {"idle", "launching", "logging", "over"} => ~S!Alive(s)
  /\ slice[s] = "raised" /\ S!Alive(s) => kind[s] = "burn"
  /\ slice[s] = "dead" => broken \/ stop = "down"
  /\ outcome[s] = "ok" => slice[s] = "over"

SliceInv == S!SliceTypeOK /\ \A s \in Fill : SliceMatches(s)

LEMMA SliceInvInit == FillInit => SliceInv
  BY WorkAssumption DEF FillInit, Init, S!SliceInit, SliceInv, SliceMatches, S!SliceTypeOK,
     S!Points, S!Kinds, S!Running, S!Alive

(* A step of one handler, with its item in the pool as it is.              *)
LEMMA HandlerStep ==
  ASSUME TypeOK, SliceInv, NEW s \in Fill, S!SliceStep(s), UNCHANGED vars
  PROVE  SliceInv'
<1> USE DEF SliceInv, SliceMatches, S!SliceTypeOK, S!Points, S!Kinds, S!Running, S!Alive,
    S!At, vars
<1>1. CASE S!Skip(s) \/ S!Launch(s) \/ S!LaunchFails(s)
  BY <1>1 DEF S!Skip, S!Launch, S!LaunchFails
<1>2. CASE S!Look(s) \/ S!LookFails(s) \/ S!Wake(s)
  BY <1>2 DEF S!Look, S!LookFails, S!Wake
<1>3. CASE S!Suspend(s) \/ S!Resume(s)
  BY <1>3 DEF S!Suspend, S!Resume
<1>4. CASE S!FindsItGone(s) \/ S!Again(s) \/ S!TimeIsUp(s)
  BY <1>4 DEF S!FindsItGone, S!Again, S!TimeIsUp
<1>5. CASE S!Terminate(s) \/ S!WaitEnds(s) \/ S!Kill(s) \/ S!Log(s)
  BY <1>5 DEF S!Terminate, S!WaitEnds, S!Kill, S!Log
<1> QED
  BY <1>1, <1>2, <1>3, <1>4, <1>5 DEF S!SliceStep

LEMMA SliceInvStep == TypeOK /\ Inv /\ SliceInv /\ [FillNext]_allVars => SliceInv'
<1> SUFFICES ASSUME TypeOK, Inv, SliceInv, [FillNext]_allVars PROVE SliceInv'
  OBVIOUS
<1> USE WorkAssumption
<1>1. CASE (\E new \in SUBSET Tasks : Poll(new)) /\ UNCHANGED fillVars
  <2>1. PICK new \in SUBSET Tasks : Poll(new)
    BY <1>1
  <2>2. \A t \in new : worker[t] # "running"
    BY <2>1 DEF Poll, Inv, PoolMatches
  <2>3. \A t \in Tasks : worker[t] = "running" => worker'[t] = "running"
    BY <2>1, <2>2 DEF Poll, TypeOK
  <2> QED
    BY <1>1, <2>1, <2>3 DEF Poll, fillVars, SliceInv, SliceMatches, S!SliceTypeOK, S!Running, S!Alive
<1>2. ASSUME NEW t \in Tasks, FillBegin(t) PROVE SliceInv'
  <2>1. CASE t \in Fill
    BY <1>2, <2>1 DEF FillBegin, Begin, TypeOK, S!Start, S!At, SliceInv, SliceMatches, S!SliceTypeOK,
       S!Points, S!Kinds, S!Running, S!Alive
  <2>2. CASE t \notin Fill
    BY <1>2, <2>2 DEF FillBegin, Begin, TypeOK, fillVars, SliceInv, SliceMatches, S!SliceTypeOK,
       S!Running, S!Alive
  <2> QED
    BY <2>1, <2>2
<1>3. ASSUME NEW t \in Tasks, NEW out \in {"ok", "error"}, FillReturns(t, out) PROVE SliceInv'
  BY <1>3 DEF FillReturns, Returns, TypeOK, fillVars, SliceInv, SliceMatches, S!SliceTypeOK,
     S!Running, S!Alive
<1>4. ASSUME NEW t \in Tasks, FillWorkerDies(t) PROVE SliceInv'
  BY <1>4 DEF FillWorkerDies, WorkerDies, TypeOK, S!Die, SliceInv, SliceMatches, S!SliceTypeOK,
     S!Points, S!Running, S!Alive
<1>5. ASSUME NEW t \in Tasks, Elsewhere(t), UNCHANGED fillVars PROVE SliceInv'
  <2>1. \A s \in Fill : /\ worker[s] = "running" => worker'[s] = "running"
                        /\ outcome'[s] = "ok" => outcome[s] = "ok"
    BY <1>5 DEF Elsewhere, Staged, StageFails, StageRaises, Refused, UploadEnds, UploadRaises,
       PostFailure, PostResult, PostHeatSession, Enter, TypeOK, Inv, PoolMatches
  <2>2. UNCHANGED <<broken, stop>>
    BY <1>5 DEF Elsewhere, Staged, StageFails, StageRaises, Refused, UploadEnds, UploadRaises,
       PostFailure, PostResult, PostHeatSession
  <2> QED
    BY <1>5, <2>1, <2>2 DEF fillVars, SliceInv, SliceMatches, S!SliceTypeOK, S!Running, S!Alive
<1>6. CASE Shutdown /\ UNCHANGED fillVars
  <2>1. /\ \A s \in Fill : worker[s] = "running" => worker'[s] = "running"
        /\ UNCHANGED <<outcome, broken>>
        /\ stop = "down" => stop' = "down"
    BY <1>6 DEF Shutdown, StopSignal, LoopsEnd, Drained, DrainTimesOut, LoopRaises, CancelAll, TypeOK
  <2> QED
    BY <1>6, <2>1 DEF fillVars, SliceInv, SliceMatches, S!SliceTypeOK, S!Running, S!Alive
<1>7. CASE S!SliceNext /\ UNCHANGED vars
  <2>1. ASSUME NEW s \in Fill, S!SliceStep(s) PROVE SliceInv'
    BY <1>7, <2>1, HandlerStep
  <2>2. ASSUME NEW s \in Fill, S!Exits(s) PROVE SliceInv'
    BY <1>7, <2>2 DEF S!Exits, vars, SliceInv, SliceMatches, S!SliceTypeOK, S!Running, S!Alive
  <2>3. CASE S!GuestsCome \/ S!GuestsGo
    BY <1>7, <2>3 DEF S!GuestsCome, S!GuestsGo, vars, SliceInv, SliceMatches, S!SliceTypeOK, S!Running,
       S!Alive
  <2> QED
    BY <1>7, <2>1, <2>2, <2>3 DEF S!SliceNext
<1>8. CASE Reaped
  BY <1>8 DEF Reaped, S!Reap, vars, SliceInv, SliceMatches, S!SliceTypeOK, S!Points, S!Running, S!Alive
<1>9. CASE UNCHANGED allVars
  BY <1>9 DEF allVars, vars, fillVars, SliceInv, SliceMatches, S!SliceTypeOK, S!Running, S!Alive
<1> QED
  BY <1>1, <1>2, <1>3, <1>4, <1>5, <1>6, <1>7, <1>8, <1>9 DEF FillNext, FillTaskStep

(* No success is reported over a miner that still runs, and none runs      *)
(* without its handler unless a worker died, the agent is down, or a burn  *)
(* could not start (gpu_mining_fill.py lines 319-327).                     *)
THEOREM NoMinerAfterReportHolds == FillSpec => []NoMinerAfterReport
<1>1. TypeOK /\ Inv /\ SliceInv => NoMinerAfterReport
  BY WorkAssumption DEF NoMinerAfterReport, TypeOK, Inv, OutcomeMatches, SliceInv, SliceMatches,
     S!SliceTypeOK, S!Points, S!Running
<1>2. FillInit => SliceInv
  BY SliceInvInit
<1>3. TypeOK /\ Inv /\ SliceInv /\ [FillNext]_allVars => SliceInv'
  BY SliceInvStep
<1> QED
  BY <1>1, <1>2, <1>3, FillImplementsWork, TypeCorrect, InvHolds, PTL DEF FillSpec
=============================================================================
