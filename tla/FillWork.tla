------------------------------- MODULE FillWork -------------------------------
(***************************************************************************)
(* Dispatched tasks (WorkAssignments) whose fill handlers (FillSlices) run *)
(* in the process pool: agent.py, executor.py and the handlers together.   *)
(* A handler begins with its pool item and what it returns or raises is    *)
(* the item's outcome; a slice whose coroutine was cancelled goes on.      *)
(***************************************************************************)
EXTENDS WorkAssignments

VARIABLES slice, kind, proc, guests

S == INSTANCE FillSlices WITH Slices <- Fill

fillVars == <<slice, kind, proc, guests>>
allVars == <<vars, fillVars>>

FillInit == Init /\ S!SliceInit

FillBegin(t) ==
  /\ Begin(t)
  /\ IF t \in Fill THEN S!Start(t) ELSE UNCHANGED fillVars

FillReturns(t, out) ==
  /\ Returns(t, out)
  /\ t \in Fill => slice[t] = IF out = "ok" THEN "over" ELSE "raised"
  /\ UNCHANGED fillVars

(* The pool terminates its other workers as well. *)
FillWorkerDies(t) ==
  /\ WorkerDies(t)
  /\ S!Die({s \in Fill : worker[s] = "running"})

Elsewhere(t) ==
  \/ Staged(t) \/ StageFails(t) \/ StageRaises(t) \/ Refused(t)
  \/ UploadEnds(t) \/ UploadRaises(t)
  \/ PostFailure(t) \/ PostResult(t) \/ PostHeatSession(t)

FillTaskStep(t) ==
  \/ FillBegin(t) \/ FillWorkerDies(t)
  \/ \E out \in {"ok", "error"} : FillReturns(t, out)
  \/ Elsewhere(t) /\ UNCHANGED fillVars

(* What still runs when the agent is down ends at its own deadline, or     *)
(* when systemd ends it.                                                   *)
Reaped == stop = "down" /\ S!Reap /\ UNCHANGED vars

FillNext ==
  \/ (\E new \in SUBSET Tasks : Poll(new)) /\ UNCHANGED fillVars
  \/ \E t \in Tasks : FillTaskStep(t)
  \/ Shutdown /\ UNCHANGED fillVars
  \/ S!SliceNext /\ UNCHANGED vars
  \/ Reaped

FillSpec == FillInit /\ [][FillNext]_allVars

(* A handler goes on, and nvidia-smi does not fail for ever.  That the     *)
(* deadline of a slice comes is not part of it: a guest is not to wait for *)
(* the deadline.                                                           *)
FillFairness ==
  /\ \A t \in Tasks : SF_allVars(FillTaskStep(t))
  /\ \A s \in Fill : /\ WF_allVars(S!SliceStep(s) /\ UNCHANGED vars)
                     /\ SF_allVars(S!Look(s) /\ UNCHANGED vars)
  /\ WF_allVars(LoopsEnd /\ UNCHANGED fillVars)
  /\ WF_allVars((Drained \/ DrainTimesOut) /\ UNCHANGED fillVars)
FairFillSpec == FillSpec /\ FillFairness

-----------------------------------------------------------------------------
(* A slice that came to its end has left no process behind, and the        *)
(* backend hears of success only then (gpu_mining_fill.py lines 324-330).  *)
(* Processes go on without a handler only when their worker died or a burn *)
(* could not start all of its own.                                         *)
NoMinerAfterReport ==
  \A s \in Fill :
    /\ slice[s] = "over" \/ result[s] = "success" => ~S!Alive(s)
    /\ S!Alive(s) => \/ S!Running(s) /\ worker[s] = "running"
                     \/ slice[s] = "dead" /\ (broken \/ stop = "down")
                     \/ slice[s] = "raised" /\ kind[s] = "burn"

(* What WorkAssignments promises about reports, with the real handlers:    *)
(* their rounds end because their deadlines come.                          *)
DeadlinesCome ==
  \A s \in Fill : []<>(slice[s] \notin {"sleeping", "taken", "clear", "checking"})
SlicesAreReported == DeadlinesCome => TasksAreReported

(* A miner gives the GPU to whoever else computes on it, unless the worker *)
(* that watches it died (gpu_mining_fill.py lines 293-314).                *)
GuestIsYieldedTo ==
  \A s \in Fill :
    guests /\ kind[s] = "gpu" /\ proc[s] = "mining"
      ~> ~guests \/ proc[s] # "mining" \/ slice[s] = "dead"
=============================================================================
