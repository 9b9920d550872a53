--------------------------- MODULE WorkAssignments ----------------------------
(***************************************************************************)
(* The life of a dispatched task on the agent: _work_loop, _run_assignment *)
(* and _drain_in_flight (agent.py), the blob client and the process pool   *)
(* (executor.py).  Every task is a coroutine of its own; its handler runs  *)
(* in a pool of Concurrency worker processes that a cancelled coroutine    *)
(* does not stop.                                                          *)
(***************************************************************************)
EXTENDS Naturals, FiniteSets

CONSTANTS
  Tasks,
  Blobs,         \* container tasks with input blobs and output paths
  Fill,          \* fill-tier tasks, which also file a heat session
  Concurrency    \* worker processes

ASSUME WorkAssumption ==
  /\ Blobs \subseteq Tasks /\ Fill \subseteq Tasks /\ Blobs \cap Fill = {}
  /\ Concurrency \in Nat \ {0}

VARIABLES
  pc,            \* where the coroutine of each task is
  worker,        \* its item in the process pool
  outcome,       \* what executor.run returned
  dir,           \* its temporary directory exists
  result,        \* what the backend heard of it
  filed,         \* its heat session is in the ledger
  broken,        \* a worker died: the pool refuses every item
  stop,          \* how far the agent's shutdown has come
  unheard        \* history: tasks whose report was lost, or whose coroutine raised

vars == <<pc, worker, outcome, dir, result, filed, broken, stop, unheard>>

Pcs == {"backend", "staging", "failing", "pooled", "uploading", "posting",
        "filing", "done", "gone"}

TypeOK ==
  /\ pc \in [Tasks -> Pcs]
  /\ worker \in [Tasks -> {"none", "queued", "running", "ended", "cancelled"}]
  /\ outcome \in [Tasks -> {"none", "ok", "error", "died", "refused"}]
  /\ dir \in [Tasks -> BOOLEAN]
  /\ result \in [Tasks -> {"none", "success", "failure"}]
  /\ filed \in [Tasks -> BOOLEAN]
  /\ broken \in BOOLEAN
  /\ stop \in {"no", "stopping", "draining", "down"}
  /\ unheard \subseteq Tasks

Init ==
  /\ pc = [t \in Tasks |-> "backend"]
  /\ worker = [t \in Tasks |-> "none"]
  /\ outcome = [t \in Tasks |-> "none"]
  /\ dir = [t \in Tasks |-> FALSE]
  /\ result = [t \in Tasks |-> "none"]
  /\ filed = [t \in Tasks |-> FALSE]
  /\ broken = FALSE
  /\ stop = "no"
  /\ unheard = {}

Up == stop # "down"
InFlight(t) == pc[t] \notin {"backend", "done", "gone"}
Running == {t \in Tasks : worker[t] = "running"}

(* Where a task that does not wait for blobs goes from staging. *)
Enter(t) == [worker EXCEPT ![t] = "queued"]

-----------------------------------------------------------------------------
(* _work_loop hands every assignment of the answer to a coroutine.         *)
Poll(new) ==
  /\ stop \in {"no", "stopping"}
  /\ new # {} /\ \A t \in new : pc[t] = "backend"
  /\ pc' = [t \in Tasks |-> IF t \in new THEN IF t \in Blobs THEN "staging" ELSE "pooled"
                            ELSE pc[t]]
  /\ worker' = [t \in Tasks |-> IF t \in new \ Blobs THEN "queued" ELSE worker[t]]
  /\ dir' = [t \in Tasks |-> dir[t] \/ t \in new \cap Blobs]
  /\ UNCHANGED <<outcome, result, filed, broken, stop, unheard>>

(* Mutation: the directory is removed when staging is over. *)
StagedCleans(t) ==
  /\ Up /\ pc[t] = "staging"
  /\ pc' = [pc EXCEPT ![t] = "pooled"]
  /\ worker' = Enter(t)
  /\ dir' = [dir EXCEPT ![t] = FALSE]
  /\ UNCHANGED <<outcome, result, filed, broken, stop, unheard>>

Staged(t) ==
  /\ Up /\ pc[t] = "staging"
  /\ pc' = [pc EXCEPT ![t] = "pooled"]
  /\ worker' = Enter(t)
  /\ UNCHANGED <<outcome, dir, result, filed, broken, stop, unheard>>

StageFails(t) ==
  /\ Up /\ pc[t] = "staging"
  /\ pc' = [pc EXCEPT ![t] = "failing"]
  /\ outcome' = [outcome EXCEPT ![t] = "error"]
  /\ UNCHANGED <<worker, dir, result, filed, broken, stop, unheard>>

(* The coroutine ends before it reaches the try of the cleanup. *)
StageRaises(t) ==
  /\ Up /\ pc[t] = "staging"
  /\ pc' = [pc EXCEPT ![t] = "gone"]
  /\ unheard' = unheard \cup {t}
  /\ UNCHANGED <<worker, outcome, dir, result, filed, broken, stop>>

-----------------------------------------------------------------------------
(* The pool, and the finally that removes the directory.                   *)

Begin(t) ==
  /\ Up /\ ~broken
  /\ worker[t] = "queued" /\ Cardinality(Running) < Concurrency
  /\ worker' = [worker EXCEPT ![t] = "running"]
  /\ UNCHANGED <<pc, outcome, dir, result, filed, broken, stop, unheard>>

(* executor.run returns: outputs are uploaded if there are some to upload, *)
(* otherwise the directory goes and the outcome is posted.                 *)
Returned(t, out) ==
  IF out = "ok" /\ t \in Blobs THEN "uploading" ELSE "posting"

Returns(t, out) ==
  /\ Up /\ ~broken
  /\ worker[t] = "running" /\ pc[t] = "pooled"
  /\ worker' = [worker EXCEPT ![t] = "ended"]
  /\ outcome' = [outcome EXCEPT ![t] = out]
  /\ pc' = [pc EXCEPT ![t] = Returned(t, out)]
  /\ dir' = [dir EXCEPT ![t] = dir[t] /\ Returned(t, out) = "uploading"]
  /\ UNCHANGED <<result, filed, broken, stop, unheard>>

(* BrokenProcessPool: everything in the pool fails with the worker. *)
WorkerDies(t) ==
  /\ Up /\ ~broken
  /\ worker[t] = "running"
  /\ broken' = TRUE
  /\ LET lost == {u \in Tasks : worker[u] \in {"queued", "running"}}
     IN  /\ worker' = [u \in Tasks |-> IF u \in lost THEN "ended" ELSE worker[u]]
         /\ outcome' = [u \in Tasks |-> IF u = t THEN "died"
                                        ELSE IF u \in lost THEN "refused" ELSE outcome[u]]
         /\ pc' = [u \in Tasks |-> IF u \in lost THEN "posting" ELSE pc[u]]
         /\ dir' = [u \in Tasks |-> dir[u] /\ u \notin lost]
  /\ UNCHANGED <<result, filed, stop, unheard>>

(* ... and every later item is refused: the pool is not built again. *)
Refused(t) ==
  /\ Up /\ broken
  /\ worker[t] = "queued"
  /\ worker' = [worker EXCEPT ![t] = "ended"]
  /\ outcome' = [outcome EXCEPT ![t] = "refused"]
  /\ pc' = [pc EXCEPT ![t] = "posting"]
  /\ dir' = [dir EXCEPT ![t] = FALSE]
  /\ UNCHANGED <<result, filed, broken, stop, unheard>>

-----------------------------------------------------------------------------
(* After the handler.  Files that do not upload are skipped.               *)

UploadEnds(t) ==
  /\ Up /\ pc[t] = "uploading"
  /\ pc' = [pc EXCEPT ![t] = "posting"]
  /\ dir' = [dir EXCEPT ![t] = FALSE]
  /\ UNCHANGED <<worker, outcome, result, filed, broken, stop, unheard>>

(* An answer without an id is a KeyError, which nobody catches. *)
UploadRaises(t) ==
  /\ Up /\ pc[t] = "uploading"
  /\ pc' = [pc EXCEPT ![t] = "gone"]
  /\ dir' = [dir EXCEPT ![t] = FALSE]
  /\ unheard' = unheard \cup {t}
  /\ UNCHANGED <<worker, outcome, result, filed, broken, stop>>

(* Mutation: whatever has an outcome has succeeded. *)
ResultOfAny(t) == IF outcome[t] = "none" THEN "failure" ELSE "success"

ResultOf(t) == IF outcome[t] = "ok" THEN "success" ELSE "failure"

(* A POST that fails is logged, never repeated. *)
Post(t) ==
  \/ result' = [result EXCEPT ![t] = ResultOf(t)] /\ UNCHANGED unheard
  \/ unheard' = unheard \cup {t} /\ UNCHANGED result

(* Mutation: a task without its inputs is not reported. *)
PostFailureSilently(t) ==
  /\ Up /\ pc[t] = "failing"
  /\ pc' = [pc EXCEPT ![t] = "done"]
  /\ dir' = [dir EXCEPT ![t] = FALSE]
  /\ UNCHANGED <<worker, outcome, result, filed, broken, stop, unheard>>

PostFailure(t) ==
  /\ Up /\ pc[t] = "failing"
  /\ pc' = [pc EXCEPT ![t] = "done"]
  /\ Post(t)
  /\ dir' = [dir EXCEPT ![t] = FALSE]
  /\ UNCHANGED <<worker, outcome, filed, broken, stop>>

PostResult(t) ==
  /\ Up /\ pc[t] = "posting"
  /\ pc' = [pc EXCEPT ![t] = IF t \in Fill /\ outcome[t] = "ok" THEN "filing" ELSE "done"]
  /\ Post(t)
  /\ UNCHANGED <<worker, outcome, dir, filed, broken, stop>>

PostHeatSession(t) ==
  /\ Up /\ pc[t] = "filing"
  /\ pc' = [pc EXCEPT ![t] = "done"]
  /\ filed' \in {filed, [filed EXCEPT ![t] = TRUE]}
  /\ UNCHANGED <<worker, outcome, dir, result, broken, stop, unheard>>

-----------------------------------------------------------------------------
(* The agent stops: the loops end, the tasks get a grace period, what is   *)
(* left is cancelled.                                                      *)

StopSignal ==
  /\ stop = "no"
  /\ stop' = "stopping"
  /\ UNCHANGED <<pc, worker, outcome, dir, result, filed, broken, unheard>>

LoopsEnd ==
  /\ stop = "stopping"
  /\ stop' = "draining"
  /\ UNCHANGED <<pc, worker, outcome, dir, result, filed, broken, unheard>>

Drained ==
  /\ stop = "draining"
  /\ \A t \in Tasks : ~InFlight(t)
  /\ stop' = "down"
  /\ UNCHANGED <<pc, worker, outcome, dir, result, filed, broken, unheard>>

(* A cancelled coroutine cleans up if it had reached its try block; the    *)
(* pool drops what it had not begun, and goes on with the rest.            *)
CancelAll ==
  /\ stop' = "down"
  /\ pc' = [t \in Tasks |-> IF InFlight(t) THEN "gone" ELSE pc[t]]
  /\ dir' = [t \in Tasks |-> dir[t] /\ pc[t] \notin {"pooled", "uploading"}]
  /\ worker' = [t \in Tasks |-> IF worker[t] = "queued" THEN "cancelled" ELSE worker[t]]
  /\ UNCHANGED <<outcome, result, filed, broken, unheard>>

DrainTimesOut ==
  /\ stop = "draining"
  /\ \E t \in Tasks : InFlight(t)
  /\ CancelAll

(* gather() passes the exception of one loop on: there is no drain. *)
LoopRaises ==
  /\ stop \in {"no", "stopping"}
  /\ CancelAll

-----------------------------------------------------------------------------
TaskStep(t) ==
  \/ Staged(t) \/ StageFails(t) \/ StageRaises(t)
  \/ Begin(t) \/ WorkerDies(t) \/ Refused(t)
  \/ \E out \in {"ok", "error"} : Returns(t, out)
  \/ UploadEnds(t) \/ UploadRaises(t)
  \/ PostFailure(t) \/ PostResult(t) \/ PostHeatSession(t)

Shutdown == StopSignal \/ LoopsEnd \/ Drained \/ DrainTimesOut \/ LoopRaises

Next ==
  \/ \E new \in SUBSET Tasks : Poll(new)
  \/ \E t \in Tasks : TaskStep(t)
  \/ Shutdown

Spec == Init /\ [][Next]_vars

(* Handlers, transfers and requests have timeouts; the pool is first come  *)
(* first served.                                                           *)
Fairness == /\ \A t \in Tasks : SF_vars(TaskStep(t))
            /\ WF_vars(LoopsEnd) /\ WF_vars(Drained \/ DrainTimesOut)
FairSpec == Spec /\ Fairness

-----------------------------------------------------------------------------
(* The agent keeps its contract with the backend about every task: the     *)
(* report is the task's fate, made once and never before it, and a heat    *)
(* session is filed once, for a success (lines 1072-1132).                 *)
Fate == [t \in Tasks |-> IF outcome[t] = "ok" THEN "ok"
                         ELSE IF outcome[t] # "none" THEN "failed"
                         ELSE IF pc[t] = "backend" THEN "waiting" ELSE "running"]

Contract == INSTANCE TaskContract WITH fate <- Fate, told <- result
ContractSpec == Contract!Spec

(* While a handler may read or write its directory, and the agent is up,   *)
(* the directory is there (agent.py lines 1042-1047).                      *)
DirOutlivesHandler ==
  Up => \A t \in Blobs : worker[t] \in {"queued", "running"} => dir[t]

(* What the backend hears is what happened, and only a success it may have *)
(* heard of is filed as a heat session (lines 1072-1132).                  *)
ResultsAreEarned ==
  \A t \in Tasks :
    /\ result[t] = "success" => outcome[t] = "ok" /\ worker[t] = "ended"
    /\ result[t] = "failure" => outcome[t] \in {"error", "died", "refused"}
    /\ filed[t] => outcome[t] = "ok" /\ pc[t] = "done"

(* A task whose coroutine came to its end has left nothing behind, in the  *)
(* pool or on the disk (lines 963, 1068-1070).                             *)
DoneIsClean ==
  \A t \in Tasks : pc[t] = "done" => ~dir[t] /\ worker[t] \notin {"queued", "running"}

(* The backend hears how each task ended, also one whose worker died or    *)
(* whose inputs did not come, unless the POST fails, a blob transfer raises *)
(* what nobody catches, or the agent goes down (lines 1000-1010, 1072-1096). *)
TasksAreReported ==
  \A t \in Tasks : pc[t] # "backend" ~> result[t] # "none" \/ t \in unheard \/ ~Up
=============================================================================
