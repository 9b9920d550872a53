----------------------------- MODULE TaskContract -----------------------------
(***************************************************************************)
(* What the agent promises the backend about one dispatched task, without  *)
(* its coroutine, its process, its directory and the agent's shutdown: a   *)
(* task has one fate; what is told of it is its fate, told once and after  *)
(* it; and a fill task's heat session is filed once, for a success.        *)
(***************************************************************************)
CONSTANTS Tasks, Fill

VARIABLES fate,    \* what became of each task
          told,    \* what the backend heard
          filed    \* its heat session is in the ledger

vars == <<fate, told, filed>>

Init ==
  /\ fate = [t \in Tasks |-> "waiting"]
  /\ told = [t \in Tasks |-> "none"]
  /\ filed = [t \in Tasks |-> FALSE]

(* One answer hands over several tasks. *)
Hand(new) ==
  /\ \A t \in new : fate[t] = "waiting"
  /\ fate' = [t \in Tasks |-> IF t \in new THEN "running" ELSE fate[t]]
  /\ UNCHANGED <<told, filed>>

Succeed(t) ==
  /\ fate[t] = "running"
  /\ fate' = [fate EXCEPT ![t] = "ok"]
  /\ UNCHANGED <<told, filed>>

(* One death of a worker fails several. *)
Fail(lost) ==
  /\ \A t \in lost : fate[t] = "running"
  /\ fate' = [t \in Tasks |-> IF t \in lost THEN "failed" ELSE fate[t]]
  /\ UNCHANGED <<told, filed>>

Tell(t) ==
  /\ told[t] = "none" /\ ~filed[t]
  /\ \/ fate[t] = "ok" /\ told' = [told EXCEPT ![t] = "success"]
     \/ fate[t] = "failed" /\ told' = [told EXCEPT ![t] = "failure"]
  /\ UNCHANGED <<fate, filed>>

File(t) ==
  /\ t \in Fill /\ fate[t] = "ok" /\ ~filed[t]
  /\ filed' = [filed EXCEPT ![t] = TRUE]
  /\ UNCHANGED <<fate, told>>

Next ==
  \/ \E some \in SUBSET Tasks : Hand(some) \/ Fail(some)
  \/ \E t \in Tasks : Succeed(t) \/ Tell(t) \/ File(t)

Spec == Init /\ [][Next]_vars
=============================================================================
