------------------------- MODULE ContainerRuns_proofs --------------------------
(***************************************************************************)
(* Theorems about ContainerRuns, for any number of tasks, images and       *)
(* restarts: what a handler leaves behind, what it reports, and that the   *)
(* prunes of overlapping threads keep the disk budget.                     *)
(***************************************************************************)
EXTENDS ContainerRuns, FiniteSetTheorems, TLAPS

(* Every variable keeps its type, and a task has an outcome just when its  *)
(* handler is past its work (container.py 330-460).                        *)
THEOREM TypeCorrect == Spec => []TypeOK
<1>1. Init => TypeOK
  <2> SUFFICES ASSUME Init PROVE TypeOK
    OBVIOUS
  <2> USE CacheAssumption DEF Init
  <2>1. /\ cached \subseteq Images /\ todo \subseteq Prepull
        /\ leaky \subseteq Tasks /\ hurt \subseteq Tasks /\ robbed \subseteq Tasks
    OBVIOUS
  <2>2. dangling \in 0..MaxDangling /\ restarts \in 0..MaxRestarts
    OBVIOUS
  <2>3. network \in BOOLEAN /\ broken \in BOOLEAN /\ excused \in BOOLEAN
    OBVIOUS
  <2> QED
    BY <2>1, <2>2, <2>3 DEF TypeOK
<1>2. TypeOK /\ [Next]_vars => TypeOK'
  <2> SUFFICES ASSUME TypeOK, [Next]_vars PROVE TypeOK'
    OBVIOUS
  <2> USE CacheAssumption DEF TypeOK, Handling, disk, handlers, pruning, agent,
                             Elsewhere, ThreadsOnly,
          Goto, Proceeds, Becomes, Raise, Fault, GcGoto
  <2>1. ASSUME NEW t \in Tasks, Handler(t) PROVE TypeOK'
    <3>1. CASE Begin(t)
      BY <3>1 DEF Begin
    <3>2. CASE Check(t)
      BY <3>2 DEF Check
    <3>3. CASE EnsureNetwork(t)
      BY <3>3 DEF EnsureNetwork
    <3>4. CASE Create(t)
      BY <3>4 DEF Create
    <3>5. CASE Pull(t)
      BY <3>5 DEF Pull
    <3>6. CASE StartContainer(t)
      BY <3>6 DEF StartContainer
    <3>7. CASE WaitReturns(t)
      BY <3>7 DEF WaitReturns
    <3>8. CASE WaitFails(t)
      BY <3>8 DEF WaitFails
    <3>9. CASE Kill(t)
      BY <3>9 DEF Kill
    <3>10. CASE Remove(t)
      BY <3>10 DEF Remove
    <3>11. CASE CreateUnanswered(t)
      BY <3>11 DEF CreateUnanswered
    <3> QED
      BY <2>1, <3>1, <3>2, <3>3, <3>4, <3>5, <3>6, <3>7, <3>8, <3>9, <3>10, <3>11 DEF Handler
  <2>2. ASSUME NEW t \in Tasks, Exit(t) PROVE TypeOK'
    BY <2>2 DEF Exit
  <2>3. ASSUME NEW t \in Tasks, Gc(t) PROVE TypeOK'
    <3>1. CASE StartGc(t)
      BY <3>1 DEF StartGc
    <3>2. CASE Measure(t)
      BY <3>2 DEF Measure
    <3>3. CASE PruneDangling(t)
      BY <3>3 DEF PruneDangling
    <3>4. CASE PruneUnused(t)
      BY <3>4 DEF PruneUnused
    <3>5. CASE GcFails(t)
      BY <3>5 DEF GcFails
    <3> QED
      BY <2>3, <3>1, <3>2, <3>3, <3>4, <3>5 DEF Gc
  <2>4. ASSUME NEW i \in Prepull, PrepullImage(i) PROVE TypeOK'
    <3>1. dangling' \in 0..MaxDangling
      BY <2>4 DEF PrepullImage
    <3>2. cached' \subseteq Images /\ todo' \subseteq Prepull
      BY <2>4 DEF PrepullImage
    <3>3. excused' \in BOOLEAN
      BY <2>4 DEF PrepullImage
    <3>4. UNCHANGED <<network, container, pc, result, hurt, leaky, robbed, image, broken, restarts, gc>>
      BY <2>4 DEF PrepullImage
    <3> QED
      BY <3>1, <3>2, <3>3, <3>4
  <2>5. CASE WorkerDies
    BY <2>5 DEF WorkerDies, Die, Dying
  <2>6. CASE Restart
    <3>1. restarts' \in 0..MaxRestarts /\ todo' \subseteq Prepull
      BY <2>6 DEF Restart
    <3>2. broken' \in BOOLEAN /\ excused' \in BOOLEAN
      BY <2>6 DEF Restart
    <3>3. /\ pc' \in [Tasks -> Handling \cup {"idle", "check", "ended", "over"}]
          /\ result' \in [Tasks -> {"none", "done", "failed"}]
          /\ \A t \in Tasks : result'[t] # "none" <=> pc'[t] \in {"remove", "ended", "over"}
          /\ leaky' \subseteq Tasks /\ hurt' \subseteq Tasks
      BY <2>6 DEF Restart, Die, Dying
    <3>4. gc' = [t \in Tasks |-> "none"] /\ UNCHANGED <<disk, network, container, image, robbed>>
      BY <2>6 DEF Restart
    <3> QED
      BY <3>1, <3>2, <3>3, <3>4
  <2>7. CASE UNCHANGED vars
    BY <2>7 DEF vars
  <2> QED
    BY <2>1, <2>2, <2>3, <2>4, <2>5, <2>6, <2>7 DEF Next
<1> QED
  BY <1>1, <1>2, PTL DEF Spec

-----------------------------------------------------------------------------
(* A container belongs to a handler that starts, awaits, kills or removes  *)
(* it, or it has been counted among those left behind.                     *)
HeldInv ==
  /\ \A t \in Tasks \ leaky : container[t] # "none" => pc[t] \in {"start", "wait", "kill", "remove"}
  /\ \A t \in Tasks : pc[t] \in {"start", "wait", "kill"} => container[t] # "none"

(* An outcome other than done comes of a failure that was met, or of the    *)
(* one prune that interferes; a pulled image is otherwise there.           *)
OutcomeInv ==
  \A t \in Tasks \ (hurt \cup robbed) :
    /\ pc[t] # "kill"
    /\ pc[t] = "recreate" => image[t] \in cached
    /\ pc[t] \in {"remove", "ended", "over"} => result[t] = "done"

LEMMA HandlersStep ==
  TypeOK /\ HeldInv /\ OutcomeInv /\ [Next]_vars => HeldInv' /\ OutcomeInv'
<1> SUFFICES ASSUME TypeOK, HeldInv, OutcomeInv, [Next]_vars PROVE HeldInv' /\ OutcomeInv'
  OBVIOUS
<1> USE DEF TypeOK, Handling, HeldInv, OutcomeInv, disk, handlers, pruning, agent,
        Elsewhere, ThreadsOnly,
        Goto, Proceeds, Becomes, Raise, Fault
<1>1. ASSUME NEW t \in Tasks, Handler(t) PROVE HeldInv' /\ OutcomeInv'
  <2>1. CASE Begin(t)
    BY <2>1 DEF Begin
  <2>2. CASE Check(t)
    BY <2>2 DEF Check
  <2>3. CASE EnsureNetwork(t)
    BY <2>3 DEF EnsureNetwork
  <2>4. CASE Create(t)
    BY <2>4 DEF Create
  <2>5. CASE Pull(t)
    BY <2>5 DEF Pull
  <2>6. CASE StartContainer(t)
    BY <2>6 DEF StartContainer
  <2>7. CASE WaitReturns(t)
    BY <2>7 DEF WaitReturns
  <2>8. CASE WaitFails(t)
    BY <2>8 DEF WaitFails
  <2>9. CASE Kill(t)
    BY <2>9 DEF Kill
  <2>10. CASE Remove(t)
    BY <2>10 DEF Remove
  <2>11. CASE CreateUnanswered(t)
    BY <2>11 DEF CreateUnanswered
  <2> QED
    BY <1>1, <2>1, <2>2, <2>3, <2>4, <2>5, <2>6, <2>7, <2>8, <2>9, <2>10, <2>11 DEF Handler
<1>2. ASSUME NEW t \in Tasks, Exit(t) PROVE HeldInv' /\ OutcomeInv'
  BY <1>2 DEF Exit
<1>3. ASSUME NEW t \in Tasks, Gc(t) PROVE HeldInv' /\ OutcomeInv'
  <2>1. CASE StartGc(t)
    BY <1>3, <2>1 DEF StartGc
  <2>2. CASE PruneUnused(t)
    BY <2>2 DEF PruneUnused
  <2>3. CASE Measure(t) \/ PruneDangling(t) \/ GcFails(t)
    BY <2>3 DEF Measure, PruneDangling, GcFails
  <2> QED
    BY <1>3, <2>1, <2>2, <2>3 DEF Gc
<1>4. ASSUME NEW i \in Prepull, PrepullImage(i) PROVE HeldInv' /\ OutcomeInv'
  BY <1>4 DEF PrepullImage
<1>5. CASE WorkerDies
  BY <1>5 DEF WorkerDies, Die, Dying
<1>6. CASE Restart
  BY <1>6 DEF Restart, Die, Dying
<1>7. CASE UNCHANGED vars
  BY <1>7 DEF vars
<1> QED
  BY <1>1, <1>2, <1>3, <1>4, <1>5, <1>6, <1>7 DEF Next

LEMMA HandlersInvariance == Spec => [](HeldInv /\ OutcomeInv)
<1>1. Init => HeldInv /\ OutcomeInv
  BY DEF Init, HeldInv, OutcomeInv
<1> QED
  BY <1>1, TypeCorrect, HandlersStep, PTL DEF Spec

(* However workers, prunes and restarts overlap, a handler that has        *)
(* returned leaves a container behind only where its creation was not      *)
(* answered, its start or removal failed, or its worker died               *)
(* (container.py 372-460).                                                 *)
THEOREM NothingIsLeftHolds == Spec => []NothingIsLeft
<1>1. HeldInv => NothingIsLeft
  BY DEF HeldInv, NothingIsLeft
<1> QED
  BY <1>1, HandlersInvariance, PTL

(* A task reports a failure only if the daemon failed it, a worker died    *)
(* beside it, or a prune took its image between pull and creation: never   *)
(* because another worker was faster to create the network, nor for any    *)
(* other overlap (container.py 118-148, 366-391, image_cache.py 181).      *)
THEOREM CleanRunsAreDoneHolds == Spec => []CleanRunsAreDone
<1>1. OutcomeInv => CleanRunsAreDone
  BY DEF OutcomeInv, CleanRunsAreDone
<1> QED
  BY <1>1, HandlersInvariance, PTL

-----------------------------------------------------------------------------
(* There is room, or all that is left is in use.                           *)
WithinBudget == Usage <= Budget \/ (dangling = 0 /\ cached \subseteq InUse)

(* The task will have the disk measured, or its thread is about to act on  *)
(* a measurement and what it does about dangling layers is not undone.     *)
WillPrune(t) ==
  \/ pc[t] \notin {"idle", "over"}
  \/ gc[t] \in {"measure", "dangling"}
  \/ gc[t] \in {"again", "unused"} /\ dangling = 0

(* The inductive form of BudgetIsKept: someone is responsible for every    *)
(* overrun since the last measurement.                                     *)
BudgetInv == ~excused => WithinBudget \/ \E t \in Tasks : WillPrune(t)

LEMMA LessIsWithin ==
  ASSUME TypeOK, TypeOK', WithinBudget, cached' \subseteq cached, dangling' <= dangling,
         InUse' = InUse
  PROVE  WithinBudget'
<1>1. IsFiniteSet(cached)
  BY CacheAssumption, FS_Subset DEF TypeOK
<1>2. /\ Cardinality(cached') <= Cardinality(cached)
      /\ Cardinality(cached) \in Nat /\ Cardinality(cached') \in Nat
  BY <1>1, FS_Subset, FS_CardinalityType
<1> QED
  BY <1>2, CacheAssumption DEF WithinBudget, Usage, TypeOK

LEMMA BudgetStep == TypeOK /\ TypeOK' /\ BudgetInv /\ [Next]_vars => BudgetInv'
<1> SUFFICES ASSUME TypeOK, TypeOK', BudgetInv, [Next]_vars, ~excused' PROVE BudgetInv'
  BY DEF BudgetInv
<1> USE CacheAssumption
<1>1. ASSUME NEW t \in Tasks, Handler(t) PROVE BudgetInv'
  <2>1. pc'[t] \notin {"idle", "over"}
    BY <1>1 DEF TypeOK, Handling, Handler, Begin, Check, EnsureNetwork, Create,
                CreateUnanswered, Pull,
                StartContainer, WaitReturns,
         WaitFails, Kill, Remove, Goto, Proceeds, Raise, Fault
  <2> QED
    BY <2>1 DEF BudgetInv, WillPrune
<1>2. ASSUME NEW t \in Tasks, Exit(t) PROVE BudgetInv'
  <2>1. UNCHANGED <<cached, dangling, excused, pc, gc>>
    BY <1>2 DEF Exit, disk, Elsewhere, pruning
  <2>2. \A u \in Tasks : container'[u] # "none" <=> container[u] # "none"
    BY <1>2 DEF Exit, Becomes, TypeOK
  <2>3. InUse' = InUse
    BY <1>2, <2>2 DEF Exit, InUse, Elsewhere, agent
  <2> QED
    BY <2>1, <2>3 DEF BudgetInv, WithinBudget, Usage, WillPrune
<1>3. ASSUME NEW t \in Tasks, StartGc(t) PROVE BudgetInv'
  <2>1. gc'[t] = "measure"
    BY <1>3 DEF StartGc, GcGoto, TypeOK
  <2> QED
    BY <2>1 DEF BudgetInv, WillPrune
<1>4. ASSUME NEW t \in Tasks, Measure(t) PROVE BudgetInv'
  <2>1. UNCHANGED <<cached, dangling, pc, container, image>>
    BY <1>4 DEF Measure, disk, ThreadsOnly, handlers, agent
  <2>2. CASE Usage <= Budget
    BY <2>1, <2>2 DEF BudgetInv, WithinBudget, Usage
  <2>3. CASE ~(Usage <= Budget) /\ gc[t] = "measure"
    <3>1. Usage > Budget
      <4>1. Cardinality(cached) \in Nat
        BY FS_Subset, FS_CardinalityType DEF TypeOK
      <4> QED
        BY <2>3, <4>1 DEF Usage, TypeOK
    <3>2. gc'[t] = "dangling"
      BY <1>4, <2>3, <3>1 DEF Measure, GcGoto, TypeOK
    <3> QED
      BY <3>2 DEF BudgetInv, WillPrune
  <2>4. CASE ~(Usage <= Budget) /\ gc[t] = "again"
    <3>1. ~excused
      BY <1>4, <2>4 DEF Measure, TypeOK
    <3>2. gc' = [gc EXCEPT ![t] = "unused"]
      BY <1>4, <2>4 DEF Measure, GcGoto
    <3>3. CASE WithinBudget
      BY <2>1, <3>3 DEF BudgetInv, WithinBudget, Usage, InUse
    <3>4. CASE \E u \in Tasks : WillPrune(u)
      BY <2>1, <2>4, <3>2, <3>4 DEF BudgetInv, WillPrune, TypeOK
    <3> QED
      BY <3>1, <3>3, <3>4 DEF BudgetInv
  <2> QED
    BY <1>4, <2>2, <2>3, <2>4 DEF Measure
<1>5. ASSUME NEW t \in Tasks, PruneDangling(t) PROVE BudgetInv'
  <2>1. gc'[t] = "again" /\ dangling' = 0
    BY <1>5 DEF PruneDangling, GcGoto, TypeOK
  <2> QED
    BY <2>1 DEF BudgetInv, WillPrune
<1>6. ASSUME NEW t \in Tasks, PruneUnused(t) PROVE BudgetInv'
  <2>1. /\ cached' = cached \cap InUse
        /\ gc' = [gc EXCEPT ![t] = "none"]
        /\ UNCHANGED <<dangling, pc, container, image, excused>>
    BY <1>6 DEF PruneUnused, GcGoto, ThreadsOnly, handlers, agent
  <2>2. InUse' = InUse
    BY <2>1 DEF InUse
  <2>3. CASE dangling = 0
    BY <2>1, <2>2, <2>3 DEF BudgetInv, WithinBudget
  <2>4. CASE WithinBudget
    <3>1. WithinBudget'
      BY <2>1, <2>2, <2>4, LessIsWithin DEF TypeOK
    <3> QED
      BY <3>1 DEF BudgetInv
  <2>5. CASE dangling # 0 /\ \E u \in Tasks : WillPrune(u)
    BY <1>6, <2>1, <2>5 DEF BudgetInv, WillPrune, TypeOK, PruneUnused
  <2> QED
    BY <2>1, <2>3, <2>4, <2>5 DEF BudgetInv
<1>7. ASSUME NEW t \in Tasks, GcFails(t) PROVE BudgetInv'
  BY <1>7 DEF GcFails, BudgetInv
<1>8. ASSUME NEW i \in Prepull, PrepullImage(i) PROVE BudgetInv'
  BY <1>8 DEF PrepullImage, BudgetInv
<1>9. CASE WorkerDies
  <2>1. PICK t \in Tasks : t \in Dying
    BY <1>9 DEF WorkerDies, Dying
  <2>2. pc'[t] = "ended"
    BY <1>9, <2>1 DEF WorkerDies, Die
  <2> QED
    BY <2>2 DEF BudgetInv, WillPrune
<1>10. CASE Restart
  BY <1>10 DEF Restart, BudgetInv
<1>11. CASE UNCHANGED vars
  BY <1>11 DEF vars, BudgetInv, WithinBudget, Usage, InUse, WillPrune
<1> QED
  BY <1>1, <1>2, <1>3, <1>4, <1>5, <1>6, <1>7, <1>8, <1>9, <1>10, <1>11 DEF Next, Gc

(* Whatever prunes, pulls and removals of any number of tasks overlap,     *)
(* when all have cleaned up the disk is within its budget, or holds only   *)
(* what containers use (image_cache.py 117-188, agent.py 1133-1136).       *)
THEOREM BudgetIsKeptHolds == Spec => []BudgetIsKept
<1>1. Init => BudgetInv
  BY DEF Init, BudgetInv
<1>2. BudgetInv => BudgetIsKept
  BY DEF BudgetInv, WithinBudget, WillPrune, BudgetIsKept, Quiet
<1> QED
  BY <1>1, <1>2, TypeCorrect, BudgetStep, PTL DEF Spec
=============================================================================
