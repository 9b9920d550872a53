---------------------------- MODULE ContainerRuns -----------------------------
(***************************************************************************)
(* Container tasks on one Docker daemon (hadcd_workloads/container.py and  *)
(* agent/image_cache.py).  Worker processes each run one container and     *)
(* remove it; after every task the agent starts a thread that prunes       *)
(* images if they exceed the disk budget; one more thread pulls the        *)
(* configured images after a start.  None of them knows of the others.     *)
(***************************************************************************)
EXTENDS Naturals, FiniteSets

CONSTANTS
  Tasks,
  Images,        \* each takes one unit of the disk
  Prepull,       \* DOCKER_PREPULL_IMAGES
  Budget,        \* DOCKER_IMAGE_BUDGET_GB in such units, more than 0
  MaxDangling,   \* bound: untagged layers on the disk
  MaxRestarts    \* bound: restarts of the agent

ASSUME CacheAssumption ==
  /\ Prepull \subseteq Images /\ IsFiniteSet(Images)
  /\ Budget \in Nat \ {0} /\ MaxDangling \in Nat /\ MaxRestarts \in Nat

VARIABLES
  cached,        \* daemon: the tagged images it has
  dangling,      \* daemon: untagged layers
  network,       \* daemon: the isolated bridge exists
  container,     \* daemon: of each task: none, created, running or exited
  image,         \* the image a task names
  pc,            \* what its handler does next
  result,        \* none, done or failed
  gc,            \* what its maybe_gc thread does next
  todo,          \* images prepull_all has yet to pull
  broken,        \* the process pool has lost a worker, and is not made anew
  restarts,
  hurt,          \* history: tasks that met a failure of the daemon or a death
  robbed,        \* history: tasks whose image a prune took before its creation
  leaky,         \* history: tasks whose container nobody will remove
  excused        \* history: since the last measurement images have come from
                 \* elsewhere, a prune failed, or a coroutine raised before its own

vars == <<cached, dangling, network, container, image, pc, result, gc, todo,
          broken, restarts, hurt, robbed, leaky, excused>>
disk == <<cached, dangling>>
handlers == <<container, pc, result, hurt, leaky>>
pruning == <<gc, todo, excused, robbed>>
agent == <<image, broken, restarts>>

Handling == {"network", "create", "pull", "recreate", "start", "wait", "kill", "remove"}

TypeOK ==
  /\ cached \subseteq Images /\ dangling \in 0..MaxDangling
  /\ network \in BOOLEAN
  /\ container \in [Tasks -> {"none", "created", "running", "exited"}]
  /\ image \in [Tasks -> Images]
  /\ pc \in [Tasks -> Handling \cup {"idle", "check", "ended", "over"}]
  /\ result \in [Tasks -> {"none", "done", "failed"}]
  /\ gc \in [Tasks -> {"none", "measure", "dangling", "again", "unused"}]
  /\ todo \subseteq Prepull
  /\ restarts \in 0..MaxRestarts /\ broken \in BOOLEAN /\ leaky \subseteq Tasks
  /\ hurt \subseteq Tasks /\ robbed \subseteq Tasks /\ excused \in BOOLEAN
  /\ \A t \in Tasks : result[t] # "none" <=> pc[t] \in {"remove", "ended", "over"}

Init ==
  /\ cached \in SUBSET Images /\ dangling \in 0..MaxDangling
  /\ network \in BOOLEAN
  /\ container = [t \in Tasks |-> "none"]
  /\ image \in [Tasks -> Images]
  /\ pc = [t \in Tasks |-> "idle"]
  /\ result = [t \in Tasks |-> "none"]
  /\ gc = [t \in Tasks |-> "none"]
  /\ todo \in {Prepull, Prepull \ cached}
  /\ restarts = 0 /\ broken = FALSE
  /\ hurt = {} /\ robbed = {} /\ leaky = {} /\ excused = TRUE

InUse == {image[t] : t \in {u \in Tasks : container[u] # "none"}}
Usage == Cardinality(cached) + dangling

-----------------------------------------------------------------------------
(* The handler of a task, in a worker process.                             *)

Goto(t, there) == pc' = [pc EXCEPT ![t] = there]
Proceeds(t, there) == Goto(t, there) /\ UNCHANGED <<result, hurt>>
Becomes(t, state) == container' = [container EXCEPT ![t] = state]

(* It raises; finally removes the container if it holds one: it does not   *)
(* when the start of one fails.                                            *)
Raise(t) ==
  /\ Goto(t, IF container[t] = "none" \/ pc[t] = "start" THEN "ended" ELSE "remove")
  /\ result' = [result EXCEPT ![t] = "failed"]

Fault(t) == Raise(t) /\ hurt' = hurt \cup {t}

Elsewhere == UNCHANGED <<pruning, agent>>

(* LocalExecutor.run: a broken pool takes no task.                         *)
Begin(t) ==
  /\ pc[t] = "idle"
  /\ IF broken THEN Fault(t) ELSE Proceeds(t, "check")
  /\ UNCHANGED <<disk, network, container, leaky>> /\ Elsewhere

(* The arguments and the daemon, then the network if the job names one.    *)
Check(t) ==
  /\ pc[t] = "check"
  /\ \/ Fault(t)
     \/ Proceeds(t, "create")
     \/ ~network /\ Proceeds(t, "network")
  /\ UNCHANGED <<disk, network, container, leaky>> /\ Elsewhere

(* Mutation: one that has been created meanwhile is an error. *)
EnsureNetworkOnce(t) ==
  /\ pc[t] = "network"
  /\ IF network THEN Raise(t) /\ UNCHANGED <<network, hurt>>
                ELSE network' = TRUE /\ Proceeds(t, "create")
  /\ UNCHANGED <<disk, container, leaky>> /\ Elsewhere

(* _ensure_network has not found it; another worker may be faster.         *)
EnsureNetwork(t) ==
  /\ pc[t] = "network"
  /\ \/ network' = TRUE /\ Proceeds(t, "create")
     \/ ~network /\ Fault(t) /\ UNCHANGED network
  /\ UNCHANGED <<disk, container, leaky>> /\ Elsewhere

(* containers.run (external) creates; pulls what is missing and creates    *)
(* again, where it fails if a prune has been faster; starts.               *)
Create(t) ==
  /\ pc[t] \in {"create", "recreate"}
  /\ \/ image[t] \in cached /\ Becomes(t, "created") /\ Proceeds(t, "start")
     \/ image[t] \notin cached /\ pc[t] = "create" /\ Proceeds(t, "pull") /\ UNCHANGED container
     \/ image[t] \notin cached /\ pc[t] = "recreate" /\ Raise(t) /\ UNCHANGED <<container, hurt>>
     \/ Fault(t) /\ UNCHANGED container
  /\ UNCHANGED <<disk, network, leaky>> /\ Elsewhere

(* The answer of the daemon that has created the container is lost.        *)
CreateUnanswered(t) ==
  /\ pc[t] \in {"create", "recreate"} /\ image[t] \in cached
  /\ Becomes(t, "created")
  /\ Fault(t) /\ leaky' = leaky \cup {t}
  /\ UNCHANGED <<disk, network>> /\ Elsewhere

Pull(t) ==
  /\ pc[t] = "pull"
  /\ \/ cached' = cached \cup {image[t]} /\ Proceeds(t, "recreate")
     \/ Fault(t) /\ UNCHANGED cached
  /\ UNCHANGED <<dangling, network, container, leaky>> /\ Elsewhere

StartContainer(t) ==
  /\ pc[t] = "start"
  /\ \/ Becomes(t, "running") /\ Proceeds(t, "wait") /\ UNCHANGED leaky
     \/ Fault(t) /\ leaky' = leaky \cup {t} /\ UNCHANGED container
  /\ UNCHANGED <<disk, network>> /\ Elsewhere

Exit(t) ==
  /\ container[t] = "running"
  /\ Becomes(t, "exited")
  /\ UNCHANGED <<disk, network, pc, result, hurt, leaky>> /\ Elsewhere

(* Logs and output files are collected on the way, which may raise.        *)
WaitReturns(t) ==
  /\ pc[t] = "wait" /\ container[t] = "exited"
  /\ \/ /\ result' = [result EXCEPT ![t] = "done"]
        /\ Goto(t, "remove") /\ UNCHANGED hurt
     \/ Fault(t)
  /\ UNCHANGED <<disk, network, container, leaky>> /\ Elsewhere

WaitFails(t) ==
  /\ pc[t] = "wait"
  /\ Goto(t, "kill") /\ hurt' = hurt \cup {t}
  /\ UNCHANGED <<disk, network, container, result, leaky>> /\ Elsewhere

(* Mutation: the error is raised past the clean-up. *)
KillEnds(t) ==
  /\ pc[t] = "kill"
  /\ Becomes(t, "exited")
  /\ result' = [result EXCEPT ![t] = "failed"]
  /\ Goto(t, "ended")
  /\ UNCHANGED <<disk, network, hurt, leaky>> /\ Elsewhere

Kill(t) ==
  /\ pc[t] = "kill"
  /\ Becomes(t, "exited") \/ UNCHANGED container
  /\ Raise(t)
  /\ UNCHANGED <<disk, network, hurt, leaky>> /\ Elsewhere

(* What cannot be removed is only logged. *)
Remove(t) ==
  /\ pc[t] = "remove"
  /\ \/ Becomes(t, "none") /\ UNCHANGED leaky
     \/ leaky' = leaky \cup {t} /\ UNCHANGED container
  /\ Goto(t, "ended")
  /\ UNCHANGED <<disk, network, result, hurt>> /\ Elsewhere

Handler(t) ==
  \/ Begin(t) \/ Check(t) \/ EnsureNetwork(t) \/ Create(t) \/ CreateUnanswered(t)
  \/ Pull(t) \/ StartContainer(t) \/ WaitReturns(t) \/ WaitFails(t) \/ Kill(t) \/ Remove(t)

(* A worker dies, and the pool takes the others down with it.              *)
Dying == {t \in Tasks : pc[t] \in Handling}

Die(there) ==
  /\ pc' = [t \in Tasks |-> IF t \in Dying \/ pc[t] = "ended" THEN there ELSE pc[t]]
  /\ result' = [t \in Tasks |-> IF t \in Dying THEN "failed" ELSE result[t]]
  /\ hurt' = hurt \cup Dying
  /\ leaky' = leaky \cup {t \in Dying : container[t] # "none"}

WorkerDies ==
  /\ Dying # {}
  /\ Die("ended")
  /\ broken' = TRUE
  /\ UNCHANGED <<disk, network, container, image, pruning, restarts>>

-----------------------------------------------------------------------------
(* maybe_gc, in a thread of the agent, once the result has been posted.    *)

GcGoto(t, there) == gc' = [gc EXCEPT ![t] = there]
ThreadsOnly == UNCHANGED <<network, handlers, agent>>

(* Mutation: only a task that has succeeded can have brought an image. *)
StartGcDone(t) ==
  /\ pc[t] = "ended"
  /\ Goto(t, "over")
  /\ IF result[t] = "done" THEN GcGoto(t, "measure") ELSE UNCHANGED gc
  /\ UNCHANGED <<disk, network, container, result, hurt, leaky, robbed, todo, excused, agent>>

(* The upload of a task's outputs may raise what nobody catches: then the  *)
(* coroutine ends before it gets here.                                     *)
StartGc(t) ==
  /\ pc[t] = "ended"
  /\ Goto(t, "over")
  /\ \/ GcGoto(t, "measure") /\ UNCHANGED excused
     \/ result[t] = "done" /\ excused' = TRUE /\ UNCHANGED gc
  /\ UNCHANGED <<disk, network, container, result, hurt, leaky, robbed, todo, agent>>

Measure(t) ==
  /\ gc[t] \in {"measure", "again"}
  /\ GcGoto(t, CASE Usage <= Budget -> "none"
                 [] Usage > Budget /\ gc[t] = "measure" -> "dangling"
                 [] OTHER -> "unused")
  /\ excused' = (excused /\ gc[t] = "again")
  /\ UNCHANGED <<disk, todo, robbed>> /\ ThreadsOnly

PruneDangling(t) ==
  /\ gc[t] = "dangling"
  /\ dangling' = 0
  /\ GcGoto(t, "again")
  /\ UNCHANGED <<cached, todo, excused, robbed>> /\ ThreadsOnly

(* The daemon keeps what a container, running or not, is made of.          *)
PruneUnused(t) ==
  /\ gc[t] = "unused"
  /\ cached' = cached \cap InUse
  /\ robbed' = robbed \cup {u \in Tasks : pc[u] = "recreate" /\ image[u] \notin InUse}
  /\ GcGoto(t, "none")
  /\ UNCHANGED <<dangling, todo, excused>> /\ ThreadsOnly

(* The daemon does not answer, to be measured or to prune. *)
GcFails(t) ==
  /\ gc[t] # "none"
  /\ GcGoto(t, "none")
  /\ excused' = TRUE
  /\ UNCHANGED <<disk, todo, robbed>> /\ ThreadsOnly

Gc(t) == StartGc(t) \/ Measure(t) \/ PruneDangling(t) \/ PruneUnused(t) \/ GcFails(t)

(* prepull_all, in another: a newer image takes the tag of one it missed.  *)
PrepullImage(i) ==
  /\ i \in todo /\ todo' = todo \ {i}
  /\ \/ cached' = cached \cup {i}
     \/ UNCHANGED cached
  /\ IF i \in cached /\ dangling < MaxDangling
       THEN dangling' \in {dangling, dangling + 1} ELSE UNCHANGED dangling
  /\ excused' = TRUE
  /\ UNCHANGED <<gc, robbed>> /\ ThreadsOnly

(* It looks once at what is there, if the daemon says.                     *)
Restart ==
  /\ restarts < MaxRestarts /\ restarts' = restarts + 1
  /\ Die("over")
  /\ broken' = FALSE
  /\ gc' = [t \in Tasks |-> "none"]
  /\ todo' \in {Prepull, Prepull \ cached}
  /\ excused' = TRUE
  /\ UNCHANGED <<disk, network, container, image, robbed>>

-----------------------------------------------------------------------------
Next ==
  \/ \E t \in Tasks : Handler(t) \/ Exit(t) \/ Gc(t)
  \/ \E i \in Prepull : PrepullImage(i)
  \/ WorkerDies \/ Restart

Spec == Init /\ [][Next]_vars

-----------------------------------------------------------------------------
(* Once a handler has returned, nothing is left of its container, unless   *)
(* its creation was not answered, its start or removal failed or the worker *)
(* died: no one looks for one that is left behind (container.py 372-460).  *)
NothingIsLeft ==
  \A t \in Tasks \ leaky : pc[t] \in {"ended", "over"} => container[t] = "none"

(* Overlapping workers and prunes stand in each other's way in one case    *)
(* only: a task that met no failure of the daemon, nor a worker's death, is *)
(* done unless a prune took its image between the pull and the creation;   *)
(* two that create the network are (container.py 118-148, 366-391,         *)
(* image_cache.py 181).                                                    *)
CleanRunsAreDone ==
  \A t \in Tasks \ (hurt \cup robbed) : pc[t] \in {"ended", "over"} => result[t] = "done"

(* When all tasks are through with their clean-up, the disk is within its  *)
(* budget or holds only what containers are made of, however the threads   *)
(* overlap, unless since it was last measured a prune failed, a coroutine  *)
(* raised before it got to its prune, or images came from elsewhere        *)
(* (image_cache.py 117-188, agent.py 1051-1071 and 1133-1136).             *)
Quiet == \A t \in Tasks : pc[t] \in {"idle", "over"} /\ gc[t] = "none"

BudgetIsKept ==
  Quiet /\ ~excused => Usage <= Budget \/ (dangling = 0 /\ cached \subseteq InUse)
=============================================================================
