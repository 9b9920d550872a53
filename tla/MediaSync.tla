------------------------------ MODULE MediaSync -------------------------------
(***************************************************************************)
(* The download of media models (agent.py _sync_media_models): a heartbeat *)
(* response names the queued models, the agent starts a task that fetches  *)
(* them one after the other into a .part file that replaces the model when *)
(* it is complete, and acknowledges the queue with its next heartbeat.     *)
(* Tasks may overlap: they then share the .part file of a model.  A        *)
(* restart ends them all.                                                  *)
(***************************************************************************)
EXTENDS Naturals, FiniteSets

CONSTANTS
  Models,
  Syncs,         \* tasks that may run at the same time
  Chunks,        \* writes it takes to store a model
  MaxQueued,     \* bound: times the operator queues something
  None           \* no model, no answer

VARIABLES
  configured,    \* the process runs with a COMFYUI_MODELS_PATH
  queue,         \* backend: models queued for this node
  delivered,     \* backend: what its last answer named
  queued,        \* times something was queued
  named,         \* the models an answer on its way names, or None
  flag,          \* _pending_media_models_applied
  todo,          \* of each task: models it has yet to look at
  cur,           \* the model it is at, or None
  fd,            \* what its open file is called now: none, part, dest, or gone
  pos,           \* chunks it has written
  part,          \* chunks that are in the .part file of a model
  partThere,
  dest,          \* chunks that are in the model's file
  destThere,
  missed,        \* history: models a download of which failed, was cut off or never begun,
                 \* or that were named while an acknowledgement was due anyway
  shared         \* history: those whose .part another task had open, or had moved

vars == <<configured, queue, delivered, queued, named, flag, todo, cur, fd, pos,
          part, partThere, dest, destThere, missed, shared>>
faults == <<missed, shared>>
files == <<part, partThere, dest, destThere>>
backend == <<configured, queue, delivered, queued, named>>
tasks == <<todo, cur, fd, pos>>

Whole == 1..Chunks

TypeOK ==
  /\ queue \subseteq Models /\ delivered \subseteq Models /\ queued \in 0..MaxQueued
  /\ named \in (SUBSET Models) \cup {None}
  /\ flag \in BOOLEAN /\ configured \in BOOLEAN
  /\ todo \in [Syncs -> SUBSET Models]
  /\ cur \in [Syncs -> Models \cup {None}]
  /\ fd \in [Syncs -> {"none", "part", "dest", "gone"}]
  /\ pos \in [Syncs -> 0..Chunks]
  /\ part \in [Models -> SUBSET Whole] /\ dest \in [Models -> SUBSET Whole]
  /\ partThere \in [Models -> BOOLEAN] /\ destThere \in [Models -> BOOLEAN]
  /\ missed \subseteq Models /\ shared \subseteq missed

Init ==
  /\ queue = {} /\ delivered = {} /\ queued = 0 /\ named = None /\ flag = FALSE
  /\ configured \in BOOLEAN
  /\ todo = [s \in Syncs |-> {}]
  /\ cur = [s \in Syncs |-> None]
  /\ fd = [s \in Syncs |-> "none"]
  /\ pos = [s \in Syncs |-> 0]
  /\ part = [m \in Models |-> {}] /\ partThere = [m \in Models |-> FALSE]
  /\ dest = [m \in Models |-> {}] /\ destThere = [m \in Models |-> FALSE]
  /\ missed = {} /\ shared = {}

-----------------------------------------------------------------------------
(* The operator queues models at the backend (external).                   *)
Queue(models) ==
  /\ queued < MaxQueued /\ models # {}
  /\ queued' = queued + 1
  /\ queue' = queue \cup models
  /\ UNCHANGED <<configured, delivered, named, flag, tasks, files, faults>>

(* A heartbeat reaches the backend, which clears what it had named before  *)
(* if that is acknowledged, and answers with what is queued still.         *)
Heartbeat ==
  /\ named = None
  /\ queue' = IF flag THEN queue \ delivered ELSE queue
  /\ delivered' = queue' /\ named' = queue'
  /\ UNCHANGED <<configured, queued, flag, tasks, files, faults>>

(* The next heartbeat acknowledges what was not heard, if the acknowledgement *)
(* of an earlier answer is still due.                                      *)
AnswerLost ==
  /\ named # None
  /\ named' = None
  /\ missed' = IF flag THEN missed \cup named ELSE missed
  /\ UNCHANGED <<configured, queue, delivered, queued, flag, tasks, files, shared>>

Hear == named # None /\ named' = None /\ UNCHANGED <<configured, queue, delivered, queued>>

Idle(s) == todo[s] = {} /\ cur[s] = None

HearModels(s) ==
  /\ Hear /\ named # {}
  /\ configured /\ Idle(s)
  /\ todo' = [todo EXCEPT ![s] = named]
  /\ flag' = TRUE
  /\ UNCHANGED <<cur, fd, pos, files, faults>>

(* The task returns at once; the queue is acknowledged all the same. *)
HearUnset ==
  /\ Hear /\ named # {}
  /\ ~configured
  /\ flag' = TRUE
  /\ missed' = missed \cup named
  /\ UNCHANGED <<tasks, files, shared>>

HearNone ==
  /\ Hear /\ named = {}
  /\ flag' = FALSE
  /\ UNCHANGED <<tasks, files, faults>>

-----------------------------------------------------------------------------
(* One task.                                                               *)

Next1(s, m) == m \in todo[s] /\ cur[s] = None /\ todo' = [todo EXCEPT ![s] = todo[s] \ {m}]

(* A file that is not empty is taken for the model. *)
Present(m) == destThere[m] /\ dest[m] # {}

Skip(s, m) ==
  /\ Next1(s, m)
  /\ Present(m)
  /\ UNCHANGED <<backend, flag, cur, fd, pos, files, faults>>

Connect(s, m) ==
  /\ Next1(s, m)
  /\ ~Present(m)
  /\ cur' = [cur EXCEPT ![s] = m]
  /\ UNCHANGED <<backend, flag, fd, pos, files, faults>>

(* The directory of a model cannot be made: the task ends with what it had *)
(* yet to look at.                                                         *)
MkdirFails(s, m) ==
  /\ m \in todo[s] /\ cur[s] = None
  /\ ~Present(m)
  /\ todo' = [todo EXCEPT ![s] = {}]
  /\ missed' = missed \cup todo[s]
  /\ UNCHANGED <<backend, flag, cur, fd, pos, files, shared>>

(* open(tmp, "wb") truncates the .part of another task. *)
Open(s) ==
  /\ cur[s] # None /\ fd[s] = "none"
  /\ part' = [part EXCEPT ![cur[s]] = {}]
  /\ partThere' = [partThere EXCEPT ![cur[s]] = TRUE]
  /\ fd' = [fd EXCEPT ![s] = "part"]
  /\ pos' = [pos EXCEPT ![s] = 0]
  /\ UNCHANGED <<backend, flag, todo, cur, dest, destThere, faults>>

(* Each writes at its own offset, wherever its file has been moved. *)
Write(s) ==
  /\ fd[s] # "none" /\ pos[s] < Chunks
  /\ pos' = [pos EXCEPT ![s] = pos[s] + 1]
  /\ part' = IF fd[s] = "part" THEN [part EXCEPT ![cur[s]] = @ \cup {pos[s] + 1}] ELSE part
  /\ dest' = IF fd[s] = "dest" THEN [dest EXCEPT ![cur[s]] = @ \cup {pos[s] + 1}] ELSE dest
  /\ UNCHANGED <<backend, flag, todo, cur, fd, partThere, destThere, faults>>

(* What the open files of a model are called once .part has moved or gone. *)
Renamed(s, partBecomes, destBecomes) ==
  [o \in Syncs |->
     CASE o = s -> "none"
       [] o # s /\ cur[o] = cur[s] /\ fd[o] = "part" -> partBecomes
       [] o # s /\ cur[o] = cur[s] /\ fd[o] = "dest" -> destBecomes
       [] OTHER -> fd[o]]

Leave(s) == cur' = [cur EXCEPT ![s] = None]

(* Mutation: .part is moved before the last chunk is flushed. *)
ReplaceEarly(s) ==
  /\ fd[s] # "none" /\ pos[s] >= Chunks - 1
  /\ partThere[cur[s]]
  /\ dest' = [dest EXCEPT ![cur[s]] = part[cur[s]]]
  /\ destThere' = [destThere EXCEPT ![cur[s]] = TRUE]
  /\ partThere' = [partThere EXCEPT ![cur[s]] = FALSE]
  /\ fd' = Renamed(s, "dest", "gone")
  /\ Leave(s)
  /\ UNCHANGED <<backend, flag, todo, pos, part, faults>>

Replace(s) ==
  /\ fd[s] # "none" /\ pos[s] = Chunks
  /\ partThere[cur[s]]
  /\ dest' = [dest EXCEPT ![cur[s]] = part[cur[s]]]
  /\ destThere' = [destThere EXCEPT ![cur[s]] = TRUE]
  /\ partThere' = [partThere EXCEPT ![cur[s]] = FALSE]
  /\ fd' = Renamed(s, "dest", "gone")
  /\ Leave(s)
  /\ UNCHANGED <<backend, flag, todo, pos, part, faults>>

(* Mutation: the clean-up removes the model. *)
CleanModel(s) ==
  /\ destThere' = [destThere EXCEPT ![cur[s]] = FALSE]
  /\ fd' = Renamed(s, "part", "gone")
  /\ Leave(s)
  /\ UNCHANGED <<backend, flag, todo, pos, part, partThere, dest>>

(* .part is removed, and the next model is looked at. *)
Clean(s) ==
  /\ partThere' = [partThere EXCEPT ![cur[s]] = FALSE]
  /\ fd' = Renamed(s, "gone", "dest")
  /\ Leave(s)
  /\ UNCHANGED <<backend, flag, todo, pos, part, dest, destThere>>

(* Another task has moved .part, or removed it. *)
ReplaceFails(s) ==
  /\ fd[s] # "none" /\ pos[s] = Chunks
  /\ ~partThere[cur[s]]
  /\ Clean(s)
  /\ UNCHANGED faults

DownloadFails(s) ==
  /\ cur[s] # None
  /\ Clean(s)
  /\ missed' = missed \cup {cur[s]}
  /\ shared' = IF fd[s] = "dest" \/ \E o \in Syncs \ {s} : cur[o] = cur[s] /\ fd[o] # "none"
               THEN shared \cup {cur[s]} ELSE shared

(* The process ends with its tasks and the answer it waited for; the next  *)
(* one may have other settings.                                            *)
Restart ==
  /\ configured' \in BOOLEAN
  /\ named' = None /\ flag' = FALSE
  /\ todo' = [s \in Syncs |-> {}]
  /\ cur' = [s \in Syncs |-> None]
  /\ fd' = [s \in Syncs |-> "none"]
  /\ missed' = missed \cup (UNION {todo[s] : s \in Syncs})
                      \cup {cur[s] : s \in {o \in Syncs : cur[o] # None}}
  /\ shared' = shared \cup {cur[s] : s \in {o \in Syncs : fd[o] = "dest"}}
  /\ UNCHANGED <<queue, delivered, queued, pos, files>>

-----------------------------------------------------------------------------
Sync(s) ==
  \/ \E m \in Models : Skip(s, m) \/ Connect(s, m) \/ MkdirFails(s, m)
  \/ Open(s) \/ Write(s) \/ Replace(s) \/ ReplaceFails(s) \/ DownloadFails(s)

HearAny == HearNone \/ HearUnset \/ \E s \in Syncs : HearModels(s)

Next ==
  \/ \E models \in SUBSET Models : Queue(models)
  \/ Heartbeat \/ AnswerLost \/ HearAny \/ Restart
  \/ \E s \in Syncs : Sync(s)

Spec == Init /\ [][Next]_vars

-----------------------------------------------------------------------------
Writing(m) == \E s \in Syncs : cur[s] = m /\ fd[s] # "none"

(* A model that is there and that nobody writes is whole, so that the next *)
(* sync may skip it, unless a download failed, or was cut off, whose .part *)
(* another task had open too, or had put in place (lines 1280-1300).       *)
PresentIsWhole ==
  \A m \in Models \ shared : destThere[m] /\ ~Writing(m) => dest[m] = Whole

(* If its downloads do not fail, are not cut off and have a directory to   *)
(* go to, whatever is queued arrives whole and stays, however the tasks    *)
(* that fetch it overlap (lines 1252-1300).                                *)
ModelsArrive ==
  \A m \in Models :
    m \in queue ~> m \in missed \/ [](m \in missed \/ (destThere[m] /\ dest[m] = Whole))
=============================================================================
