------------------------- MODULE RemoteConfig_proofs --------------------------
(***************************************************************************)
(* Type correctness of RemoteConfig and the safety of the acknowledgement, *)
(* for any number of pushes and crashes, alone and with the media models   *)
(* that HeartbeatPushes sends through the same heartbeats; and that the    *)
(* models are put in place whole, for any number of tasks that share a     *)
(* .part file and of chunks they write.                                    *)
(***************************************************************************)
EXTENDS HeartbeatPushes, TLAPS

(* Every variable keeps its type (lines 484-498, 1301-1340). *)
THEOREM TypeCorrect == Spec => []TypeOK
<1>1. Init => TypeOK
  <2> SUFFICES ASSUME Init PROVE TypeOK
    OBVIOUS
  <2>1. 0 \in Configs /\ 0 \in 0..MaxCrashes
    BY PushAssumption DEF Configs
  <2> QED
    BY <2>1 DEF Init, TypeOK
<1>2. TypeOK /\ [Next]_vars => TypeOK'
  <2> SUFFICES ASSUME TypeOK, [Next]_vars PROVE TypeOK'
    OBVIOUS
  <2> USE PushAssumption DEF TypeOK, Configs, NoAnswer
  <2>1. CASE Push
    BY <2>1 DEF Push
  <2>2. CASE Heartbeat
    BY <2>2 DEF Heartbeat
  <2>3. CASE AnswerLost
    BY <2>3 DEF AnswerLost, backend
  <2>4. CASE HearConfig
    BY <2>4 DEF HearConfig, Hear, backend
  <2>5. CASE HearCleared
    BY <2>5 DEF HearCleared, Hear, backend
  <2>6. CASE HearNothing
    BY <2>6 DEF HearNothing, Hear, backend
  <2>7. CASE DoRestart
    BY <2>7 DEF DoRestart, SystemctlRestarts, ExecFallback, Fresh, Forget, backend
  <2>8. CASE Crash
    <3>1. crashes' \in 0..MaxCrashes
      BY <2>8 DEF Crash
    <3> QED
      BY <2>8, <3>1 DEF Crash, Fresh, Forget, backend
  <2>9. CASE UNCHANGED vars
    BY <2>9 DEF vars
  <2>10. CASE SystemdStarts
    BY <2>10 DEF SystemdStarts, Fresh, Forget, backend
  <2> QED
    BY <2>1, <2>2, <2>3, <2>4, <2>5, <2>6, <2>7, <2>8, <2>9, <2>10 DEF Next, HearAny
<1> QED
  BY <1>1, <1>2, PTL DEF Spec

-----------------------------------------------------------------------------
(* What is pending, on its way, or applied is the last configuration.      *)
Inv ==
  /\ AckedIsOnDisk
  /\ pending # 0 => pending = pushed
  /\ ~early /\ answer \notin {0, NoAnswer} => answer = pending
  /\ ~early /\ ~unwritten /\ applied => env = pushed
  /\ pending = 0 => answer \in {0, NoAnswer}

(* What the backend has no longer pending is on disk: the acknowledgement  *)
(* is sent only for the configuration that was written.                    *)
THEOREM AckedIsOnDiskHolds == Spec => []AckedIsOnDisk
<1>1. Init => Inv
  BY DEF Init, Inv, AckedIsOnDisk, NoAnswer
<1>2. TypeOK /\ Inv /\ [Next]_vars => Inv'
  <2> SUFFICES ASSUME TypeOK, Inv, [Next]_vars PROVE Inv'
    OBVIOUS
  <2> USE PushAssumption DEF TypeOK, Configs, NoAnswer, Inv, AckedIsOnDisk
  <2>1. CASE Push
    <3>1. ~early' => pending = 0 /\ ~applied
      BY <2>1, Zenon DEF Push
    <3>2. pending' = pushed' /\ pending' # 0 /\ answer' = answer /\ applied' = applied
      BY <2>1 DEF Push
    <3> QED
      BY <3>1, <3>2
  <2>2. CASE Heartbeat
    BY <2>2 DEF Heartbeat
  <2>3. CASE AnswerLost
    BY <2>3 DEF AnswerLost, backend
  <2>4. CASE HearConfig
    BY <2>4 DEF HearConfig, Hear, backend
  <2>5. CASE HearCleared
    BY <2>5 DEF HearCleared, Hear, backend
  <2>6. CASE HearNothing
    BY <2>6 DEF HearNothing, Hear, backend
  <2>7. CASE DoRestart
    BY <2>7 DEF DoRestart, SystemctlRestarts, ExecFallback, Fresh, Forget, backend
  <2>8. CASE Crash \/ SystemdStarts
    BY <2>8 DEF Crash, SystemdStarts, Fresh, Forget, backend
  <2>9. CASE UNCHANGED vars
    BY <2>9 DEF vars
  <2> QED
    BY <2>1, <2>2, <2>3, <2>4, <2>5, <2>6, <2>7, <2>8, <2>9 DEF Next, HearAny
<1>3. Inv => AckedIsOnDisk
  BY DEF Inv
<1> QED
  BY <1>1, <1>2, <1>3, TypeCorrect, PTL DEF Spec

-----------------------------------------------------------------------------
(* The models that share the heartbeats take nothing from the settings:    *)
(* every step of HeartbeatPushes is one of RemoteConfig, or leaves it.     *)
THEOREM PushesAreConfig == PushesSpec => Spec
<1>1. PushesInit => Init
  BY DEF PushesInit
<1>2. [PushesNext]_allVars => [Next]_vars
  BY DEF PushesNext, allVars, PushConfig, QueueModels, SendHeartbeat, LoseAnswer, TakeConfig,
     TakeCleared, TakeNothing, RestartForConfig, CrashAll, StartAgain, Sync, Next, HearAny
<1> QED
  BY <1>1, <1>2, PTL DEF PushesSpec, Spec

(* Acknowledged settings are on disk also while models are synchronised.   *)
THEOREM AckedWithModels == PushesSpec => []AckedIsOnDisk
  BY PushesAreConfig, AckedIsOnDiskHolds, PTL

-----------------------------------------------------------------------------
(* The models.  What a file lacks is what the task that opened it last has *)
(* yet to write: that task goes with the file when another moves it.       *)

LEMMA PushesStepIsMediaStep == [PushesNext]_allVars => [Media!Next]_(Media!vars)
  BY DEF PushesNext, allVars, mediaVars, Media!vars, PushConfig, QueueModels, SendHeartbeat,
     LoseAnswer, TakeConfig, TakeCleared, TakeNothing, RestartForConfig, CrashAll, StartAgain, Sync,
     Media!Next

(* A task has a file open only while it is at a model, and what it has     *)
(* open under a name is there.                                             *)
OpenIsThere ==
  \A s \in Syncs :
    /\ cur[s] = None => fd[s] = "none"
    /\ fd[s] = "part" => partThere[cur[s]]
    /\ fd[s] = "dest" => destThere[cur[s]]

MediaOK == Media!TypeOK /\ OpenIsThere

LEMMA MediaInit == Media!Init => MediaOK
<1> SUFFICES ASSUME Media!Init PROVE MediaOK
  OBVIOUS
<1>1. 0 \in 0..MaxQueued /\ 0 \in 0..Chunks
  BY MediaAssumption
<1>2. Media!TypeOK
  BY <1>1 DEF Media!Init, Media!TypeOK
<1>3. OpenIsThere
  BY DEF Media!Init, OpenIsThere
<1> QED
  BY <1>2, <1>3 DEF MediaOK

LEMMA MediaStep == MediaOK /\ [Media!Next]_(Media!vars) => MediaOK'
<1> SUFFICES ASSUME MediaOK, [Media!Next]_(Media!vars) PROVE MediaOK'
  OBVIOUS
<1> USE MediaAssumption DEF MediaOK, Media!TypeOK, OpenIsThere, Media!backend, Media!tasks, Media!files,
    Media!faults
<1>1. ASSUME NEW models \in SUBSET Models, Media!Queue(models) PROVE MediaOK'
  <2>1. queue' \subseteq Models
    BY <1>1 DEF Media!Queue
  <2>2. queued' \in 0..MaxQueued
    BY <1>1 DEF Media!Queue
  <2>3. UNCHANGED <<configured, shown, named, flag, todo, cur, fd, pos, part, partThere, dest, destThere,
                    missed, shared>>
    BY <1>1 DEF Media!Queue
  <2> QED
    BY <2>1, <2>2, <2>3
<1>2. CASE Media!Heartbeat
  BY <1>2 DEF Media!Heartbeat
<1>3. CASE Media!AnswerLost
  BY <1>3 DEF Media!AnswerLost
<1>4. CASE Media!HearAny
  <2>1. ASSUME NEW s \in Syncs, Media!HearModels(s) PROVE MediaOK'
    <3>1. named \in SUBSET Models
      BY <2>1 DEF Media!HearModels, Media!Hear
    <3>2. todo' \in [Syncs -> SUBSET Models]
      BY <2>1, <3>1 DEF Media!HearModels
    <3> QED
      BY <2>1, <3>2 DEF Media!HearModels, Media!Hear
  <2>3. CASE Media!HearUnset
    <3>1. missed' = missed \cup named /\ named \in SUBSET Models
      BY <2>3 DEF Media!HearUnset, Media!Hear
    <3> QED
      BY <2>3, <3>1 DEF Media!HearUnset, Media!Hear
  <2>2. CASE Media!HearNone
    BY <2>2 DEF Media!HearNone, Media!Hear
  <2> QED
    BY <1>4, <2>1, <2>2, <2>3 DEF Media!HearAny
<1>5. CASE Media!Restart
  <2>1. fd \in [Syncs -> {"none", "part", "dest", "gone"}] /\ cur \in [Syncs -> Models \cup {None}]
    OBVIOUS
  <2>2. {cur[s] : s \in {o \in Syncs : fd[o] = "dest"}}
          \subseteq {cur[s] : s \in {o \in Syncs : cur[o] # None}}
    OBVIOUS
  <2>3. {cur[s] : s \in {o \in Syncs : cur[o] # None}} \subseteq Models
    BY <2>1
  <2>4. UNION {todo[s] : s \in Syncs} \subseteq Models
    OBVIOUS
  <2> DEFINE lost == UNION {todo[s] : s \in Syncs}
             atOne == {cur[s] : s \in {o \in Syncs : cur[o] # None}}
             moved == {cur[s] : s \in {o \in Syncs : fd[o] = "dest"}}
  <2> HIDE DEF lost, atOne, moved
  <2>5. missed' \subseteq Models /\ shared' \subseteq missed'
    <3>1. missed' = missed \cup lost \cup atOne /\ shared' = shared \cup moved
      BY <1>5, Zenon DEF Media!Restart, lost, atOne, moved
    <3>2. lost \subseteq Models /\ atOne \subseteq Models /\ moved \subseteq atOne
      BY <2>2, <2>3, <2>4 DEF lost, atOne, moved
    <3> QED
      BY <3>1, <3>2
  <2> QED
    BY <1>5, <2>5 DEF Media!Restart
<1>6. ASSUME NEW s \in Syncs, NEW m \in Models, Media!Skip(s, m) \/ Media!Connect(s, m) PROVE MediaOK'
  BY <1>6 DEF Media!Skip, Media!Connect, Media!Next1
<1>7. ASSUME NEW s \in Syncs, Media!Open(s) PROVE MediaOK'
  BY <1>7 DEF Media!Open
<1>8. ASSUME NEW s \in Syncs, Media!Write(s) PROVE MediaOK'
  <2>1. pos[s] + 1 \in Media!Whole /\ pos[s] + 1 \in 0..Chunks
    BY <1>8 DEF Media!Write, Media!Whole
  <2>2. part' \in [Models -> SUBSET Media!Whole] /\ dest' \in [Models -> SUBSET Media!Whole]
    BY <1>8, <2>1 DEF Media!Write
  <2> QED
    BY <1>8, <2>1, <2>2 DEF Media!Write
<1>9. ASSUME NEW s \in Syncs, Media!Replace(s) PROVE MediaOK'
  <2>1. cur[s] \in Models
    BY <1>9 DEF Media!Replace
  <2>2. /\ dest' = [dest EXCEPT ![cur[s]] = part[cur[s]]]
        /\ destThere' = [destThere EXCEPT ![cur[s]] = TRUE]
        /\ partThere' = [partThere EXCEPT ![cur[s]] = FALSE]
        /\ cur' = [cur EXCEPT ![s] = None]
    BY <1>9 DEF Media!Replace, Media!Leave
  <2>3. \A o \in Syncs : fd'[o] = IF o = s THEN "none"
                                  ELSE IF cur[o] = cur[s] /\ fd[o] = "part" THEN "dest"
                                  ELSE IF cur[o] = cur[s] /\ fd[o] = "dest" THEN "gone" ELSE fd[o]
    BY <1>9 DEF Media!Replace, Media!Renamed
  <2>4. fd' \in [Syncs -> {"none", "part", "dest", "gone"}]
    BY <1>9, <2>3 DEF Media!Replace, Media!Renamed
  <2>5. OpenIsThere'
    BY <2>1, <2>2, <2>3
  <2>6. Media!TypeOK'
    BY <1>9, <2>1, <2>2, <2>4 DEF Media!Replace
  <2> QED
    BY <2>5, <2>6
<1>10. ASSUME NEW s \in Syncs, cur[s] \in Models, Media!Clean(s), UNCHANGED <<configured, queue, shown, queued, named>>,
              missed' \subseteq Models, shared' \subseteq missed'
       PROVE  MediaOK'
  <2>1. /\ partThere' = [partThere EXCEPT ![cur[s]] = FALSE]
        /\ cur' = [cur EXCEPT ![s] = None]
    BY <1>10 DEF Media!Clean, Media!Leave
  <2>2. \A o \in Syncs : fd'[o] = IF o = s THEN "none"
                                  ELSE IF cur[o] = cur[s] /\ fd[o] = "part" THEN "gone"
                                  ELSE IF cur[o] = cur[s] /\ fd[o] = "dest" THEN "dest" ELSE fd[o]
    BY <1>10 DEF Media!Clean, Media!Renamed
  <2>3. fd' \in [Syncs -> {"none", "part", "dest", "gone"}]
    BY <1>10, <2>2 DEF Media!Clean, Media!Renamed
  <2>4. OpenIsThere'
    BY <1>10, <2>1, <2>2 DEF Media!Clean
  <2>5. Media!TypeOK'
    BY <1>10, <2>1, <2>3 DEF Media!Clean
  <2> QED
    BY <2>4, <2>5
<1>11. ASSUME NEW s \in Syncs, Media!ReplaceFails(s) \/ Media!DownloadFails(s) PROVE MediaOK'
  <2>1. cur[s] \in Models /\ Media!Clean(s)
    BY <1>11 DEF Media!ReplaceFails, Media!DownloadFails
  <2>2. UNCHANGED <<configured, queue, shown, queued, named>>
    BY <2>1 DEF Media!Clean
  <2>3. missed' \subseteq Models /\ shared' \subseteq missed'
    BY <1>11, <2>1 DEF Media!ReplaceFails, Media!DownloadFails
  <2> QED
    BY <1>10, <2>1, <2>2, <2>3
<1>12. CASE UNCHANGED Media!vars
  BY <1>12 DEF Media!vars
<1>13. ASSUME NEW s \in Syncs, NEW m \in Models, Media!MkdirFails(s, m) PROVE MediaOK'
  <2>1. todo[s] \subseteq Models
    OBVIOUS
  <2>2. missed' \subseteq Models /\ shared' \subseteq missed'
    BY <1>13, <2>1 DEF Media!MkdirFails
  <2> QED
    BY <1>13, <2>2 DEF Media!MkdirFails
<1> QED
  BY <1>1, <1>2, <1>3, <1>4, <1>5, <1>6, <1>7, <1>8, <1>9, <1>11, <1>12, <1>13
  DEF Media!Next, Media!Sync

(* Settings and models keep their types (agent.py lines 444-512,           *)
(* 1252-1300).                                                             *)
THEOREM PushesTypeCorrect == PushesSpec => []PushesTypeOK
<1>1. PushesInit => Media!Init
  BY DEF PushesInit
<1>2. MediaOK => Media!TypeOK
  BY DEF MediaOK
<1> QED
  BY <1>1, <1>2, MediaInit, MediaStep, PushesStepIsMediaStep, PushesAreConfig, TypeCorrect, PTL
  DEF PushesSpec, PushesTypeOK

-----------------------------------------------------------------------------
(* A file of a model lacks only what a task that has it open will write.   *)

Filling(s, m, name, content) == cur[s] = m /\ fd[s] = name /\ 1..pos[s] \subseteq content

DestFills(m) ==
  destThere[m] => dest[m] = Media!Whole \/ \E s \in Syncs : Filling(s, m, "dest", dest[m])

PartFills(m) ==
  partThere[m] /\ Media!Writing(m) => \E s \in Syncs : Filling(s, m, "part", part[m])

FilesFill == \A m \in Models \ shared : DestFills(m) /\ PartFills(m)

LEMMA FilledIsWhole ==
  ASSUME MediaOK, NEW m \in Models, NEW s \in Syncs, Filling(s, m, "dest", dest[m]), pos[s] = Chunks
  PROVE  dest[m] = Media!Whole
<1>1. dest[m] \subseteq Media!Whole
  BY DEF MediaOK, Media!TypeOK
<1>2. Media!Whole \subseteq dest[m]
  BY DEF Filling, Media!Whole
<1> QED
  BY <1>1, <1>2

(* A step that touches neither files nor open files.                       *)
LEMMA FillsKept ==
  ASSUME FilesFill, UNCHANGED <<cur, fd, pos, part, partThere, dest, destThere, shared>>
  PROVE  FilesFill'
  BY DEF FilesFill, DestFills, PartFills, Filling, Media!Writing

LEMMA FillsConnect ==
  ASSUME MediaOK, FilesFill, NEW s \in Syncs, NEW m \in Models, Media!Connect(s, m)
  PROVE  FilesFill'
<1>1. cur[s] = None /\ fd[s] = "none" /\ cur' = [cur EXCEPT ![s] = m] /\ cur \in [Syncs -> Models \cup {None}]
  BY DEF Media!Connect, Media!Next1, MediaOK, OpenIsThere, Media!TypeOK
<1>2. UNCHANGED <<fd, pos, part, partThere, dest, destThere, shared>>
  BY DEF Media!Connect, Media!files, Media!faults
<1>3. \A o \in Syncs : fd[o] # "none" => cur'[o] = cur[o]
  BY <1>1
<1>4. \A n \in Models : Media!Writing(n)' => Media!Writing(n)
  BY <1>1, <1>2, <1>3 DEF Media!Writing
<1>5. \A n \in Models, o \in Syncs :
        /\ Filling(o, n, "dest", dest[n]) => Filling(o, n, "dest", dest[n])'
        /\ Filling(o, n, "part", part[n]) => Filling(o, n, "part", part[n])'
  BY <1>2, <1>3 DEF Filling
<1> QED
  BY <1>2, <1>4, <1>5 DEF FilesFill, DestFills, PartFills

LEMMA FillsOpen ==
  ASSUME MediaOK, FilesFill, NEW s \in Syncs, Media!Open(s)
  PROVE  FilesFill'
<1> DEFINE at == cur[s]
<1>1. /\ at \in Models /\ fd[s] = "none"
      /\ part' = [part EXCEPT ![at] = {}] /\ partThere' = [partThere EXCEPT ![at] = TRUE]
      /\ fd' = [fd EXCEPT ![s] = "part"] /\ pos' = [pos EXCEPT ![s] = 0]
      /\ UNCHANGED <<cur, dest, destThere, shared>>
  BY DEF Media!Open, MediaOK, Media!TypeOK, Media!faults
<1>2. /\ fd \in [Syncs -> {"none", "part", "dest", "gone"}] /\ pos \in [Syncs -> 0..Chunks]
      /\ part \in [Models -> SUBSET Media!Whole] /\ partThere \in [Models -> BOOLEAN]
  BY DEF MediaOK, Media!TypeOK
<1>3. \A o \in Syncs \ {s} : fd'[o] = fd[o] /\ pos'[o] = pos[o] /\ cur'[o] = cur[o]
  BY <1>1, <1>2
<1>4. ASSUME NEW m \in Models \ shared PROVE DestFills(m)'
  <2>1. \A o \in Syncs : Filling(o, m, "dest", dest[m]) => Filling(o, m, "dest", dest[m])'
    BY <1>1, <1>3 DEF Filling
  <2> QED
    BY <1>1, <1>4, <2>1 DEF FilesFill, DestFills
<1>5. ASSUME NEW m \in Models \ shared PROVE PartFills(m)'
  <2>1. CASE m = at
    <3>1. Filling(s, m, "part", part[m])'
      BY <1>1, <1>2, <2>1 DEF Filling
    <3> QED
      BY <3>1 DEF PartFills
  <2>2. CASE m # at
    <3>1. part'[m] = part[m] /\ partThere'[m] = partThere[m]
      BY <1>1, <1>2, <2>2
    <3>2. Media!Writing(m)' => Media!Writing(m)
      BY <1>1, <1>3, <2>2 DEF Media!Writing
    <3>3. \A o \in Syncs : Filling(o, m, "part", part[m]) => Filling(o, m, "part", part[m])'
      BY <1>1, <1>3, <3>1 DEF Filling
    <3> QED
      BY <1>5, <3>1, <3>2, <3>3 DEF FilesFill, PartFills
  <2> QED
    BY <2>1, <2>2
<1> QED
  BY <1>1, <1>4, <1>5 DEF FilesFill

LEMMA FillsWrite ==
  ASSUME MediaOK, FilesFill, NEW s \in Syncs, Media!Write(s)
  PROVE  FilesFill'
<1> DEFINE at == cur[s]
           chunk == pos[s] + 1
<1>1. /\ fd[s] # "none" /\ at \in Models
      /\ pos' = [pos EXCEPT ![s] = chunk]
      /\ UNCHANGED <<cur, fd, partThere, destThere, shared>>
  BY DEF Media!Write, MediaOK, OpenIsThere, Media!TypeOK, Media!faults
<1>2. /\ \A m \in Models : part[m] \subseteq part'[m] /\ dest[m] \subseteq dest'[m]
      /\ fd[s] = "part" => chunk \in part'[at]
      /\ fd[s] = "dest" => chunk \in dest'[at]
  BY <1>1 DEF Media!Write, MediaOK, Media!TypeOK
<1>3. dest' \in [Models -> SUBSET Media!Whole]
  <2>1. chunk \in Media!Whole
    BY MediaAssumption DEF Media!Write, Media!Whole, MediaOK, Media!TypeOK
  <2> QED
    BY <1>1, <2>1 DEF Media!Write, MediaOK, Media!TypeOK
<1>4. /\ pos[s] \in Nat /\ 1..chunk = (1..pos[s]) \cup {chunk}
      /\ pos'[s] = chunk /\ \A o \in Syncs \ {s} : pos'[o] = pos[o]
  BY <1>1, MediaAssumption DEF MediaOK, Media!TypeOK
<1>5. ASSUME NEW m \in Models, NEW o \in Syncs
      PROVE  /\ Filling(o, m, "dest", dest[m]) => Filling(o, m, "dest", dest[m])'
             /\ Filling(o, m, "part", part[m]) => Filling(o, m, "part", part[m])'
  <2>1. CASE o = s
    <3>1. 1..pos'[o] = (1..pos[o]) \cup {chunk}
      BY <1>4, <2>1
    <3> HIDE DEF chunk
    <3> QED
      BY <1>1, <1>2, <2>1, <3>1 DEF Filling
  <2>2. CASE o # s
    <3>1. 1..pos'[o] = 1..pos[o]
      BY <1>4, <2>2
    <3> QED
      BY <1>1, <1>2, <2>2, <3>1 DEF Filling
  <2> QED
    BY <2>1, <2>2
<1>6. \A m \in Models : dest[m] = Media!Whole => dest'[m] = Media!Whole
  BY <1>2, <1>3
<1>7. \A m \in Models : Media!Writing(m)' => Media!Writing(m)
  BY <1>1 DEF Media!Writing
<1> QED
  BY <1>1, <1>5, <1>6, <1>7 DEF FilesFill, DestFills, PartFills

(* The task that moves .part is the one it still fills by, and the file is *)
(* whole, or another task fills it on under its new name.                  *)
LEMMA FillsReplace ==
  ASSUME MediaOK, FilesFill, NEW s \in Syncs, Media!Replace(s)
  PROVE  FilesFill'
<1> DEFINE at == cur[s]
<1>1. /\ fd[s] # "none" /\ at \in Models /\ pos[s] = Chunks /\ partThere[at]
      /\ dest' = [dest EXCEPT ![at] = part[at]]
      /\ destThere' = [destThere EXCEPT ![at] = TRUE]
      /\ partThere' = [partThere EXCEPT ![at] = FALSE]
      /\ cur' = [cur EXCEPT ![s] = None]
      /\ UNCHANGED <<pos, part, shared>>
  BY DEF Media!Replace, Media!Leave, MediaOK, OpenIsThere, Media!TypeOK, Media!faults
<1>2. \A o \in Syncs : fd'[o] = IF o = s THEN "none"
                                ELSE IF cur[o] = at /\ fd[o] = "part" THEN "dest"
                                ELSE IF cur[o] = at /\ fd[o] = "dest" THEN "gone" ELSE fd[o]
  BY DEF Media!Replace, Media!Renamed
<1>3. /\ dest \in [Models -> SUBSET Media!Whole] /\ part \in [Models -> SUBSET Media!Whole]
      /\ destThere \in [Models -> BOOLEAN] /\ partThere \in [Models -> BOOLEAN]
      /\ cur \in [Syncs -> Models \cup {None}]
  BY DEF MediaOK, Media!TypeOK
<1>4. \A o \in Syncs \ {s} : cur'[o] = cur[o]
  BY <1>1, <1>3
<1>5. ASSUME NEW m \in Models \ shared PROVE DestFills(m)' /\ PartFills(m)'
  <2>1. CASE m = at
    <3>1. Media!Writing(m)
      BY <1>1, <2>1 DEF Media!Writing
    <3>2. PICK o \in Syncs : Filling(o, m, "part", part[m])
      BY <1>1, <1>5, <2>1, <3>1 DEF FilesFill, PartFills
    <3>3. dest'[m] = part[m] /\ ~partThere'[m]
      BY <1>1, <1>3, <2>1
    <3>4. CASE o = s
      <4>1. part[m] \subseteq Media!Whole /\ Media!Whole \subseteq part[m]
        BY <1>1, <1>3, <3>2, <3>4 DEF Filling, Media!Whole
      <4> QED
        BY <3>3, <4>1 DEF DestFills, PartFills
    <3>5. CASE o # s
      <4>1. cur'[o] = m /\ fd'[o] = "dest" /\ pos'[o] = pos[o]
        BY <1>1, <1>2, <1>4, <2>1, <3>2, <3>5 DEF Filling
      <4>2. Filling(o, m, "dest", dest[m])'
        BY <3>2, <3>3, <4>1 DEF Filling
      <4> QED
        BY <3>3, <4>2 DEF DestFills, PartFills
    <3> QED
      BY <3>4, <3>5
  <2>2. CASE m # at
    <3>1. dest'[m] = dest[m] /\ destThere'[m] = destThere[m] /\ partThere'[m] = partThere[m]
      BY <1>1, <1>3, <2>2
    <3>2. \A o \in Syncs : cur[o] = m => o # s /\ cur'[o] = m /\ fd'[o] = fd[o]
      BY <1>2, <1>4, <2>2
    <3>3. Media!Writing(m)' => Media!Writing(m)
      BY <1>1, <1>2, <1>3, <1>4, <2>2 DEF Media!Writing
    <3>4. \A o \in Syncs : /\ Filling(o, m, "dest", dest[m]) => Filling(o, m, "dest", dest[m])'
                           /\ Filling(o, m, "part", part[m]) => Filling(o, m, "part", part[m])'
      BY <1>1, <3>1, <3>2 DEF Filling
    <3> QED
      BY <1>5, <3>1, <3>3, <3>4 DEF FilesFill, DestFills, PartFills
  <2> QED
    BY <2>1, <2>2
<1> QED
  BY <1>1, <1>5 DEF FilesFill

(* A task that gives up removes .part; the file in place loses nobody who  *)
(* fills it.                                                               *)
LEMMA FillsClean ==
  ASSUME MediaOK, FilesFill, NEW s \in Syncs, cur[s] \in Models, Media!Clean(s), shared \subseteq shared',
         cur[s] \notin shared' =>
           \/ pos[s] = Chunks
           \/ fd[s] # "dest" /\ \A o \in Syncs \ {s} : cur[o] = cur[s] => fd[o] = "none"
  PROVE  FilesFill'
<1> DEFINE at == cur[s]
<1>1. /\ partThere' = [partThere EXCEPT ![at] = FALSE]
      /\ cur' = [cur EXCEPT ![s] = None]
      /\ UNCHANGED <<pos, part, dest, destThere>>
  BY DEF Media!Clean, Media!Leave
<1>2. \A o \in Syncs : fd'[o] = IF o = s THEN "none"
                                ELSE IF cur[o] = at /\ fd[o] = "part" THEN "gone"
                                ELSE IF cur[o] = at /\ fd[o] = "dest" THEN "dest" ELSE fd[o]
  BY DEF Media!Clean, Media!Renamed
<1>3. partThere \in [Models -> BOOLEAN] /\ cur \in [Syncs -> Models \cup {None}]
  BY DEF MediaOK, Media!TypeOK
<1>4. \A o \in Syncs \ {s} : cur'[o] = cur[o]
  BY <1>1, <1>3
<1>5. ASSUME NEW m \in Models \ shared' PROVE DestFills(m)' /\ PartFills(m)'
  <2>1. CASE m = at
    <3>1. ~partThere'[m]
      BY <1>1, <1>3, <2>1
    <3>2. CASE destThere[m] /\ dest[m] # Media!Whole
      <4>1. PICK o \in Syncs : Filling(o, m, "dest", dest[m])
        BY <1>5, <3>2 DEF FilesFill, DestFills
      <4>2. o # s
        BY <1>5, <2>1, <3>2, <4>1, FilledIsWhole DEF Filling
      <4>3. Filling(o, m, "dest", dest[m])'
        BY <1>1, <1>2, <1>4, <2>1, <4>1, <4>2 DEF Filling
      <4> QED
        BY <3>1, <4>3 DEF DestFills, PartFills
    <3>3. CASE ~(destThere[m] /\ dest[m] # Media!Whole)
      BY <1>1, <3>1, <3>3 DEF DestFills, PartFills
    <3> QED
      BY <3>2, <3>3
  <2>2. CASE m # at
    <3>1. partThere'[m] = partThere[m]
      BY <1>1, <1>3, <2>2
    <3>2. \A o \in Syncs : cur[o] = m => o # s /\ cur'[o] = m /\ fd'[o] = fd[o]
      BY <1>2, <1>4, <2>2
    <3>3. Media!Writing(m)' => Media!Writing(m)
      BY <1>1, <1>2, <1>3, <1>4, <2>2 DEF Media!Writing
    <3>4. \A o \in Syncs : /\ Filling(o, m, "dest", dest[m]) => Filling(o, m, "dest", dest[m])'
                           /\ Filling(o, m, "part", part[m]) => Filling(o, m, "part", part[m])'
      BY <1>1, <3>1, <3>2 DEF Filling
    <3> QED
      BY <1>1, <1>5, <3>1, <3>3, <3>4 DEF FilesFill, DestFills, PartFills
  <2> QED
    BY <2>1, <2>2
<1> QED
  BY <1>5 DEF FilesFill

(* After a restart nothing is open.                                        *)
LEMMA FillsRestart ==
  ASSUME MediaOK, FilesFill, Media!Restart
  PROVE  FilesFill'
<1> DEFINE moved == {cur[s] : s \in {o \in Syncs : fd[o] = "dest"}}
<1>1. shared' = shared \cup moved /\ UNCHANGED <<pos, part, partThere, dest, destThere>>
  BY Zenon DEF Media!Restart, Media!files
<1>2. \A s \in Syncs : fd'[s] = "none"
  BY DEF Media!Restart
<1>3. \A m \in Models : ~Media!Writing(m)'
  BY <1>2 DEF Media!Writing
<1>4. ASSUME NEW m \in Models \ shared' PROVE DestFills(m)'
  <2>1. \A s \in Syncs : ~Filling(s, m, "dest", dest[m])
    BY <1>1, <1>4 DEF Filling
  <2> QED
    BY <1>1, <1>4, <2>1 DEF FilesFill, DestFills
<1> QED
  BY <1>3, <1>4 DEF FilesFill, PartFills

LEMMA FillsStep == MediaOK /\ FilesFill /\ [Media!Next]_(Media!vars) => FilesFill'
<1> SUFFICES ASSUME MediaOK, FilesFill, [Media!Next]_(Media!vars) PROVE FilesFill'
  OBVIOUS
<1>1. ASSUME NEW models \in SUBSET Models, Media!Queue(models) PROVE FilesFill'
  BY <1>1, FillsKept DEF Media!Queue, Media!tasks, Media!files, Media!faults
<1>2. CASE Media!Heartbeat \/ Media!AnswerLost \/ Media!HearAny
  BY <1>2, FillsKept DEF Media!Heartbeat, Media!AnswerLost, Media!HearAny, Media!HearNone,
     Media!HearUnset, Media!HearModels, Media!tasks, Media!files, Media!faults
<1>3. CASE Media!Restart
  BY <1>3, FillsRestart
<1>4. ASSUME NEW s \in Syncs, NEW m \in Models, Media!Skip(s, m) \/ Media!MkdirFails(s, m)
      PROVE  FilesFill'
  BY <1>4, FillsKept DEF Media!Skip, Media!MkdirFails, Media!files, Media!faults
<1>5. ASSUME NEW s \in Syncs, NEW m \in Models, Media!Connect(s, m) PROVE FilesFill'
  BY <1>5, FillsConnect
<1>6. ASSUME NEW s \in Syncs, Media!Open(s) \/ Media!Write(s) \/ Media!Replace(s) PROVE FilesFill'
  BY <1>6, FillsOpen, FillsWrite, FillsReplace
<1>7. ASSUME NEW s \in Syncs, Media!ReplaceFails(s) \/ Media!DownloadFails(s) PROVE FilesFill'
  <2>1. Media!Clean(s) /\ cur[s] \in Models
    BY <1>7 DEF Media!ReplaceFails, Media!DownloadFails, MediaOK, OpenIsThere, Media!TypeOK
  <2>2. CASE Media!ReplaceFails(s)
    BY <2>1, <2>2, FillsClean DEF Media!ReplaceFails, Media!faults
  <2>3. CASE Media!DownloadFails(s)
    BY <2>1, <2>3, FillsClean DEF Media!DownloadFails
  <2> QED
    BY <1>7, <2>2, <2>3
<1>8. CASE UNCHANGED Media!vars
  BY <1>8, FillsKept DEF Media!vars
<1> QED
  BY <1>1, <1>2, <1>3, <1>4, <1>5, <1>6, <1>7, <1>8 DEF Media!Next, Media!Sync

(* However many tasks share a .part and however the heartbeats and the     *)
(* restarts fall, a model that nobody writes any more is whole, unless a   *)
(* download failed beside another (agent.py lines 1280-1300).              *)
THEOREM PresentIsWholeHolds == PushesSpec => []PresentIsWhole
<1>1. Media!Init => FilesFill
  BY DEF Media!Init, FilesFill, DestFills, PartFills
<1>2. FilesFill => PresentIsWhole
  BY DEF FilesFill, DestFills, Filling, PresentIsWhole, Media!PresentIsWhole, Media!Writing
<1>3. PushesInit => Media!Init
  BY DEF PushesInit
<1> QED
  BY <1>1, <1>2, <1>3, MediaInit, MediaStep, FillsStep, PushesStepIsMediaStep, PTL DEF PushesSpec
=============================================================================
