---------------------------- MODULE HeartbeatPushes ----------------------------
(***************************************************************************)
(* The two things a backend pushes through heartbeats, composed: settings  *)
(* (RemoteConfig, extended) and media models (MediaSync, an instance).     *)
(* One heartbeat carries both acknowledgements, its answer both pushes;    *)
(* answers are lost together, and the restart that puts settings into      *)
(* effect ends the tasks that fetch models.                                *)
(***************************************************************************)
EXTENDS RemoteConfig, FiniteSets

CONSTANTS Models, Syncs, Chunks, MaxQueued, None   \* of MediaSync

ASSUME MediaAssumption ==
  /\ None \notin Models
  /\ Chunks \in Nat \ {0} /\ MaxQueued \in Nat

VARIABLES
  configured, queue, shown, queued, named, flag, todo, cur, fd, pos,
  part, partThere, dest, destThere, missed, shared   \* of MediaSync

Media == INSTANCE MediaSync WITH delivered <- shown

mediaVars == <<configured, queue, shown, queued, named, flag, todo, cur, fd, pos,
               part, partThere, dest, destThere, missed, shared>>
allVars == <<vars, mediaVars>>

PushesTypeOK == TypeOK /\ Media!TypeOK

PushesInit == Init /\ Media!Init

SendHeartbeat == Heartbeat /\ Media!Heartbeat
LoseAnswer == AnswerLost /\ Media!AnswerLost
TakeConfig == HearConfig /\ Media!HearAny
TakeCleared == HearCleared /\ Media!HearAny
TakeNothing == HearNothing /\ Media!HearAny
RestartForConfig == DoRestart /\ Media!Restart
CrashAll == Crash /\ Media!Restart
StartAgain == SystemdStarts /\ UNCHANGED mediaVars

PushConfig == Push /\ UNCHANGED mediaVars
QueueModels == (\E models \in SUBSET Models : Media!Queue(models)) /\ UNCHANGED vars
Sync(s) == Media!Sync(s) /\ UNCHANGED vars

PushesNext ==
  \/ PushConfig \/ QueueModels \/ SendHeartbeat \/ LoseAnswer
  \/ TakeConfig \/ TakeCleared \/ TakeNothing
  \/ RestartForConfig \/ CrashAll \/ StartAgain
  \/ \E s \in Syncs : Sync(s)

PushesSpec == PushesInit /\ [][PushesNext]_allVars

(* Heartbeats go on, some answers arrive, timers fire, systemd restarts    *)
(* what has ended, tasks get on.                                           *)
PushesFairSpec ==
  /\ PushesSpec
  /\ WF_allVars(SendHeartbeat) /\ WF_allVars(RestartForConfig) /\ WF_allVars(StartAgain)
  /\ SF_allVars(TakeConfig) /\ SF_allVars(TakeCleared) /\ SF_allVars(TakeNothing)
  /\ \A s \in Syncs : WF_allVars(Sync(s))

-----------------------------------------------------------------------------
(* A model that is there and that nobody writes is whole, so that the next *)
(* sync may skip it, unless a download failed, or was cut off, whose .part *)
(* another task had open too, or had put in place (agent.py 1280-1300).    *)
PresentIsWhole == Media!PresentIsWhole

(* If its downloads do not fail, have a directory to go to and are not cut *)
(* off, also by the restart for new settings, whatever is queued arrives   *)
(* whole and stays (agent.py 499-510, 1252-1300).                          *)
ModelsArrive == Media!ModelsArrive
=============================================================================
