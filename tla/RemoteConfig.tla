----------------------------- MODULE RemoteConfig -----------------------------
(***************************************************************************)
(* The remote push of settings (agent.py): the backend delivers a pending  *)
(* configuration in heartbeat responses until a heartbeat acknowledges it; *)
(* the agent writes it to agent.env, acknowledges with its next heartbeat, *)
(* and restarts two seconds after a response shows that the backend knows. *)
(***************************************************************************)
EXTENDS Naturals

CONSTANTS
  MaxPushes,     \* bound: configurations the operator pushes
  MaxCrashes     \* bound: crashes of the agent

ASSUME PushAssumption == MaxPushes \in Nat /\ MaxCrashes \in Nat

VARIABLES
  pushed,        \* the last configuration pushed; 0 is the one installed
  pending,       \* backend: the one waiting to be delivered, or 0
  delivered,     \* backend: the one last delivered
  answer,        \* the heartbeat's answer on its way: pending, or NoAnswer
  applied,       \* _pending_config_applied
  env,           \* the configuration in agent.env
  live,          \* the one the process runs with
  restartDue,    \* _do_restart is scheduled
  up,            \* the process runs
  crashes,
  early,         \* history: the last push did not wait for the one before
  unwritten      \* history: the last configuration heard could not be written

vars == <<pushed, pending, delivered, answer, applied, env, live, restartDue, up, crashes,
          early, unwritten>>
backend == <<pushed, pending, delivered, early>>

Configs == 0..MaxPushes
NoAnswer == MaxPushes + 1

TypeOK ==
  /\ pushed \in Configs /\ pending \in Configs /\ delivered \in Configs
  /\ answer \in Configs \cup {NoAnswer}
  /\ applied \in BOOLEAN /\ restartDue \in BOOLEAN /\ up \in BOOLEAN
  /\ env \in Configs /\ live \in Configs
  /\ crashes \in 0..MaxCrashes
  /\ early \in BOOLEAN /\ unwritten \in BOOLEAN

Init ==
  /\ pushed = 0 /\ pending = 0 /\ delivered = 0
  /\ answer = NoAnswer
  /\ applied = FALSE /\ restartDue = FALSE /\ up = TRUE
  /\ env = 0 /\ live = 0
  /\ crashes = 0
  /\ early = FALSE /\ unwritten = FALSE

-----------------------------------------------------------------------------
(* The backend (external); an ack clears what it had delivered, and not a  *)
(* configuration pushed since.                                             *)

Push ==
  /\ pushed < MaxPushes
  /\ pushed' = pushed + 1 /\ pending' = pushed + 1
  /\ early' = (pending # 0 \/ applied)
  /\ UNCHANGED <<delivered, answer, applied, env, live, restartDue, up, crashes, unwritten>>

Heartbeat ==
  /\ up /\ answer = NoAnswer
  /\ pending' = IF applied /\ pending = delivered THEN 0 ELSE pending
  /\ delivered' = pending'
  /\ answer' = pending'
  /\ UNCHANGED <<pushed, applied, env, live, restartDue, up, crashes, early, unwritten>>

AnswerLost ==
  /\ answer # NoAnswer
  /\ answer' = NoAnswer
  /\ UNCHANGED <<backend, applied, env, live, restartDue, up, crashes, unwritten>>

-----------------------------------------------------------------------------
Hear == answer # NoAnswer /\ answer' = NoAnswer /\ UNCHANGED <<backend, live, up, crashes>>

(* Mutation: keys that are not in the file are not appended. *)
HearConfigKnownKeys ==
  /\ Hear /\ answer # 0
  /\ applied' = TRUE /\ unwritten' = FALSE
  /\ UNCHANGED <<env, restartDue>>

(* _apply_pending_config logs what it cannot write; the ack is set all the *)
(* same.                                                                   *)
HearConfig ==
  /\ Hear /\ answer # 0
  /\ applied' = TRUE
  /\ \/ env' = answer /\ unwritten' = FALSE
     \/ env' = env /\ unwritten' = TRUE
  /\ UNCHANGED restartDue

(* Mutation: no restart is scheduled. *)
HearClearedQuietly ==
  /\ Hear /\ answer = 0 /\ applied
  /\ applied' = FALSE
  /\ UNCHANGED <<env, restartDue, unwritten>>

HearCleared ==
  /\ Hear /\ answer = 0 /\ applied
  /\ applied' = FALSE
  /\ restartDue' = TRUE
  /\ UNCHANGED <<env, unwritten>>

HearNothing ==
  /\ Hear /\ answer = 0 /\ ~applied
  /\ UNCHANGED <<applied, env, restartDue, unwritten>>

(* What the process knew and waited for goes with it.                      *)
Forget ==
  /\ applied' = FALSE /\ restartDue' = FALSE
  /\ answer' = NoAnswer
  /\ UNCHANGED <<backend, env, unwritten>>

(* systemd starts a process with what agent.env says then. *)
Fresh == live' = env /\ up' = TRUE /\ Forget

SystemctlRestarts == restartDue /\ Fresh /\ UNCHANGED crashes

(* systemctl failed or took too long.  The process that replaces this one  *)
(* has the old environment and sys.argv, by which it looks for its modules *)
(* inside the package: it ends when it imports them.                       *)
ExecFallback == restartDue /\ up' = FALSE /\ Forget /\ UNCHANGED <<live, crashes>>

DoRestart == SystemctlRestarts \/ ExecFallback

(* The unit restarts it whatever it ended by (external).                   *)
SystemdStarts == ~up /\ Fresh /\ UNCHANGED crashes

Crash == up /\ crashes < MaxCrashes /\ crashes' = crashes + 1 /\ Fresh

-----------------------------------------------------------------------------
HearAny == HearConfig \/ HearCleared \/ HearNothing

Next == Push \/ Heartbeat \/ AnswerLost \/ HearAny \/ DoRestart \/ SystemdStarts \/ Crash

Spec == Init /\ [][Next]_vars

-----------------------------------------------------------------------------
(* What the backend has no longer pending is on disk, whatever answers are *)
(* lost and whenever the agent crashes (lines 457, 486-494), provided that *)
(* it could be written and the operator had waited for the acknowledgement *)
(* of the push before.                                                     *)
AckedIsOnDisk == pending = 0 /\ ~early /\ ~unwritten => env = pushed

(* A pushed configuration takes effect, under the same proviso, whether    *)
(* systemctl restarts the agent or its fallback ends the process, and the  *)
(* agent comes to rest and runs in any case (lines 484-498, 1341-1361).    *)
PushTakesEffect ==
  <>[](/\ up /\ ~restartDue /\ ~applied
       /\ early \/ unwritten \/ live = pushed)
=============================================================================
