----------------------------- MODULE FillSlices -------------------------------
(***************************************************************************)
(* The fill handlers: gpu_mining_fill, p2pool_fill and synthetic_heat_fill *)
(* (hadcd_workloads).  Each starts processes that heat, watches them until *)
(* its deadline and must leave none behind.  The GPU handler also looks,   *)
(* with nvidia-smi, whether anybody else computes on the card, and stops   *)
(* its miner with SIGSTOP meanwhile.  The workers of a CPU burn are one    *)
(* process here.                                                           *)
(***************************************************************************)
CONSTANT Slices

VARIABLES
  slice,         \* where the handler of each slice is
  kind,          \* which of the three handlers it is
  proc,          \* the process it started
  guests         \* somebody else computes on the GPU: a user's program, a container

sliceVars == <<slice, kind, proc, guests>>

Kinds == {"gpu", "cpu", "burn"}
Points == {"idle", "launching", "sleeping", "taken", "clear", "checking",
           "ending", "waiting", "logging", "over", "raised", "dead"}

SliceTypeOK ==
  /\ slice \in [Slices -> Points]
  /\ kind \in [Slices -> Kinds]
  /\ proc \in [Slices -> {"none", "mining", "paused", "gone"}]
  /\ guests \in BOOLEAN

SliceInit ==
  /\ slice = [s \in Slices |-> "idle"]
  /\ kind = [s \in Slices |-> "gpu"]
  /\ proc = [s \in Slices |-> "none"]
  /\ guests = FALSE

Alive(s) == proc[s] \in {"mining", "paused"}

(* A miner that is stopped keeps its memory on the card, and its line in   *)
(* the list of nvidia-smi.                                                 *)
OthersOnGpu(s) ==
  guests \/ \E u \in Slices \ {s} : kind[u] = "gpu" /\ Alive(u)

At(s, from, to) == slice[s] = from /\ slice' = [slice EXCEPT ![s] = to]

-----------------------------------------------------------------------------
Start(s) ==
  /\ At(s, "idle", "launching")
  /\ \E k \in Kinds : kind' = [kind EXCEPT ![s] = k]
  /\ UNCHANGED <<proc, guests>>

(* A miner that is not configured or not installed: the handler returns.   *)
Skip(s) ==
  /\ kind[s] # "burn"
  /\ At(s, "launching", "over")
  /\ UNCHANGED <<kind, proc, guests>>

(* A slice without a duration has no round. *)
Launch(s) ==
  /\ At(s, "launching", "sleeping") \/ At(s, "launching", "ending")
  /\ proc' = [proc EXCEPT ![s] = "mining"]
  /\ UNCHANGED <<kind, guests>>

(* The processes of a burn are started one by one, before the try.         *)
LaunchFails(s) ==
  /\ At(s, "launching", "raised")
  /\ \/ UNCHANGED proc
     \/ kind[s] = "burn" /\ proc' = [proc EXCEPT ![s] = "mining"]
  /\ UNCHANGED <<kind, guests>>

-----------------------------------------------------------------------------
(* One round: sleep, look, act on what was seen, see whether the miner is  *)
(* still there.  A burn only sleeps.                                       *)

(* nvidia-smi fails or hangs: an empty list. *)
LookFails(s) ==
  /\ kind[s] = "gpu"
  /\ At(s, "sleeping", "clear")
  /\ UNCHANGED <<kind, proc, guests>>

Look(s) ==
  /\ kind[s] = "gpu"
  /\ At(s, "sleeping", IF OthersOnGpu(s) THEN "taken" ELSE "clear")
  /\ UNCHANGED <<kind, proc, guests>>

Wake(s) ==
  /\ \/ kind[s] = "cpu" /\ At(s, "sleeping", "checking")
     \/ kind[s] = "burn" /\ At(s, "sleeping", "ending")
  /\ UNCHANGED <<kind, proc, guests>>

Suspend(s) ==
  /\ At(s, "taken", "checking")
  /\ proc' = [proc EXCEPT ![s] = IF @ = "mining" THEN "paused" ELSE @]
  /\ UNCHANGED <<kind, guests>>

Resume(s) ==
  /\ At(s, "clear", "checking")
  /\ proc' = [proc EXCEPT ![s] = IF @ = "paused" THEN "mining" ELSE @]
  /\ UNCHANGED <<kind, guests>>

FindsItGone(s) ==
  /\ proc[s] = "gone"
  /\ At(s, "checking", "logging")
  /\ UNCHANGED <<kind, proc, guests>>

Again(s) ==
  /\ proc[s] # "gone"
  /\ At(s, "checking", "sleeping")
  /\ UNCHANGED <<kind, proc, guests>>

TimeIsUp(s) ==
  /\ proc[s] # "gone"
  /\ At(s, "checking", "ending")
  /\ UNCHANGED <<kind, proc, guests>>

-----------------------------------------------------------------------------
(* The end of the slice. *)

Terminate(s) ==
  /\ At(s, "ending", IF proc[s] = "gone" THEN "logging" ELSE "waiting")
  /\ UNCHANGED <<kind, proc, guests>>

WaitEnds(s) ==
  /\ proc[s] = "gone"
  /\ At(s, "waiting", "logging")
  /\ UNCHANGED <<kind, proc, guests>>

(* Mutation: the wait times out, and the slice is over. *)
NoKill(s) ==
  /\ Alive(s)
  /\ At(s, "waiting", "logging")
  /\ UNCHANGED <<kind, proc, guests>>

(* Ten seconds for a miner, five for a burn. *)
Kill(s) ==
  /\ Alive(s)
  /\ At(s, "waiting", "logging")
  /\ proc' = [proc EXCEPT ![s] = "gone"]
  /\ UNCHANGED <<kind, guests>>

(* The line of the session log: a full disk raises.  So does the sleep of  *)
(* a round that begins as the deadline passes, for a time below zero; its  *)
(* exception leaves the handler here too, after the miner has been ended.  *)
Log(s) ==
  /\ At(s, "logging", "over") \/ At(s, "logging", "raised")
  /\ UNCHANGED <<kind, proc, guests>>

(* The miner ends, on its own or because it was told to; a stopped one     *)
(* does not hear of it.                                                    *)
Exits(s) ==
  /\ proc[s] = "mining"
  /\ proc' = [proc EXCEPT ![s] = "gone"]
  /\ UNCHANGED <<slice, kind, guests>>

-----------------------------------------------------------------------------
(* The rest of the machine. *)

GuestsCome == ~guests /\ guests' = TRUE /\ UNCHANGED <<slice, kind, proc>>
GuestsGo == guests /\ guests' = FALSE /\ UNCHANGED <<slice, kind, proc>>

Running(s) == slice[s] \notin {"idle", "over", "raised", "dead"}

(* The worker processes of these slices die: what they had started goes on.*)
Die(dying) ==
  /\ slice' = [s \in Slices |-> IF s \in dying THEN "dead" ELSE slice[s]]
  /\ UNCHANGED <<kind, proc, guests>>

(* systemd ends the agent's control group. *)
Reap ==
  /\ \E s \in Slices : Running(s) \/ Alive(s)
  /\ slice' = [s \in Slices |-> IF Running(s) THEN "dead" ELSE slice[s]]
  /\ proc' = [s \in Slices |-> IF Alive(s) THEN "gone" ELSE proc[s]]
  /\ UNCHANGED <<kind, guests>>

SliceStep(s) ==
  \/ Skip(s) \/ Launch(s) \/ LaunchFails(s)
  \/ Look(s) \/ LookFails(s) \/ Wake(s) \/ Suspend(s) \/ Resume(s)
  \/ FindsItGone(s) \/ Again(s) \/ TimeIsUp(s)
  \/ Terminate(s) \/ WaitEnds(s) \/ Kill(s) \/ Log(s)

SliceNext == (\E s \in Slices : SliceStep(s) \/ Exits(s)) \/ GuestsCome \/ GuestsGo
=============================================================================
