---------------------------- MODULE HeatOverride -----------------------------
(***************************************************************************)
(* The vacancy switch of a room (agent.py _apply_heat_override, state.py): *)
(* on vacancy the agent remembers the thermostat's setpoint, in memory and *)
(* in its state file, and lowers it; on re-opening it writes it back.  The *)
(* thermostat is read and written over the network, the heartbeat loop     *)
(* awaits each call, the demand loop runs beside it, and the agent may     *)
(* crash between any two steps.                                            *)
(***************************************************************************)
EXTENDS Naturals

CONSTANTS
  Comforts,      \* setpoints people choose
  Setback,       \* the setback temperature
  None,          \* no setpoint
  MaxCrashes     \* bound: crashes of the agent

ASSUME SetpointAssumption == Setback \notin Comforts /\ None \notin Comforts \cup {Setback}
ASSUME CrashAssumption == MaxCrashes \in Nat

VARIABLES
  vacant,        \* the building manager's switch, at the dispatcher
  setpoint,      \* the thermostat's setpoint
  comfort,       \* what the people in the room last chose
  calling,       \* the thermostat calls for heat
  overrideActive, \* _heat_override_active
  saved,         \* state.saved_setpoint_c
  savedOnDisk,   \* the same in the state file
  pc,            \* where _apply_heat_override awaits
  seen,          \* demand loop: the reading it has just taken
  needsHeat,     \* _needs_heat, as the next heartbeat will report it
  faults,        \* which of reading, writing and saving have ever failed
  crashes        \* how often the agent crashed

vars == <<vacant, setpoint, comfort, calling, overrideActive, saved, savedOnDisk,
          pc, seen, needsHeat, faults, crashes>>
room == <<vacant, comfort, calling>>
demand == <<seen, needsHeat>>

FaultKinds == {"read", "write", "save"}
Setpoints == Comforts \cup {Setback}

TypeOK ==
  /\ vacant \in BOOLEAN /\ calling \in BOOLEAN
  /\ setpoint \in Setpoints
  /\ comfort \in Comforts
  /\ overrideActive \in BOOLEAN
  /\ saved \in Setpoints \cup {None}
  /\ savedOnDisk \in Setpoints \cup {None}
  /\ pc \in {"idle", "reading", "lowering", "restoring", "clearing"}
  /\ seen \in BOOLEAN /\ needsHeat \in BOOLEAN
  /\ faults \subseteq FaultKinds
  /\ crashes \in 0..MaxCrashes

Init ==
  /\ vacant = FALSE /\ calling = FALSE
  /\ comfort \in Comforts
  /\ setpoint = comfort
  /\ overrideActive = FALSE
  /\ saved = None /\ savedOnDisk = None
  /\ pc = "idle"
  /\ seen = FALSE /\ needsHeat = FALSE
  /\ faults = {} /\ crashes = 0

-----------------------------------------------------------------------------
(* The building and its people (external).                                 *)

MarkVacant ==
  /\ ~vacant /\ vacant' = TRUE
  /\ UNCHANGED <<setpoint, comfort, calling, overrideActive, saved, savedOnDisk, pc, demand, faults, crashes>>

Reopen ==
  /\ vacant /\ vacant' = FALSE
  /\ UNCHANGED <<setpoint, comfort, calling, overrideActive, saved, savedOnDisk, pc, demand, faults, crashes>>

(* People turn the dial of a room that is theirs again. *)
PersonSets(c) ==
  /\ ~vacant /\ ~overrideActive /\ pc = "idle"
  /\ setpoint' = c /\ comfort' = c
  /\ UNCHANGED <<vacant, calling, overrideActive, saved, savedOnDisk, pc, demand, faults, crashes>>

RoomTemperatureMoves ==
  /\ calling' = ~calling
  /\ UNCHANGED <<vacant, comfort, setpoint, overrideActive, saved, savedOnDisk, pc, demand, faults, crashes>>

-----------------------------------------------------------------------------
(* _apply_heat_override, on each heartbeat response.                       *)

HearVacant ==
  /\ pc = "idle" /\ vacant /\ ~overrideActive
  /\ overrideActive' = TRUE
  /\ pc' = IF saved = None THEN "reading" ELSE "lowering"
  /\ UNCHANGED <<room, setpoint, saved, savedOnDisk, demand, faults, crashes>>

Fails(kind) == faults' = faults \cup {kind}

(* Mutation: the captured setpoint is not persisted. *)
CaptureInMemory ==
  /\ pc = "reading"
  /\ pc' = "lowering"
  /\ saved' = setpoint
  /\ UNCHANGED <<room, setpoint, savedOnDisk, overrideActive, demand, faults, crashes>>

(* The setpoint is remembered and saved; when the reading or the save      *)
(* fails that is logged and the room is lowered all the same.              *)
Capture ==
  /\ pc = "reading"
  /\ pc' = "lowering"
  /\ \/ saved' = setpoint /\ savedOnDisk' = setpoint /\ UNCHANGED faults
     \/ saved' = setpoint /\ UNCHANGED savedOnDisk /\ Fails("save")
     \/ UNCHANGED <<saved, savedOnDisk>> /\ Fails("read")
  /\ UNCHANGED <<room, setpoint, overrideActive, demand, crashes>>

Write(target) ==
  \/ setpoint' = target /\ UNCHANGED faults
  \/ UNCHANGED setpoint /\ Fails("write")

Lower ==
  /\ pc = "lowering"
  /\ pc' = "idle"
  /\ Write(Setback)
  /\ UNCHANGED <<room, overrideActive, saved, savedOnDisk, demand, crashes>>

HearOpen ==
  /\ pc = "idle" /\ ~vacant /\ overrideActive
  /\ overrideActive' = FALSE
  /\ pc' = IF saved # None THEN "restoring" ELSE "idle"
  /\ UNCHANGED <<room, setpoint, saved, savedOnDisk, demand, faults, crashes>>

Restore ==
  /\ pc = "restoring"
  /\ pc' = "clearing"
  /\ Write(saved)
  /\ UNCHANGED <<room, overrideActive, saved, savedOnDisk, demand, crashes>>

(* Mutation: only the file is cleared. *)
ClearFile ==
  /\ pc = "clearing"
  /\ pc' = "idle"
  /\ savedOnDisk' = None
  /\ UNCHANGED <<room, setpoint, saved, overrideActive, demand, faults, crashes>>

(* Forgotten whether or not the write succeeded. *)
Clear ==
  /\ pc = "clearing"
  /\ pc' = "idle"
  /\ saved' = None
  /\ \/ savedOnDisk' = None /\ UNCHANGED faults
     \/ UNCHANGED savedOnDisk /\ Fails("save")
  /\ UNCHANGED <<room, setpoint, overrideActive, demand, crashes>>

-----------------------------------------------------------------------------
(* _demand_loop: the override is looked at after the reading has arrived.  *)

DemandRead ==
  /\ seen' = calling
  /\ UNCHANGED <<room, setpoint, overrideActive, saved, savedOnDisk, pc, needsHeat, faults, crashes>>

(* Mutation: the demand of a vacant room is not zeroed. *)
DemandReportPlain ==
  /\ needsHeat' = seen
  /\ UNCHANGED <<room, setpoint, overrideActive, saved, savedOnDisk, pc, seen, faults, crashes>>

DemandReport ==
  /\ needsHeat' = (seen /\ ~overrideActive)
  /\ UNCHANGED <<room, setpoint, overrideActive, saved, savedOnDisk, pc, seen, faults, crashes>>

(* The state file is read back; the override starts inactive. *)
Crash ==
  /\ crashes < MaxCrashes
  /\ crashes' = crashes + 1
  /\ overrideActive' = FALSE
  /\ saved' = savedOnDisk
  /\ pc' = "idle"
  /\ seen' = FALSE /\ needsHeat' = FALSE
  /\ UNCHANGED <<room, setpoint, savedOnDisk, faults>>

-----------------------------------------------------------------------------
Hear == HearVacant \/ HearOpen
Apply == Capture \/ Lower \/ Restore \/ Clear

Next ==
  \/ MarkVacant \/ Reopen \/ RoomTemperatureMoves
  \/ \E c \in Comforts : PersonSets(c)
  \/ Hear \/ Apply \/ DemandRead \/ DemandReport \/ Crash

Spec == Init /\ [][Next]_vars

(* Heartbeats and demand ticks keep coming, and awaited calls return. *)
Fairness == WF_vars(Hear) /\ WF_vars(Apply) /\ WF_vars(DemandRead) /\ WF_vars(DemandReport)
FairSpec == Spec /\ Fairness

-----------------------------------------------------------------------------
(* Once the agent has dealt with the re-opening, the room is back at what  *)
(* its people last chose, however often the switch was thrown, unless the  *)
(* thermostat failed or the agent restarted (615-617).                     *)
Restored ==
  crashes = 0 /\ faults \subseteq {"save"} =>
    (~vacant /\ ~overrideActive /\ pc = "idle" => setpoint = comfort)

(* Across crashes the remembered setpoint is never the setback temperature *)
(* itself: a restart in mid-vacancy does not take the lowered setpoint for *)
(* the one to restore (635-642).                                           *)
SavedIsNeverSetback ==
  faults = {} => saved # Setback /\ savedOnDisk # Setback

(* A room that was lowered can be raised again: a setpoint of its people,  *)
(* not the lowered one, is on disk from before the thermostat is touched   *)
(* until after it is restored, wherever the agent crashes (635-656).       *)
LoweredIsRecoverable ==
  faults = {} => (setpoint = Setback => savedOnDisk \in Comforts)

(* A lasting vacancy takes hold, across crashes and failed readings and    *)
(* saves: setpoint down, no heat asked for (619-656, 681-700).             *)
VacancyTakesHold ==
  [](faults \subseteq {"read", "save"}) /\ <>[]vacant => <>[](setpoint = Setback /\ ~needsHeat)

-----------------------------------------------------------------------------
(* Lines 31-34 of state.py promise that a restarted agent still restores   *)
(* the room.  It does not: the override starts inactive, so the heartbeat  *)
(* of a room re-opened during the restart changes nothing.                 *)
RestoredAfterRestart ==
  [](faults = {}) /\ <>[]~vacant => <>[](setpoint # Setback)
=============================================================================
