------------------------- MODULE HeatOverride_proofs --------------------------
(***************************************************************************)
(* Theorems about the two parts of the agent that keep a secret of the     *)
(* thermostat across restarts: HeatOverride, the setpoint, for any set of  *)
(* comfort setpoints, and EcobeeTokens, the refresh token, for any number  *)
(* of reading loops.                                                       *)
(***************************************************************************)
EXTENDS HeatOverride, EcobeeTokens, TLAPS

Pcs == {"idle", "reading", "lowering", "restoring", "clearing"}

(* Types need one fact more: what is being restored is a setpoint. *)
TInv == TypeOK /\ (pc = "restoring" => saved # None)

LEMMA InitType == Init => TInv
<1> SUFFICES ASSUME Init PROVE TInv
  OBVIOUS
<1> USE SetpointAssumption, CrashAssumption DEF Init, Setpoints
<1>1. vacant \in BOOLEAN /\ calling \in BOOLEAN /\ overrideActive \in BOOLEAN
      /\ seen \in BOOLEAN /\ needsHeat \in BOOLEAN
  OBVIOUS
<1>2. setpoint \in Setpoints /\ comfort \in Comforts /\ saved \in Setpoints \cup {None}
      /\ savedOnDisk \in Setpoints \cup {None} /\ pc \in Pcs
  BY DEF Pcs
<1>3. crashes \in 0..MaxCrashes /\ faults \subseteq FaultKinds
  OBVIOUS
<1> QED
  BY <1>1, <1>2, <1>3 DEF TInv, TypeOK, Pcs

LEMMA StepType == TInv /\ [Next]_vars => TInv'
<1> SUFFICES ASSUME TInv, [Next]_vars PROVE TInv'
  OBVIOUS
<1> USE SetpointAssumption, CrashAssumption
   DEF TInv, TypeOK, Setpoints, FaultKinds, room, demand
<1>1. CASE MarkVacant \/ Reopen \/ RoomTemperatureMoves
  BY <1>1 DEF MarkVacant, Reopen, RoomTemperatureMoves
<1>2. ASSUME NEW c \in Comforts, PersonSets(c) PROVE TInv'
  BY <1>2 DEF PersonSets
<1>3. CASE Hear
  BY <1>3 DEF Hear, HearVacant, HearOpen
<1>4. CASE Capture
  BY <1>4 DEF Capture, Fails
<1>5. CASE Lower
  BY <1>5 DEF Lower, Write, Fails
<1>6. CASE Restore
  BY <1>6 DEF Restore, Write, Fails
<1>7. CASE Clear
  BY <1>7 DEF Clear, Fails
<1>8. CASE DemandRead
  BY <1>8 DEF DemandRead
<1>9. CASE DemandReport
  <2>1. needsHeat' \in BOOLEAN
    BY <1>9, Zenon DEF DemandReport
  <2> QED
    BY <1>9, <2>1 DEF DemandReport
<1>10. CASE Crash
  <2>1. crashes' \in 0..MaxCrashes
    BY <1>10 DEF Crash
  <2>2. needsHeat' \in BOOLEAN /\ seen' \in BOOLEAN /\ overrideActive' \in BOOLEAN
    BY <1>10 DEF Crash
  <2> QED
    BY <1>10, <2>1, <2>2 DEF Crash
<1>11. CASE UNCHANGED vars
  BY <1>11 DEF vars
<1> QED
  BY <1>1, <1>2, <1>3, <1>4, <1>5, <1>6, <1>7, <1>8, <1>9, <1>10, <1>11 DEF Next, Apply

(* Every field of the agent, the thermostat and the state file keeps its   *)
(* type, whatever fails.                                                   *)
THEOREM TypeCorrect == Spec => []TypeOK
<1>1. TInv => TypeOK
  BY DEF TInv
<1> QED
  BY <1>1, InitType, StepType, PTL DEF Spec

-----------------------------------------------------------------------------
(* As long as thermostat and disk work, memory and file agree at every     *)
(* point a crash may hit, and a lowered room has its setpoint in both.     *)
CrashInv ==
  faults = {} =>
    /\ saved = savedOnDisk
    /\ saved # Setback
    /\ setpoint = Setback => saved # None
    /\ pc = "reading" => saved = None
    /\ pc \in {"lowering", "restoring"} => saved # None
    /\ pc = "clearing" => setpoint # Setback

LEMMA CrashInvariance == Spec => []CrashInv
<1>1. Init => CrashInv
  BY SetpointAssumption DEF Init, CrashInv
<1>2. TInv /\ CrashInv /\ [Next]_vars => CrashInv'
  <2> SUFFICES ASSUME TInv, CrashInv, [Next]_vars PROVE CrashInv'
    OBVIOUS
  <2> USE SetpointAssumption, CrashAssumption
     DEF TInv, TypeOK, Setpoints, CrashInv, room, demand
  <2>1. CASE MarkVacant \/ Reopen \/ RoomTemperatureMoves
    BY <2>1 DEF MarkVacant, Reopen, RoomTemperatureMoves
  <2>2. ASSUME NEW c \in Comforts, PersonSets(c) PROVE CrashInv'
    BY <2>2 DEF PersonSets
  <2>3. CASE Hear
    BY <2>3 DEF Hear, HearVacant, HearOpen
  <2>4. CASE Capture
    BY <2>4 DEF Capture, Fails
  <2>5. CASE Lower
    BY <2>5 DEF Lower, Write, Fails
  <2>6. CASE Restore
    BY <2>6 DEF Restore, Write, Fails
  <2>7. CASE Clear
    BY <2>7 DEF Clear, Fails
  <2>8. CASE DemandRead \/ DemandReport
    BY <2>8 DEF DemandRead, DemandReport
  <2>9. CASE Crash
    BY <2>9 DEF Crash
  <2>10. CASE UNCHANGED vars
    BY <2>10 DEF vars
  <2> QED
    BY <2>1, <2>2, <2>3, <2>4, <2>5, <2>6, <2>7, <2>8, <2>9, <2>10 DEF Next, Apply
<1> QED
  BY <1>1, <1>2, InitType, StepType, PTL DEF Spec

(* However often and wherever the agent crashes, the setback temperature   *)
(* is never taken for the setpoint to restore (agent.py 635-642).          *)
THEOREM SavedIsNeverSetbackHolds == Spec => []SavedIsNeverSetback
<1>1. CrashInv => SavedIsNeverSetback
  BY DEF CrashInv, SavedIsNeverSetback
<1> QED
  BY <1>1, CrashInvariance, PTL

(* However often and wherever the agent crashes, a comfort setpoint of a   *)
(* lowered room is on disk.                                                *)
THEOREM LoweredIsRecoverableHolds == Spec => []LoweredIsRecoverable
<1>1. TypeOK /\ CrashInv => LoweredIsRecoverable
  BY DEF TypeOK, Setpoints, CrashInv, LoweredIsRecoverable
<1> QED
  BY <1>1, TypeCorrect, CrashInvariance, PTL

-----------------------------------------------------------------------------
(* Without crashes as well: where the comfort setpoint is, at each await.  *)
ComfortInv ==
  crashes = 0 /\ faults \subseteq {"save"} =>
    /\ saved \in {None, comfort}
    /\ pc = "idle" /\ ~overrideActive => saved = None /\ setpoint = comfort
    /\ pc = "idle" /\ overrideActive => saved = comfort
    /\ pc = "reading" => overrideActive /\ setpoint = comfort
    /\ pc = "lowering" => overrideActive /\ saved = comfort
    /\ pc = "restoring" => ~overrideActive /\ saved = comfort
    /\ pc = "clearing" => ~overrideActive /\ setpoint = comfort

(* In an agent that does not crash, with a thermostat that answers, the    *)
(* room gets back the setpoint its people chose (agent.py 615-617).        *)
THEOREM RestoredHolds == Spec => []Restored
<1>1. Init => ComfortInv
  BY SetpointAssumption DEF Init, ComfortInv
<1>2. TInv /\ ComfortInv /\ [Next]_vars => ComfortInv'
  <2> SUFFICES ASSUME TInv, ComfortInv, [Next]_vars PROVE ComfortInv'
    OBVIOUS
  <2> USE SetpointAssumption, CrashAssumption
     DEF TInv, TypeOK, Setpoints, ComfortInv, room, demand
  <2>1. CASE MarkVacant \/ Reopen \/ RoomTemperatureMoves
    BY <2>1 DEF MarkVacant, Reopen, RoomTemperatureMoves
  <2>2. ASSUME NEW c \in Comforts, PersonSets(c) PROVE ComfortInv'
    BY <2>2 DEF PersonSets
  <2>3. CASE Hear
    BY <2>3 DEF Hear, HearVacant, HearOpen
  <2>4. CASE Capture
    <3>1. CASE Fails("read")
      BY <3>1, <2>4 DEF Fails, Capture
    <3>2. CASE Fails("save") \/ UNCHANGED faults
      <4>1. crashes' = 0 /\ faults' \subseteq {"save"} => crashes = 0 /\ faults \subseteq {"save"}
        BY <3>2, <2>4 DEF Fails, Capture
      <4>2. ~Fails("read") => saved' = setpoint
        BY <2>4 DEF Capture
      <4> QED
        BY <4>1, <4>2, <3>1, <2>4 DEF Capture
    <3> QED
      BY <2>4, <3>1, <3>2 DEF Capture
  <2>5. CASE Lower
    BY <2>5 DEF Lower, Write, Fails
  <2>6. CASE Restore
    <3>1. CASE Fails("write")
      BY <3>1, <2>6 DEF Fails, Restore
    <3>2. CASE setpoint' = saved /\ UNCHANGED faults
      BY <3>2, <2>6 DEF Restore
    <3> QED
      BY <2>6, <3>1, <3>2 DEF Restore, Write
  <2>7. CASE Clear
    BY <2>7 DEF Clear, Fails
  <2>8. CASE DemandRead \/ DemandReport
    BY <2>8 DEF DemandRead, DemandReport
  <2>9. CASE Crash
    BY <2>9 DEF Crash
  <2>10. CASE UNCHANGED vars
    BY <2>10 DEF vars
  <2> QED
    BY <2>1, <2>2, <2>3, <2>4, <2>5, <2>6, <2>7, <2>8, <2>9, <2>10 DEF Next, Apply
<1>3. ComfortInv => Restored
  BY DEF ComfortInv, Restored
<1> QED
  BY <1>1, <1>2, <1>3, InitType, StepType, PTL DEF Spec

-----------------------------------------------------------------------------
(* The tokens of an Ecobee heat source (EcobeeTokens), whose state is its   *)
(* own.                                                                    *)

(* Every variable keeps its type (lines 358-426). *)
THEOREM TokenTypeCorrect == TokenSpec => []TokenTypeOK
<1>1. TokenInit => TokenTypeOK
  <2> SUFFICES ASSUME TokenInit PROVE TokenTypeOK
    OBVIOUS
  <2>1. 0 \in Tokens /\ 0 \in 0..MaxAgentCrashes
    BY TokenAssumption DEF Tokens
  <2> QED
    BY <2>1 DEF TokenInit, TokenTypeOK
<1>2. TokenTypeOK /\ [TokenNext]_tokenVars => TokenTypeOK'
  <2> SUFFICES ASSUME TokenTypeOK, [TokenNext]_tokenVars PROVE TokenTypeOK'
    OBVIOUS
  <2> USE DEF TokenTypeOK, tokenFaults
  <2>1. CASE AccessExpires
    BY <2>1 DEF AccessExpires, call, tokenFaults
  <2>2. CASE AgentCrashes
    <3>1. agentCrashes' \in 0..MaxAgentCrashes
      BY <2>2, TokenAssumption DEF AgentCrashes
    <3> QED
      BY <2>2, <3>1 DEF AgentCrashes, ComesBack, call
  <2>3. CASE UNCHANGED tokenVars
    BY <2>3 DEF tokenVars
  <2>4. ASSUME NEW c \in Callers, Read(c) PROVE TokenTypeOK'
    <3> USE DEF Go, Return, call
    <3>1. CASE ReadCached(c)
      BY <3>1 DEF ReadCached
    <3>2. CASE ReadRefreshes(c)
      BY <3>2 DEF ReadRefreshes
    <3>3. CASE Adopt(c)
      BY <3>3 DEF Adopt
    <3>4. CASE PersistRaises(c)
      BY <3>4 DEF PersistRaises
    <3>5. CASE RefreshFails(c)
      BY <3>5 DEF RefreshFails
    <3> QED
      BY <2>4, <3>1, <3>2, <3>3, <3>4, <3>5 DEF Read
  <2>5. ASSUME NEW c \in Callers, Rotate(c) PROVE TokenTypeOK'
    <3>1. valid + 1 \in Tokens
      BY <2>5, TokenAssumption DEF Rotate, Tokens
    <3> QED
      BY <2>5, <3>1 DEF Rotate, Go
  <2>6. ASSUME NEW c \in Callers, Reads(c) \/ ReadFails(c) PROVE TokenTypeOK'
    BY <2>6 DEF Reads, ReadFails, Go, Return, call
  <2>7. ASSUME NEW c \in Callers, Reject(c) \/ AnswerIsLost(c) PROVE TokenTypeOK'
    BY <2>7 DEF Reject, AnswerIsLost, Go, call
  <2>8. CASE AgentEnds
    BY <2>8 DEF AgentEnds, ComesBack, call
  <2> QED
    BY <2>1, <2>2, <2>3, <2>4, <2>5, <2>6, <2>7, <2>8 DEF TokenNext
<1> QED
  BY <1>1, <1>2, PTL DEF TokenSpec

-----------------------------------------------------------------------------
(* The order of the tokens.  An answer on its way holds the newest one,    *)
(* which is ahead of memory; so nobody who posts can be accepted until it  *)
(* is adopted or lost, and there is only one.                              *)
Ordered ==
  /\ disk <= memory /\ memory <= valid
  /\ \A c \in Callers : at[c] = "posting" => sent[c] <= memory
  /\ \A c \in Callers : at[c] = "answered" => got[c] = valid /\ memory < valid
  /\ \A c, d \in Callers : at[c] = "answered" /\ at[d] = "answered" => c = d

LEMMA OrderedInit == TokenInit => Ordered
  BY DEF TokenInit, Ordered

LEMMA OrderedStep == TokenTypeOK /\ Ordered /\ [TokenNext]_tokenVars => Ordered'
<1> SUFFICES ASSUME TokenTypeOK, Ordered, [TokenNext]_tokenVars PROVE Ordered'
  OBVIOUS
<1> USE TokenAssumption DEF TokenTypeOK, Tokens, Ordered, tokenFaults
<1>1. CASE AccessExpires
  BY <1>1 DEF AccessExpires, call, tokenFaults
<1>2. CASE AgentCrashes \/ AgentEnds
  BY <1>2 DEF AgentCrashes, AgentEnds, ComesBack, call
<1>3. CASE UNCHANGED tokenVars
  BY <1>3 DEF tokenVars
<1>4. ASSUME NEW c \in Callers, Read(c) PROVE Ordered'
  <2> USE DEF Go, Return, call
  <2>1. CASE ReadCached(c)
    BY <2>1 DEF ReadCached
  <2>2. CASE ReadRefreshes(c)
    BY <2>2 DEF ReadRefreshes
  <2>3. CASE Adopt(c)
    BY <2>3 DEF Adopt
  <2>4. CASE PersistRaises(c)
    BY <2>4 DEF PersistRaises
  <2>5. CASE RefreshFails(c)
    BY <2>5 DEF RefreshFails
  <2> QED
    BY <1>4, <2>1, <2>2, <2>3, <2>4, <2>5 DEF Read
<1>5. ASSUME NEW c \in Callers, Rotate(c) PROVE Ordered'
  <2>1. \A d \in Callers : at[d] # "answered"
    BY <1>5 DEF Rotate
  <2>2. valid' = valid + 1 /\ got'[c] = valid + 1
    BY <1>5 DEF Rotate
  <2> QED
    BY <1>5, <2>1, <2>2 DEF Rotate, Go
<1>6. ASSUME NEW c \in Callers, Reads(c) \/ ReadFails(c) PROVE Ordered'
  BY <1>6 DEF Reads, ReadFails, Go, Return, call
<1>7. ASSUME NEW c \in Callers, Reject(c) \/ AnswerIsLost(c) PROVE Ordered'
  BY <1>7 DEF Reject, AnswerIsLost, Go, call
<1> QED
  BY <1>1, <1>2, <1>3, <1>4, <1>5, <1>6, <1>7 DEF TokenNext

LEMMA OrderedHolds == TokenSpec => []Ordered
  BY OrderedInit, OrderedStep, TokenTypeCorrect, PTL DEF TokenSpec

(* No step but a restart puts an older token over a newer one, whatever is *)
(* lost or cannot be written.                                              *)
THEOREM NewestIsKeptHolds == TokenSpec => NewestIsKept
<1> DEFINE Kept == /\ disk' >= disk
                   /\ memory' >= memory \/ ComesBack
<1>1. TokenTypeOK /\ Ordered /\ [TokenNext]_tokenVars => [Kept]_tokenVars
  <2> SUFFICES ASSUME TokenTypeOK, Ordered, TokenNext PROVE Kept
    OBVIOUS
  <2> USE TokenAssumption DEF TokenTypeOK, Tokens, Ordered, tokenFaults
  <2>1. CASE AccessExpires
    BY <2>1 DEF AccessExpires
  <2>2. CASE AgentCrashes \/ AgentEnds
    <3>1. ComesBack /\ disk' = disk
      BY <2>2 DEF AgentCrashes, AgentEnds, ComesBack
    <3> QED
      BY <3>1
  <2>3. ASSUME NEW c \in Callers, Adopt(c) \/ PersistRaises(c) PROVE Kept
    BY <2>3 DEF Adopt, PersistRaises
  <2>4. ASSUME NEW c \in Callers, ReadCached(c) \/ ReadRefreshes(c) \/ RefreshFails(c) PROVE Kept
    BY <2>4 DEF ReadCached, ReadRefreshes, RefreshFails
  <2>5. ASSUME NEW c \in Callers,
               Reads(c) \/ ReadFails(c) \/ Rotate(c) \/ Reject(c) \/ AnswerIsLost(c)
        PROVE  Kept
    BY <2>5 DEF Reads, ReadFails, Rotate, Reject, AnswerIsLost
  <2> QED
    BY <2>1, <2>2, <2>3, <2>4, <2>5 DEF TokenNext, Read
<1> QED
  BY <1>1, OrderedHolds, TokenTypeCorrect, PTL DEF TokenSpec, NewestIsKept

-----------------------------------------------------------------------------
(* A token that was saved is the one in memory. *)
TokenSaved == ~unsaved => disk = memory

LEMMA TokenSavedHolds == TokenSpec => []TokenSaved
<1>1. TokenInit => TokenSaved
  BY DEF TokenInit, TokenSaved
<1>2. TokenSaved /\ [TokenNext]_tokenVars => TokenSaved'
  <2> SUFFICES ASSUME TokenSaved, [TokenNext]_tokenVars PROVE TokenSaved'
    OBVIOUS
  <2> USE DEF TokenSaved, tokenFaults
  <2>1. ASSUME NEW c \in Callers, Read(c) PROVE TokenSaved'
    BY <2>1 DEF Read, ReadCached, ReadRefreshes, Adopt, PersistRaises, RefreshFails
  <2>2. ASSUME NEW c \in Callers,
               Reads(c) \/ ReadFails(c) \/ Rotate(c) \/ Reject(c) \/ AnswerIsLost(c)
        PROVE  TokenSaved'
    BY <2>2 DEF Reads, ReadFails, Rotate, Reject, AnswerIsLost
  <2>3. CASE AccessExpires \/ AgentCrashes \/ AgentEnds \/ UNCHANGED tokenVars
    BY <2>3 DEF AccessExpires, AgentCrashes, AgentEnds, ComesBack, tokenVars
  <2> QED
    BY <2>1, <2>2, <2>3 DEF TokenNext
<1> QED
  BY <1>1, <1>2, PTL DEF TokenSpec

(* As long as no answer, and no unsaved token, gets lost, the refresh      *)
(* token the server accepts is in memory or in the answer on its way.      *)
THEOREM TokenIsKnownHolds == TokenSpec => []TokenIsKnown
<1>1. TokenInit => TokenIsKnown
  BY DEF TokenInit, TokenIsKnown
<1>2. TokenTypeOK /\ Ordered /\ TokenIsKnown /\ [TokenNext]_tokenVars => TokenIsKnown'
  <2> SUFFICES ASSUME TokenTypeOK, Ordered, TokenIsKnown, [TokenNext]_tokenVars PROVE TokenIsKnown'
    OBVIOUS
  <2> USE TokenAssumption DEF TokenTypeOK, Tokens, TokenIsKnown, tokenFaults
  <2>1. CASE AccessExpires
    BY <2>1 DEF AccessExpires, call, tokenFaults
  <2>2. CASE AgentCrashes \/ AgentEnds
    BY <2>2 DEF AgentCrashes, AgentEnds, ComesBack
  <2>3. CASE UNCHANGED tokenVars
    BY <2>3 DEF tokenVars
  <2>4. ASSUME NEW c \in Callers, Adopt(c) \/ PersistRaises(c) PROVE TokenIsKnown'
    BY <2>4 DEF Adopt, PersistRaises, Ordered
  <2>5. ASSUME NEW c \in Callers, ReadCached(c) \/ ReadRefreshes(c) \/ RefreshFails(c)
        PROVE  TokenIsKnown'
    BY <2>5 DEF ReadCached, ReadRefreshes, RefreshFails, Go, Return, call
  <2>6. ASSUME NEW c \in Callers, Rotate(c) PROVE TokenIsKnown'
    BY <2>6 DEF Rotate, Go
  <2>7. ASSUME NEW c \in Callers, Reads(c) \/ ReadFails(c) \/ Reject(c) \/ AnswerIsLost(c)
        PROVE  TokenIsKnown'
    BY <2>7 DEF Reads, ReadFails, Reject, AnswerIsLost, Go, Return, call
  <2> QED
    BY <2>1, <2>2, <2>3, <2>4, <2>5, <2>6, <2>7 DEF TokenNext, Read
<1> QED
  BY <1>1, <1>2, OrderedHolds, TokenTypeCorrect, PTL DEF TokenSpec

(* Unless its last write failed, that token is on disk between any two     *)
(* refreshes.                                                              *)
THEOREM RestartIsSafeHolds == TokenSpec => []RestartIsSafe
<1>1. TokenSaved /\ TokenIsKnown => RestartIsSafe
  BY DEF TokenSaved, TokenIsKnown, RestartIsSafe
<1> QED
  BY <1>1, TokenSavedHolds, TokenIsKnownHolds, PTL
=============================================================================
