----------------------------- MODULE EcobeeTokens -----------------------------
(***************************************************************************)
(* The rotating refresh token of the Ecobee heat source (heat_source.py,   *)
(* EcobeeHeatSource).  Every refresh spends the refresh token and returns  *)
(* the next one, which is kept in memory and in the state file.  read() is *)
(* called by several loops of the agent at once and awaits the server      *)
(* without a lock; the agent may crash and come back with the file.        *)
(***************************************************************************)
EXTENDS Naturals

CONSTANTS
  Callers,         \* loops that call read(): demand, vacancy override, Vast.AI
  Unguarded,       \* those that do so in no try: the demand loop
  MaxRotations,    \* bound: refresh tokens the server issues
  MaxAgentCrashes  \* bound: crashes of the agent

ASSUME TokenAssumption ==
  Unguarded \subseteq Callers /\ MaxRotations \in Nat /\ MaxAgentCrashes \in Nat

VARIABLES
  valid,         \* the refresh token the server accepts
  memory,        \* _refresh_token
  disk,          \* the one in the state file
  access,        \* _access_token is there and has not expired
  at,            \* where each call of read() awaits
  sent,          \* the refresh token it sent
  got,           \* the one it was answered
  last,          \* how each caller's last read() ended
  agentCrashes,
  unsaved,       \* history: the last refresh token taken over was not saved
  lost           \* history: an answer got lost, or the agent ended, or crashed,
                 \* while the token was not saved

tokenVars == <<valid, memory, disk, access, at, sent, got, last, agentCrashes, unsaved, lost>>
call == <<sent, got>>
tokenFaults == <<agentCrashes, unsaved, lost>>

Tokens == 0..MaxRotations

TokenTypeOK ==
  /\ valid \in Tokens /\ memory \in Tokens /\ disk \in Tokens
  /\ access \in BOOLEAN
  /\ at \in [Callers -> {"idle", "posting", "answered", "failed", "reading", "dead"}]
  /\ sent \in [Callers -> Tokens] /\ got \in [Callers -> Tokens]
  /\ last \in [Callers -> {"none", "ok", "zero", "raised"}]
  /\ agentCrashes \in 0..MaxAgentCrashes
  /\ unsaved \in BOOLEAN /\ lost \in BOOLEAN

TokenInit ==
  /\ valid = 0 /\ memory = 0 /\ disk = 0
  /\ access = FALSE
  /\ at = [c \in Callers |-> "idle"]
  /\ sent = [c \in Callers |-> 0] /\ got = [c \in Callers |-> 0]
  /\ last = [c \in Callers |-> "none"]
  /\ agentCrashes = 0 /\ unsaved = FALSE /\ lost = FALSE

Go(c, place) == at' = [at EXCEPT ![c] = place]
Return(c, how) == Go(c, "idle") /\ last' = [last EXCEPT ![c] = how]

-----------------------------------------------------------------------------
(* The access token expires; while the model has refresh tokens left.      *)
AccessExpires ==
  /\ access /\ valid < MaxRotations
  /\ access' = FALSE
  /\ UNCHANGED <<valid, memory, disk, at, call, last, tokenFaults>>

ReadCached(c) ==
  /\ at[c] = "idle" /\ access
  /\ Go(c, "reading")
  /\ UNCHANGED <<valid, memory, disk, access, call, last, tokenFaults>>

ReadRefreshes(c) ==
  /\ at[c] = "idle" /\ ~access
  /\ Go(c, "posting")
  /\ sent' = [sent EXCEPT ![c] = memory]
  /\ UNCHANGED <<valid, memory, disk, access, got, last, tokenFaults>>

-----------------------------------------------------------------------------
(* The token server (external).  The model's last refresh token does not go *)
(* to an agent that ends.                                                  *)

Ending == \E c \in Callers : at[c] = "dead"

Rotate(c) ==
  /\ at[c] = "posting" /\ sent[c] = valid /\ valid < MaxRotations
  /\ Ending => valid + 1 < MaxRotations
  /\ valid' = valid + 1
  /\ got' = [got EXCEPT ![c] = valid + 1]
  /\ Go(c, "answered")
  /\ UNCHANGED <<memory, disk, access, sent, last, tokenFaults>>

(* Not reached, or the token is spent. *)
Reject(c) ==
  /\ at[c] = "posting"
  /\ Go(c, "failed")
  /\ UNCHANGED <<valid, memory, disk, access, call, last, tokenFaults>>

AnswerIsLost(c) ==
  /\ at[c] = "answered"
  /\ Go(c, "failed")
  /\ lost' = TRUE
  /\ UNCHANGED <<valid, memory, disk, access, call, last, agentCrashes, unsaved>>

-----------------------------------------------------------------------------
(* Mutation: the rotated refresh token is ignored. *)
AdoptAccess(c) ==
  /\ at[c] = "answered"
  /\ access' = TRUE
  /\ Go(c, "reading")
  /\ UNCHANGED <<valid, memory, disk, call, last, tokenFaults>>

Adopt(c) ==
  /\ at[c] = "answered"
  /\ access' = TRUE
  /\ memory' = got[c] /\ disk' = got[c]
  /\ Go(c, "reading")
  /\ unsaved' = FALSE
  /\ UNCHANGED <<valid, call, last, agentCrashes, lost>>

(* An OSError of the state file leaves read(), and a loop that does not     *)
(* catch it.                                                               *)
PersistRaises(c) ==
  /\ at[c] = "answered"
  /\ access' = TRUE
  /\ memory' = got[c]
  /\ Go(c, IF c \in Unguarded THEN "dead" ELSE "idle")
  /\ last' = [last EXCEPT ![c] = "raised"]
  /\ unsaved' = TRUE
  /\ UNCHANGED <<valid, disk, call, agentCrashes, lost>>

(* Mutation: a failed refresh puts back the token it sent. *)
FailsRestores(c) ==
  /\ at[c] = "failed"
  /\ Return(c, "zero")
  /\ memory' = sent[c]
  /\ UNCHANGED <<valid, disk, access, call, tokenFaults>>

RefreshFails(c) ==
  /\ at[c] = "failed"
  /\ Return(c, "zero")
  /\ UNCHANGED <<valid, memory, disk, access, call, tokenFaults>>

Reads(c) ==
  /\ at[c] = "reading"
  /\ Return(c, "ok")
  /\ UNCHANGED <<valid, memory, disk, access, call, tokenFaults>>

ReadFails(c) ==
  /\ at[c] = "reading"
  /\ Return(c, "zero")
  /\ UNCHANGED <<valid, memory, disk, access, call, tokenFaults>>

(* The agent starts again from its file. *)
ComesBack ==
  /\ memory' = disk
  /\ access' = FALSE
  /\ at' = [c \in Callers |-> "idle"]
  /\ lost' = (lost \/ disk # valid)
  /\ UNCHANGED <<valid, disk, call, last, unsaved>>

(* Also while the model has refresh tokens left: the access token goes. *)
AgentCrashes ==
  /\ agentCrashes < MaxAgentCrashes /\ valid < MaxRotations
  /\ agentCrashes' = agentCrashes + 1
  /\ ComesBack

(* A loop that has raised ends the others, sooner or later, and systemd    *)
(* starts the agent again.                                                 *)
AgentEnds ==
  /\ Ending
  /\ ComesBack
  /\ UNCHANGED agentCrashes

-----------------------------------------------------------------------------
Read(c) == ReadCached(c) \/ ReadRefreshes(c) \/ Adopt(c) \/ PersistRaises(c) \/ RefreshFails(c)

TokenNext ==
  \/ \E c \in Callers : \/ Read(c) \/ Reads(c) \/ ReadFails(c)
                        \/ Rotate(c) \/ Reject(c) \/ AnswerIsLost(c)
  \/ AccessExpires \/ AgentCrashes \/ AgentEnds

TokenSpec == TokenInit /\ [][TokenNext]_tokenVars

(* The loops keep reading; a server asked for ever answers some time; an   *)
(* agent one loop of which is dead ends.                                   *)
TokenFairness ==
  /\ WF_tokenVars(AgentEnds)
  /\ \A c \in Callers : /\ WF_tokenVars(Read(c)) /\ WF_tokenVars(Rotate(c) \/ Reject(c))
                        /\ SF_tokenVars(Rotate(c)) /\ SF_tokenVars(Reads(c))
                        /\ WF_tokenVars(Reads(c) \/ ReadFails(c))
FairTokenSpec == TokenSpec /\ TokenFairness

-----------------------------------------------------------------------------
(* A slow call never puts an older token over a newer one, in memory or on *)
(* disk, whatever gets lost, fails or crashes; only a restart goes back, to *)
(* the one on disk (lines 387-398).                                        *)
NewestIsKept ==
  [][/\ disk' >= disk
     /\ memory' >= memory \/ ComesBack]_tokenVars

(* However reads overlap, the agent holds the refresh token the server     *)
(* accepts, or is about to be told it: concurrent refreshes do not lock    *)
(* it out.  Only an answer that gets lost, or an end of the agent before   *)
(* the token is saved, does (lines 371-398).                               *)
TokenIsKnown ==
  ~lost => memory = valid \/ \E c \in Callers : at[c] = "answered" /\ got[c] = valid

(* Between refreshes a restart finds that token on disk, so the agent can  *)
(* be restarted at any time at which no refresh is under way (393-398).    *)
RestartIsSafe ==
  ~lost /\ ~unsaved /\ (\A c \in Callers : at[c] # "answered") => disk = valid

(* Every loop gets readings again and again: a refresh that lost the race  *)
(* does no lasting harm, nor does a token that could not be saved, if a    *)
(* later one is saved before the agent ends.  The demand loop does not     *)
(* catch that error, so that the agent mostly ends over the spent token;   *)
(* that counts as lost (400-426; agent.py 346, 639, 681, 876).             *)
ReadsRecover ==
  <>lost \/ \A c \in Callers : []<>(last[c] = "ok")
=============================================================================
