--------------------------- MODULE OfflineFallback ---------------------------
(***************************************************************************)
(* What a node does when its dispatcher goes away (agent.py                *)
(* _heartbeat_loop, autonomous_mode.py, watchdog.py), composed with the    *)
(* Vast.AI provider it takes its cue from.  The heartbeat loop decides     *)
(* after each POST, may wait in it for a mining chunk to end, and feeds    *)
(* the systemd watchdog at the end of each round.  Time passes in ticks of *)
(* about 30 s; what takes less happens between two ticks.                  *)
(***************************************************************************)
EXTENDS Integers, VastProvider

CONSTANTS
  FallbackTicks,  \* autonomous_fallback_after_sec
  ChunkTicks,     \* autonomous_chunk_sec
  OverrunTicks,   \* bound: what a mining handler may take beyond its chunk
  Setups          \* what is configured: mining handlers, a Home Assistant heater

ASSUME FallbackAssumption ==
  /\ {FallbackTicks, ChunkTicks} \subseteq Nat \ {0}
  /\ OverrunTicks \in Nat
  /\ Setups \subseteq SUBSET {"miner", "heater"}

VARIABLES
  online,          \* the dispatcher can be reached
  overrideActive,  \* _heat_override_active
  hb,              \* where the heartbeat loop is
  hbOk,            \* _hb_ok
  offlineFor,      \* ticks since _offline_since, -1 when it is None
  waited,          \* ticks spent in AutonomousMiner.stop
  quiet,           \* ticks since the watchdog was fed
  miner,           \* where AutonomousMiner._loop is, off without a task
  stopSet,         \* _stop_event
  left,            \* ticks left of its poll, chunk or heater period
  orphan,          \* ticks left of threads whose task was cancelled
  heaterOn,        \* heater_on of the loop
  heater,          \* the heater itself
  haFailed,        \* a call of Home Assistant has failed
  setup,           \* the configuration of this agent
  demanded,        \* the thermostat asks for heat
  knownFor         \* history: ticks the room has been known vacant, capped

heaterVars == <<heater, haFailed>>
hbVars == <<overrideActive, hb, hbOk, offlineFor, waited, quiet, knownFor>>
minerVars == <<miner, left, orphan, heaterOn, heaterVars>>
envVars == <<online, demanded, setup>>
allVars == <<vars, hbVars, minerVars, stopSet, envVars>>

StopLimit == ChunkTicks + 1
HeatLimit == ChunkTicks + OverrunTicks

(* A forced listing differs from a schedule that asks for one in nothing   *)
(* the fallback sees.                                                      *)
VastOverrides == {"none", "unlist"}

FallbackTypeOK ==
  /\ TypeOK
  /\ {online, overrideActive, hbOk, stopSet, heaterOn, heater, haFailed, demanded}
       \subseteq BOOLEAN
  /\ hb \in {"boot", "post", "decide", "waiting", "sleep"}
  /\ offlineFor \in -1..FallbackTicks
  /\ waited \in 0..StopLimit
  /\ quiet \in Nat
  /\ miner \in {"off", "reading", "chunk", "polling", "holding", "closing"}
  /\ left \in 0..HeatLimit /\ orphan \in 0..HeatLimit
  /\ knownFor \in 0..(HeatLimit + 1)
  /\ setup \in Setups

FallbackInit ==
  /\ Init
  /\ online = TRUE /\ demanded \in BOOLEAN
  /\ overrideActive = FALSE
  /\ hb = "boot" /\ hbOk = FALSE /\ offlineFor = -1 /\ waited = 0 /\ quiet = 0
  /\ miner = "off" /\ stopSet = FALSE /\ left = 0 /\ orphan = 0 /\ knownFor = 0
  /\ heaterOn = FALSE /\ heater = FALSE /\ haFailed = FALSE
  /\ setup \in Setups

-----------------------------------------------------------------------------
(* The network, the room and the dispatcher's work (external).             *)

NetworkChanges ==
  /\ online' = ~online
  /\ UNCHANGED <<vars, hbVars, minerVars, stopSet, demanded, setup>>

DemandChanges ==
  /\ demanded' = ~demanded
  /\ UNCHANGED <<vars, hbVars, minerVars, stopSet, online, setup>>

VastStep ==
  /\ \/ hb # "boot" /\ Update
     \/ Cli \/ Apply
     \/ ScheduleChanges \/ RentalStarts \/ RentalEnds
  /\ UNCHANGED <<hbVars, minerVars, stopSet, envVars>>

-----------------------------------------------------------------------------
(* _heartbeat_loop.  A round, POST and sleep, takes a tick or two.         *)

(* run(): no loop starts, and systemd does not watch, until the backend    *)
(* answered; an agent that waited in vain exits and is started again.      *)
BackendAnswers ==
  /\ hb = "boot" /\ online
  /\ hb' = "post"
  /\ UNCHANGED <<vars, overrideActive, knownFor, hbOk, offlineFor, waited, quiet,
                 minerVars, stopSet, envVars>>

HeartbeatAnswered(vacant, vastOverride) ==
  /\ hb = "post" /\ quiet > 0 /\ online
  /\ hb' = "decide" /\ hbOk' = TRUE
  /\ overrideActive' = vacant
  /\ knownFor' = IF vacant THEN knownFor ELSE 0
  /\ SetOverride(vastOverride)
  /\ UNCHANGED <<offlineFor, waited, quiet, minerVars, stopSet, envVars>>

HeartbeatFails ==
  /\ hb = "post" /\ quiet > 0 /\ ~online
  /\ hb' = "decide" /\ hbOk' = FALSE
  /\ UNCHANGED <<vars, overrideActive, knownFor, offlineFor, waited, quiet,
                 minerVars, stopSet, envVars>>

VastRenting == state \in {"LISTED", "LISTING"}

(* Mutation: the running chunk is not waited for. *)
DecideToStopAtOnce ==
  /\ hb = "decide" /\ (hbOk \/ VastRenting)
  /\ offlineFor' = IF hbOk THEN -1 ELSE offlineFor
  /\ hb' = "sleep"
  /\ stopSet' = (stopSet \/ miner # "off")
  /\ waited' = 0
  /\ UNCHANGED <<vars, overrideActive, knownFor, hbOk, quiet, minerVars, envVars>>

(* Online, or offline with the machine on the market: end mining, and wait *)
(* for the running chunk before the loop goes on.                          *)
DecideToStop ==
  /\ hb = "decide" /\ (hbOk \/ VastRenting)
  /\ offlineFor' = IF hbOk THEN -1 ELSE offlineFor
  /\ hb' = IF miner # "off" THEN "waiting" ELSE "sleep"
  /\ stopSet' = (stopSet \/ miner # "off")
  /\ waited' = 0
  /\ UNCHANGED <<vars, overrideActive, knownFor, hbOk, quiet, minerVars, envVars>>

StartsMiner == /\ offlineFor >= FallbackTicks
               /\ miner = "off"
               /\ ~overrideActive

(* Mutation: the stop flag of the last outage is not cleared. *)
DecideToMineStopped ==
  /\ hb = "decide" /\ ~hbOk /\ ~VastRenting
  /\ offlineFor' = IF offlineFor = -1 THEN 0 ELSE offlineFor
  /\ hb' = "sleep"
  /\ miner' = IF StartsMiner THEN "reading" ELSE miner
  /\ UNCHANGED <<vars, overrideActive, knownFor, hbOk, waited, quiet, stopSet,
                 left, orphan, heaterOn, heaterVars, envVars>>

(* Offline with the machine off the market: mine after a while, unless the *)
(* room is vacant.                                                         *)
DecideToMine ==
  /\ hb = "decide" /\ ~hbOk /\ ~VastRenting
  /\ offlineFor' = IF offlineFor = -1 THEN 0 ELSE offlineFor
  /\ hb' = "sleep"
  /\ IF StartsMiner THEN miner' = "reading" /\ stopSet' = FALSE
                    ELSE UNCHANGED <<miner, stopSet>>
  /\ UNCHANGED <<vars, overrideActive, knownFor, hbOk, waited, quiet,
                 left, orphan, heaterOn, heaterVars, envVars>>

StopReturns ==
  /\ hb = "waiting" /\ miner = "off"
  /\ hb' = "sleep"
  /\ UNCHANGED <<vars, overrideActive, knownFor, hbOk, offlineFor, waited, quiet,
                 minerVars, stopSet, envVars>>

(* After chunk_sec + 30 s the task is cancelled.  The threads of its chunk  *)
(* cannot be: their miners heat on until the handlers return.              *)
StopTimesOut ==
  /\ hb = "waiting" /\ waited = StopLimit /\ miner \notin {"off", "closing"}
  /\ miner' = "closing" /\ left' = 0
  /\ orphan' = IF miner = "chunk" /\ left > orphan THEN left ELSE orphan
  /\ UNCHANGED <<vars, hbVars, heaterOn, heaterVars, stopSet, envVars>>

(* Mutation: only a round whose heartbeat was answered feeds the watchdog. *)
FeedOnline ==
  /\ hb = "sleep"
  /\ hb' = "post" /\ quiet' = IF hbOk THEN 0 ELSE quiet
  /\ UNCHANGED <<vars, overrideActive, knownFor, hbOk, offlineFor, waited,
                 minerVars, stopSet, envVars>>

Feed ==
  /\ hb = "sleep"
  /\ hb' = "post" /\ quiet' = 0
  /\ UNCHANGED <<vars, overrideActive, knownFor, hbOk, offlineFor, waited,
                 minerVars, stopSet, envVars>>

-----------------------------------------------------------------------------
(* AutonomousMiner._loop                                                   *)

Switch(on) == \/ heater' = on /\ UNCHANGED haFailed
              \/ haFailed' = TRUE /\ UNCHANGED heater

(* The stop event is looked at before the thermostat is read, not after it: *)
(* what a read leads to is done although a stop came meanwhile.             *)
NoDemand ==
  /\ miner = "reading" /\ ~demanded
  /\ miner' = "polling" /\ left' = 1
  /\ heaterOn' = FALSE
  /\ IF heaterOn THEN Switch(FALSE) ELSE UNCHANGED heaterVars
  /\ UNCHANGED <<vars, hbVars, orphan, stopSet, envVars>>

(* Mining handlers, or the synthetic burn when there is neither a handler  *)
(* nor a heater, run in threads.                                           *)
BurnChunk ==
  /\ miner = "reading" /\ demanded /\ ("miner" \in setup \/ "heater" \notin setup)
  /\ miner' = "chunk"
  /\ left' \in ChunkTicks..HeatLimit
  /\ UNCHANGED <<vars, hbVars, orphan, heaterOn, heaterVars, stopSet, envVars>>

(* heater_on is set whether or not the call succeeded. *)
HoldHeater ==
  /\ miner = "reading" /\ demanded /\ setup = {"heater"}
  /\ miner' = "holding" /\ left' = ChunkTicks
  /\ heaterOn' = TRUE
  /\ IF heaterOn THEN UNCHANGED heaterVars ELSE Switch(TRUE)
  /\ UNCHANGED <<vars, hbVars, orphan, stopSet, envVars>>

(* A stop cuts a wait short, but not a chunk. *)
LoopEnds ==
  /\ stopSet /\ (miner \in {"polling", "holding"} \/ (miner = "chunk" /\ left = 0))
  /\ miner' = "closing" /\ left' = 0
  /\ UNCHANGED <<vars, hbVars, orphan, heaterOn, heaterVars, stopSet, envVars>>

PeriodEnds ==
  /\ ~stopSet /\ left = 0 /\ miner \in {"chunk", "polling", "holding"}
  /\ miner' = "reading"
  /\ UNCHANGED <<vars, hbVars, left, orphan, heaterOn, heaterVars, stopSet, envVars>>

(* Mutation: the loop ends without switching the heater off. *)
CloseHot ==
  /\ miner = "closing"
  /\ miner' = "off"
  /\ heaterOn' = FALSE
  /\ UNCHANGED <<vars, hbVars, left, orphan, heaterVars, stopSet, envVars>>

Close ==
  /\ miner = "closing"
  /\ miner' = "off"
  /\ heaterOn' = FALSE
  /\ IF heaterOn THEN Switch(FALSE) ELSE UNCHANGED heaterVars
  /\ UNCHANGED <<vars, hbVars, left, orphan, stopSet, envVars>>

MinerStep == LoopEnds \/ NoDemand \/ BurnChunk \/ HoldHeater \/ PeriodEnds \/ Close

-----------------------------------------------------------------------------
(* Time, and restarts.                                                     *)

Down(n) == IF n > 0 THEN n - 1 ELSE 0

MinerSettled ==
  \/ miner = "off"
  \/ miner = "chunk" /\ left > 0
  \/ miner \in {"polling", "holding"} /\ left > 0 /\ ~stopSet

(* A round with nothing to wait for takes less than two ticks. *)
HeartbeatSettled ==
  \/ hb = "boot" /\ ~online
  \/ hb \in {"post", "sleep"} /\ quiet < 2
  \/ hb = "waiting" /\ waited < StopLimit /\ miner # "off"

Tick ==
  /\ MinerSettled /\ HeartbeatSettled
  /\ quiet' = IF hb = "boot" THEN 0 ELSE quiet + 1
  /\ waited' = IF hb = "waiting" THEN waited + 1 ELSE waited
  /\ offlineFor' = IF offlineFor \in 0..(FallbackTicks - 1) THEN offlineFor + 1 ELSE offlineFor
  /\ left' = Down(left) /\ orphan' = Down(orphan)
  /\ knownFor' = IF overrideActive /\ knownFor <= HeatLimit THEN knownFor + 1 ELSE knownFor
  /\ UNCHANGED <<vars, overrideActive, hb, hbOk, miner, heaterOn, heaterVars,
                 stopSet, envVars>>

(* systemd ends a service with all its processes, the miners too. *)
AgentRestarts ==
  /\ Restart
  /\ overrideActive' = FALSE
  /\ hb' = "boot" /\ hbOk' = FALSE /\ offlineFor' = -1 /\ waited' = 0 /\ quiet' = 0
  /\ miner' = "off" /\ stopSet' = FALSE /\ left' = 0 /\ heaterOn' = FALSE
  /\ orphan' = 0 /\ knownFor' = 0
  /\ UNCHANGED <<heaterVars, online, demanded, setup>>

-----------------------------------------------------------------------------
HeartbeatStep ==
  \/ \E vacant \in BOOLEAN, o \in VastOverrides :
       (vacant => o = "unlist") /\ HeartbeatAnswered(vacant, o)
  \/ BackendAnswers \/ HeartbeatFails \/ DecideToStop \/ DecideToMine
  \/ StopReturns \/ StopTimesOut \/ Feed

FallbackNext ==
  \/ NetworkChanges \/ DemandChanges
  \/ VastStep \/ HeartbeatStep \/ MinerStep \/ Tick \/ AgentRestarts

FallbackSpec == FallbackInit /\ [][FallbackNext]_allVars

(* Both loops run and time passes. *)
FairFallbackSpec ==
  FallbackSpec /\ WF_allVars(HeartbeatStep) /\ WF_allVars(MinerStep) /\ WF_allVars(Tick)

-----------------------------------------------------------------------------
(* A room the agent knows to be vacant is not heated anew: by the time the *)
(* heartbeat loop goes on no autonomous task is left, and what mining its   *)
(* cancellation left running ends within one chunk and its overrun of the  *)
(* heartbeat that told of the vacancy, whatever was read while the stop    *)
(* came (agent.py 568-596, autonomous_mode.py 117-132 and 166-212).        *)
KnownVacantUnheated ==
  /\ overrideActive /\ hb \in {"sleep", "post"} => miner = "off"
  /\ knownFor > HeatLimit => miner # "chunk" /\ orphan = 0

(* The heater of the room does not outlive autonomous mode, however the    *)
(* loop ends, as long as Home Assistant obeys (autonomous_mode.py 248-252).*)
HeaterEndsWithMiner ==
  restarts = 0 /\ ~haFailed => (miner = "off" => ~heater)

(* The heartbeat loop, which feeds the systemd watchdog, is silent for no   *)
(* longer than stop() may wait for the running chunk, and a round; with a  *)
(* chunk of 120 s that is more than WatchdogSec=90 (watchdog.py 62-66).    *)
SilenceIsBounded == quiet <= StopLimit + 2

(* The dispatcher back for good, or the machine on the market for good,    *)
(* ends autonomous mode; a lasting outage with neither starts it, in an    *)
(* agent that is up.                                                       *)
FallbackFollows ==
  /\ <>[]online => <>[](miner = "off")
  /\ <>[]VastRenting => <>[](miner = "off")
  /\ <>[](~online /\ ~VastRenting /\ ~overrideActive /\ hb # "boot") => <>[](miner # "off")
=============================================================================
