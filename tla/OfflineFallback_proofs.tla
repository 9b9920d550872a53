----------------------- MODULE OfflineFallback_proofs -------------------------
(***************************************************************************)
(* Theorems about VastProvider and about the fallback that is composed     *)
(* with it, for any number of rentals, faults and restarts and for any     *)
(* durations: the provider alone, that the composition implements it, and  *)
(* what the heartbeat loop and the autonomous miner promise each other;    *)
(* then about the weather schedule the provider follows (VastSchedule).    *)
(***************************************************************************)
EXTENDS OfflineFallback, VastSchedule, WellFoundedInduction, TLAPS

(* What the state promises about the offer while no command is out, and    *)
(* what an answer that has arrived promises while one is.                  *)
OfferInv ==
  /\ state = "UNLISTING" => ~offered
  /\ command = "list" => state = "LISTING"
  /\ command = "unlist" => state = "LISTED" /\ (answer = "ok" => ~offered)
  /\ command = "count" => state = "UNLISTING"
  /\ command = "none" => answer = "pending"

CountInv ==
  ~oddAnswers => (command = "count" /\ answer = "zero" => renters = 0)

(* The inductive invariant: a count of zero stays right because nothing    *)
(* can be rented while the state is UNLISTING.                             *)
ProviderInv == TypeOK /\ OfferInv /\ CountInv

LEMMA ProviderInit == Init => ProviderInv
<1> SUFFICES ASSUME Init PROVE ProviderInv
  OBVIOUS
<1> USE VastAssumption, FallbackAssumption DEF Init
<1>1. state \in States /\ override \in Overrides /\ command \in Commands /\ answer \in Answers
  BY DEF States, Commands, Answers, Overrides
<1>2. {listedAt, shouldList, offered, oddAnswers} \subseteq BOOLEAN
  OBVIOUS
<1>3. renters \in 0..MaxRenters /\ restarts \in 0..MaxRestarts /\ timeouts \in 0..MaxTimeouts
  OBVIOUS
<1>4. OfferInv /\ CountInv
  BY DEF OfferInv, CountInv
<1> QED
  BY <1>1, <1>2, <1>3, <1>4 DEF ProviderInv, TypeOK

LEMMA ProviderStep == ProviderInv /\ [Next]_vars => ProviderInv'
<1> SUFFICES ASSUME ProviderInv, [Next]_vars PROVE ProviderInv'
  OBVIOUS
<1> USE VastAssumption, FallbackAssumption DEF ProviderInv, TypeOK, OfferInv, CountInv, States,
                               Commands, Answers, Overrides
<1>1. CASE UpdateList
  BY <1>1 DEF UpdateList, Issue, market, inputs, faults
<1>2. CASE UpdateUnlist
  BY <1>2 DEF UpdateUnlist, Issue, market, inputs, faults
<1>3. CASE UpdateCount
  BY <1>3 DEF UpdateCount, Issue, market, inputs, faults
<1>4. CASE CliSets
  BY <1>4 DEF CliSets, Answer, inputs, faults
<1>5. CASE CliFails
  BY <1>5 DEF CliFails, Answer, inputs, faults
<1>6. CASE CliTimesOut
  BY <1>6 DEF CliTimesOut, Answer, inputs, faults
<1>7. CASE CliCounts
  BY <1>7 DEF CliCounts, Answer, inputs, faults
<1>8. CASE ListDone
  BY <1>8 DEF ListDone, Return, market, inputs, faults
<1>9. CASE UnlistDone
  BY <1>9 DEF UnlistDone, Return, market, inputs, faults
<1>10. CASE CloseSession
  BY <1>10 DEF CloseSession, Return, market, inputs, faults
<1>11. CASE StayUnlisting
  BY <1>11 DEF StayUnlisting, Return, market, inputs, faults
<1>12. CASE Restart
  <2> USE <1>12 DEF Restart, market, faults
  <2>1. /\ listedAt' \in BOOLEAN /\ shouldList' \in BOOLEAN /\ offered' \in BOOLEAN
        /\ oddAnswers' \in BOOLEAN
    BY DEF faults
  <2>2. /\ renters' \in 0..MaxRenters /\ restarts' \in 0..MaxRestarts
        /\ timeouts' \in 0..MaxTimeouts
    BY DEF faults
  <2>4. state' \in States /\ override' \in Overrides /\ command' \in Commands /\ answer' \in Answers
    OBVIOUS
  <2>3. OfferInv' /\ CountInv'
    OBVIOUS
  <2> QED
    BY <2>1, <2>2, <2>3, <2>4
<1>13. CASE ScheduleChanges
  BY <1>13 DEF ScheduleChanges, market, faults
<1>14. CASE RentalStarts
  BY <1>14 DEF RentalStarts, inputs, faults
<1>15. CASE RentalEnds
  BY <1>15 DEF RentalEnds, inputs, faults
<1>18. CASE AnswersChange
  BY <1>18 DEF AnswersChange, market, inputs
<1>16. ASSUME NEW o \in Overrides, SetOverride(o) PROVE ProviderInv'
  BY <1>16 DEF SetOverride, market, faults
<1>17. CASE UNCHANGED vars
  BY <1>17 DEF vars
<1> QED
  BY <1>1, <1>2, <1>3, <1>4, <1>5, <1>6, <1>7, <1>8, <1>9, <1>10, <1>11,
     <1>12, <1>13, <1>14, <1>15, <1>16, <1>17, <1>18 DEF Next, Update, Cli, Apply

LEMMA ProviderInvariance == Spec => []ProviderInv
BY ProviderInit, ProviderStep, PTL DEF Spec

(* Every value the provider's fields take is one of their type. *)
THEOREM ProviderTypeCorrect == Spec => []TypeOK
<1>1. ProviderInv => TypeOK
  BY DEF ProviderInv
<1> QED
  BY <1>1, ProviderInvariance, PTL

(* While the provider drains, nothing can be rented: the machine is off    *)
(* the market, whatever commands fail, time out or lie.                    *)
THEOREM DrainingIsOffMarketHolds == Spec => []DrainingIsOffMarket
<1>1. ProviderInv => DrainingIsOffMarket
  BY DEF ProviderInv, OfferInv, DrainingIsOffMarket
<1> QED
  BY <1>1, ProviderInvariance, PTL

(* As long as counts are in a known shape, a session is closed only after *)
(* its last rental.                                                        *)
THEOREM CloseIsDrainedHolds == Spec => CloseIsDrained
<1>1. ProviderInv /\ [Next]_vars => [CloseSession /\ ~oddAnswers => renters = 0 /\ ~offered]_vars
  BY DEF ProviderInv, OfferInv, CountInv, CloseSession
<1> QED
  BY <1>1, ProviderInvariance, PTL DEF Spec, CloseIsDrained

(* Before the first hidden effect, odd answer or restart, no rental runs   *)
(* off the books: the listing it came from has a start that will be logged.*)
THEOREM RentalsAreBookedHolds == Spec => []RentalsAreBooked
<1>1. Init => RentalsAreBooked
  BY DEF Init, RentalsAreBooked
<1>2. ProviderInv /\ RentalsAreBooked /\ [Next]_vars => RentalsAreBooked'
  <2> SUFFICES ASSUME ProviderInv, RentalsAreBooked, [Next]_vars
               PROVE  RentalsAreBooked'
    OBVIOUS
  <2> USE VastAssumption, FallbackAssumption DEF ProviderInv, TypeOK, OfferInv, CountInv,
                                 RentalsAreBooked, inputs, faults,
                                 market
  <2>1. CASE Update
    BY <2>1 DEF Update, UpdateList, UpdateUnlist, UpdateCount,
                Issue
  <2>2. CASE CliSets \/ CliFails \/ CliCounts
    BY <2>2 DEF CliSets, CliFails, CliCounts, Answer
  <2>3. CASE ListDone \/ UnlistDone
    BY <2>3 DEF ListDone, UnlistDone, Return
  <2>4. CASE CloseSession
    BY <2>4 DEF CloseSession, Return
  <2>5. CASE StayUnlisting
    BY <2>5 DEF StayUnlisting, Return
  <2>6. CASE CliTimesOut \/ AnswersChange \/ Restart
    BY <2>6 DEF CliTimesOut, AnswersChange, Restart, Answer
  <2>7. CASE ScheduleChanges \/ RentalStarts \/ RentalEnds
    BY <2>7 DEF ScheduleChanges, RentalStarts, RentalEnds
  <2>8. ASSUME NEW o \in Overrides, SetOverride(o) PROVE RentalsAreBooked'
    BY <2>8 DEF SetOverride
  <2>9. CASE UNCHANGED vars
    BY <2>9 DEF vars
  <2> QED
    BY <2>1, <2>2, <2>3, <2>4, <2>5, <2>6, <2>7, <2>8, <2>9
       DEF Next, Cli, Apply
<1> QED
  BY <1>1, <1>2, ProviderInvariance, PTL DEF Spec

-----------------------------------------------------------------------------
(* The fallback only reads the provider and passes the override on.        *)

LEMMA StepIsProviderStep == [FallbackNext]_allVars => [Next]_vars
<1> SUFFICES ASSUME [FallbackNext]_allVars PROVE [Next]_vars
  OBVIOUS
<1> USE DEF vars, vars
<1>1. CASE VastStep
  BY <1>1 DEF VastStep, Next
<1>2. CASE HeartbeatStep
  <2>1. ASSUME NEW v \in BOOLEAN, NEW o \in VastOverrides, HeartbeatAnswered(v, o)
        PROVE  [Next]_vars
    BY <2>1 DEF HeartbeatAnswered, VastOverrides, Overrides, Next
  <2> QED
    BY <1>2, <2>1 DEF HeartbeatStep, BackendAnswers, HeartbeatFails, DecideToStop,
                      DecideToMine, StopReturns,
       StopTimesOut, Feed
<1>3. CASE MinerStep
  BY <1>3 DEF MinerStep, LoopEnds, NoDemand, BurnChunk, HoldHeater, PeriodEnds, Close
<1>4. CASE NetworkChanges \/ DemandChanges \/ Tick
  BY <1>4 DEF NetworkChanges, DemandChanges, Tick
<1>5. CASE AgentRestarts
  BY <1>5 DEF AgentRestarts, Next
<1>6. CASE UNCHANGED allVars
  BY <1>6 DEF allVars
<1> QED
  BY <1>1, <1>2, <1>3, <1>4, <1>5, <1>6 DEF FallbackNext

(* The composition implements VastProvider: heartbeats, miner and time     *)
(* leave the provider alone or do what it allows (agent.py 549-600).       *)
THEOREM FallbackImplementsProvider == FallbackSpec => Spec
<1>1. FallbackInit => Init
  BY DEF FallbackInit
<1> QED
  BY <1>1, StepIsProviderStep, PTL DEF FallbackSpec, Spec

(* So also beside the autonomous miner no session is closed over a rental, *)
(* and no rental runs off the books (vast_provider.py 426-484).            *)
THEOREM FallbackKeepsBooks == FallbackSpec => CloseIsDrained /\ []RentalsAreBooked
BY FallbackImplementsProvider, CloseIsDrainedHolds, RentalsAreBookedHolds, PTL

FlagsOK ==
  /\ online \in BOOLEAN /\ overrideActive \in BOOLEAN /\ hbOk \in BOOLEAN
  /\ stopSet \in BOOLEAN /\ heaterOn \in BOOLEAN /\ heater \in BOOLEAN
  /\ haFailed \in BOOLEAN /\ demanded \in BOOLEAN

PlacesOK ==
  /\ hb \in {"boot", "post", "decide", "waiting", "sleep"}
  /\ offlineFor \in -1..FallbackTicks
  /\ waited \in 0..StopLimit
  /\ quiet \in Nat
  /\ miner \in {"off", "reading", "chunk", "polling", "holding", "closing"}
  /\ left \in 0..HeatLimit /\ orphan \in 0..HeatLimit
  /\ knownFor \in 0..(HeatLimit + 1)
  /\ setup \in Setups

LEMMA FlagsStep == FlagsOK /\ [FallbackNext]_allVars => FlagsOK'
<1> SUFFICES ASSUME FlagsOK, [FallbackNext]_allVars PROVE FlagsOK'
  OBVIOUS
<1> USE DEF FlagsOK, hbVars, minerVars, heaterVars, envVars
<1>1. CASE VastStep
  BY <1>1 DEF VastStep
<1>2. CASE HeartbeatStep
  <2>1. ASSUME NEW v \in BOOLEAN, NEW o \in VastOverrides, HeartbeatAnswered(v, o) PROVE FlagsOK'
    BY <2>1 DEF HeartbeatAnswered
  <2>2. CASE BackendAnswers \/ HeartbeatFails
    BY <2>2 DEF BackendAnswers, HeartbeatFails
  <2>3. CASE DecideToStop
    BY <2>3, Zenon DEF DecideToStop
  <2>4. CASE DecideToMine
    BY <2>4, Zenon DEF DecideToMine
  <2>5. CASE StopReturns \/ StopTimesOut \/ Feed
    BY <2>5 DEF StopReturns, StopTimesOut, Feed
  <2> QED
    BY <1>2, <2>1, <2>2, <2>3, <2>4, <2>5 DEF HeartbeatStep
<1>3. CASE MinerStep
  <2>1. CASE LoopEnds \/ BurnChunk \/ PeriodEnds
    BY <2>1 DEF LoopEnds, BurnChunk, PeriodEnds
  <2>2. CASE NoDemand
    BY <2>2, Zenon DEF NoDemand, Switch
  <2>3. CASE HoldHeater
    BY <2>3, Zenon DEF HoldHeater, Switch
  <2>4. CASE Close
    BY <2>4, Zenon DEF Close, Switch
  <2> QED
    BY <1>3, <2>1, <2>2, <2>3, <2>4 DEF MinerStep
<1>4. CASE NetworkChanges \/ DemandChanges
  BY <1>4 DEF NetworkChanges, DemandChanges
<1>5. CASE Tick
  BY <1>5 DEF Tick
<1>6. CASE AgentRestarts
  BY <1>6 DEF AgentRestarts
<1>7. CASE UNCHANGED allVars
  BY <1>7 DEF allVars
<1> QED
  BY <1>1, <1>2, <1>3, <1>4, <1>5, <1>6, <1>7 DEF FallbackNext

LEMMA PlacesStep == PlacesOK /\ [FallbackNext]_allVars => PlacesOK'
<1> SUFFICES ASSUME PlacesOK, [FallbackNext]_allVars PROVE PlacesOK'
  OBVIOUS
<1> USE VastAssumption, FallbackAssumption DEF PlacesOK, StopLimit, HeatLimit, hbVars, minerVars, envVars
<1>1. CASE VastStep
  BY <1>1 DEF VastStep
<1>2. CASE HeartbeatStep
  <2>1. ASSUME NEW v \in BOOLEAN, NEW o \in VastOverrides, HeartbeatAnswered(v, o) PROVE PlacesOK'
    BY <2>1 DEF HeartbeatAnswered
  <2>2. CASE BackendAnswers \/ HeartbeatFails
    BY <2>2 DEF BackendAnswers, HeartbeatFails
  <2>3. CASE DecideToStop
    BY <2>3 DEF DecideToStop
  <2>4. CASE DecideToMine
    BY <2>4 DEF DecideToMine
  <2>5. CASE StopReturns \/ StopTimesOut \/ Feed
    BY <2>5 DEF StopReturns, StopTimesOut, Feed
  <2> QED
    BY <1>2, <2>1, <2>2, <2>3, <2>4, <2>5 DEF HeartbeatStep
<1>3. CASE MinerStep
  <2>1. CASE LoopEnds \/ PeriodEnds
    BY <2>1 DEF LoopEnds, PeriodEnds
  <2>2. CASE NoDemand
    BY <2>2 DEF NoDemand
  <2>3. CASE BurnChunk
    BY <2>3 DEF BurnChunk
  <2>4. CASE HoldHeater
    BY <2>4 DEF HoldHeater
  <2>5. CASE Close
    BY <2>5 DEF Close
  <2> QED
    BY <1>3, <2>1, <2>2, <2>3, <2>4, <2>5 DEF MinerStep
<1>4. CASE NetworkChanges \/ DemandChanges
  BY <1>4 DEF NetworkChanges, DemandChanges
<1>5. CASE Tick
  BY <1>5 DEF Tick, Down, HeartbeatSettled
<1>6. CASE AgentRestarts
  BY <1>6 DEF AgentRestarts
<1>7. CASE UNCHANGED allVars
  BY <1>7 DEF allVars
<1> QED
  BY <1>1, <1>2, <1>3, <1>4, <1>5, <1>6, <1>7 DEF FallbackNext

(* Every variable of the fallback keeps its type.                          *)
THEOREM TypeCorrect == FallbackSpec => []FallbackTypeOK
<1>1. FallbackInit => FallbackTypeOK
  <2> SUFFICES ASSUME FallbackInit PROVE FallbackTypeOK
    OBVIOUS
  <2>1. TypeOK
    BY ProviderInit DEF FallbackInit, ProviderInv
  <2>2. /\ offlineFor \in -1..FallbackTicks /\ waited \in 0..StopLimit
        /\ left \in 0..HeatLimit /\ orphan \in 0..HeatLimit
        /\ knownFor \in 0..(HeatLimit + 1)
    BY FallbackAssumption DEF FallbackInit, StopLimit, HeatLimit
  <2>3. {online, overrideActive, hbOk, stopSet, heaterOn, heater, haFailed, demanded} \subseteq BOOLEAN
    BY DEF FallbackInit
  <2> QED
    BY <2>1, <2>2, <2>3 DEF FallbackInit, FallbackTypeOK
<1>2. FallbackTypeOK /\ TypeOK' /\ [FallbackNext]_allVars => FallbackTypeOK'
  BY FlagsStep, PlacesStep DEF FallbackTypeOK, FlagsOK, PlacesOK
<1> QED
  BY <1>1, <1>2, FallbackImplementsProvider, ProviderTypeCorrect, PTL DEF FallbackSpec

-----------------------------------------------------------------------------
(* What the heartbeat loop knows of the miner at each of its steps: in a   *)
(* room known to be vacant, a loop that got past stop() left none running, *)
(* and only an answered heartbeat can lead back to stop().                 *)
VacancyInv ==
  /\ overrideActive /\ hb \in {"sleep", "post"} => miner = "off"
  /\ overrideActive /\ hb = "decide" /\ ~hbOk => miner = "off"
  /\ hb = "boot" => ~overrideActive /\ miner = "off"

(* While Home Assistant obeys, heater_on is what the heater is.            *)
HeaterInv ==
  /\ restarts = 0 /\ ~haFailed => (heater <=> heaterOn)
  /\ miner = "off" => ~heaterOn

(* How long the watchdog has been waiting, by where the loop is.           *)
QuietInv ==
  /\ hb = "boot" => quiet = 0
  /\ hb \in {"post", "decide"} => quiet <= 2
  /\ hb = "waiting" => quiet <= waited + 2
  /\ hb = "sleep" => quiet <= StopLimit + 2

LEMMA VacancyStep == VacancyInv /\ [FallbackNext]_allVars => VacancyInv'
<1> SUFFICES ASSUME VacancyInv, [FallbackNext]_allVars PROVE VacancyInv'
  OBVIOUS
<1> USE DEF VacancyInv, hbVars, minerVars, envVars
<1>1. CASE VastStep
  BY <1>1 DEF VastStep
<1>2. CASE HeartbeatStep
  <2>1. ASSUME NEW v \in BOOLEAN, NEW o \in VastOverrides, HeartbeatAnswered(v, o) PROVE VacancyInv'
    BY <2>1 DEF HeartbeatAnswered
  <2>2. CASE BackendAnswers \/ HeartbeatFails
    BY <2>2 DEF BackendAnswers, HeartbeatFails
  <2>3. CASE DecideToStop
    BY <2>3 DEF DecideToStop
  <2>4. CASE DecideToMine
    BY <2>4 DEF DecideToMine, StartsMiner
  <2>5. CASE StopReturns \/ StopTimesOut \/ Feed
    BY <2>5 DEF StopReturns, StopTimesOut, Feed
  <2> QED
    BY <1>2, <2>1, <2>2, <2>3, <2>4, <2>5 DEF HeartbeatStep
<1>3. CASE MinerStep
  <2>1. miner # "off" /\ UNCHANGED <<overrideActive, hb, hbOk>>
    BY <1>3 DEF MinerStep, LoopEnds, NoDemand, BurnChunk, HoldHeater, PeriodEnds, Close
  <2> QED
    BY <2>1
<1>4. CASE NetworkChanges \/ DemandChanges \/ Tick
  BY <1>4 DEF NetworkChanges, DemandChanges, Tick
<1>5. CASE AgentRestarts
  BY <1>5 DEF AgentRestarts
<1>6. CASE UNCHANGED allVars
  BY <1>6 DEF allVars
<1> QED
  BY <1>1, <1>2, <1>3, <1>4, <1>5, <1>6 DEF FallbackNext

(* Only a restart of the agent counts as one. *)
LEMMA RestartsAreRestarts == [FallbackNext]_allVars => AgentRestarts \/ UNCHANGED restarts
<1> SUFFICES ASSUME [FallbackNext]_allVars, ~AgentRestarts PROVE UNCHANGED restarts
  OBVIOUS
<1>1. CASE VastStep
  BY <1>1 DEF VastStep, Update, UpdateList, UpdateUnlist, UpdateCount,
              Issue,
     Cli, CliSets, CliFails, CliTimesOut, CliCounts, Answer,
     Apply, ListDone, UnlistDone, CloseSession, StayUnlisting, Return,
     ScheduleChanges, RentalStarts, RentalEnds, inputs
<1>2. CASE HeartbeatStep
  BY <1>2 DEF HeartbeatStep, HeartbeatAnswered, SetOverride, BackendAnswers,
              HeartbeatFails,
     DecideToStop, DecideToMine, StopReturns, StopTimesOut, Feed, vars
<1>3. CASE MinerStep \/ NetworkChanges \/ DemandChanges \/ Tick \/ UNCHANGED allVars
  BY <1>3 DEF MinerStep, LoopEnds, NoDemand, BurnChunk, HoldHeater, PeriodEnds, Close,
     NetworkChanges, DemandChanges, Tick, allVars, vars
<1> QED
  BY <1>1, <1>2, <1>3 DEF FallbackNext

LEMMA HeaterStep == TypeOK /\ FlagsOK /\ HeaterInv /\ [FallbackNext]_allVars => HeaterInv'
<1> SUFFICES ASSUME TypeOK, FlagsOK, HeaterInv, [FallbackNext]_allVars PROVE HeaterInv'
  OBVIOUS
<1>1. CASE AgentRestarts
  <2>1. restarts' # 0
    BY <1>1, FallbackAssumption DEF AgentRestarts, Restart, TypeOK
  <2> QED
    BY <1>1, <2>1 DEF AgentRestarts, HeaterInv
<1> SUFFICES ASSUME ~AgentRestarts, UNCHANGED restarts PROVE HeaterInv'
  BY <1>1, RestartsAreRestarts
<1> USE DEF HeaterInv, FlagsOK, minerVars, heaterVars
<1>2. CASE VastStep
  BY <1>2 DEF VastStep
<1>3. CASE HeartbeatStep
  BY <1>3 DEF HeartbeatStep, HeartbeatAnswered, BackendAnswers, HeartbeatFails,
              DecideToStop,
     DecideToMine, StopReturns, StopTimesOut, Feed
<1>4. CASE LoopEnds \/ BurnChunk \/ PeriodEnds
  BY <1>4 DEF LoopEnds, BurnChunk, PeriodEnds
<1>5. CASE NoDemand
  BY <1>5, Zenon DEF NoDemand, Switch
<1>6. CASE HoldHeater
  BY <1>6, Zenon DEF HoldHeater, Switch
<1>7. CASE Close
  BY <1>7 DEF Close, Switch
<1>8. CASE NetworkChanges \/ DemandChanges \/ Tick \/ UNCHANGED allVars
  BY <1>8 DEF NetworkChanges, DemandChanges, Tick, allVars
<1> QED
  BY <1>2, <1>3, <1>4, <1>5, <1>6, <1>7, <1>8 DEF FallbackNext, MinerStep

LEMMA QuietStep == PlacesOK /\ QuietInv /\ [FallbackNext]_allVars => QuietInv'
<1> SUFFICES ASSUME PlacesOK, QuietInv, [FallbackNext]_allVars PROVE QuietInv'
  OBVIOUS
<1> USE VastAssumption, FallbackAssumption DEF PlacesOK, QuietInv, StopLimit, hbVars
<1>1. CASE VastStep
  BY <1>1 DEF VastStep
<1>2. CASE HeartbeatStep
  <2>1. ASSUME NEW v \in BOOLEAN, NEW o \in VastOverrides, HeartbeatAnswered(v, o) PROVE QuietInv'
    BY <2>1 DEF HeartbeatAnswered
  <2>2. CASE BackendAnswers \/ HeartbeatFails
    BY <2>2 DEF BackendAnswers, HeartbeatFails
  <2>3. CASE DecideToStop \/ DecideToMine
    BY <2>3 DEF DecideToStop, DecideToMine
  <2>4. CASE StopReturns \/ StopTimesOut \/ Feed
    BY <2>4 DEF StopReturns, StopTimesOut, Feed
  <2> QED
    BY <1>2, <2>1, <2>2, <2>3, <2>4 DEF HeartbeatStep
<1>3. CASE MinerStep
  BY <1>3 DEF MinerStep, LoopEnds, NoDemand, BurnChunk, HoldHeater, PeriodEnds, Close
<1>4. CASE NetworkChanges \/ DemandChanges
  BY <1>4 DEF NetworkChanges, DemandChanges
<1>5. CASE Tick
  BY <1>5 DEF Tick, HeartbeatSettled
<1>6. CASE AgentRestarts
  BY <1>6 DEF AgentRestarts
<1>7. CASE UNCHANGED allVars
  BY <1>7 DEF allVars
<1> QED
  BY <1>1, <1>2, <1>3, <1>4, <1>5, <1>6, <1>7 DEF FallbackNext

(* Why heat ends in time in a vacant room: a stop reaches the loop before   *)
(* any time has passed, so the last chunk began at that very tick, and its *)
(* threads, cancelled or not, have had as much time as the room was known  *)
(* to be vacant.                                                           *)
HeatInv ==
  /\ ~overrideActive => knownFor = 0
  /\ hb = "waiting" => stopSet
  /\ overrideActive /\ hb = "decide" => knownFor = 0 \/ miner = "off"
  /\ overrideActive /\ miner \in {"reading", "chunk", "polling", "holding"}
       => stopSet \/ hb = "decide"
  /\ overrideActive /\ miner = "reading" => knownFor = 0
  /\ overrideActive /\ miner = "chunk" => knownFor + left <= HeatLimit
  /\ overrideActive /\ orphan > 0 => knownFor + orphan <= HeatLimit

(* What starts when the count is zero has all of its time ahead. *)
LEMMA KnownStart ==
  ASSUME NEW k, NEW n \in Nat, NEW limit, k = 0, n <= limit
  PROVE  k + n <= limit
OBVIOUS

LEMMA HeatStep ==
  PlacesOK /\ VacancyInv /\ HeatInv /\ [FallbackNext]_allVars => HeatInv'
<1> SUFFICES ASSUME PlacesOK, VacancyInv, HeatInv, [FallbackNext]_allVars PROVE HeatInv'
  OBVIOUS
<1>0. ChunkTicks \in Nat /\ OverrunTicks \in Nat /\ HeatLimit \in Nat
  BY FallbackAssumption DEF HeatLimit
<1> USE <1>0 DEF HeatInv, VacancyInv, PlacesOK, hbVars, minerVars, envVars
<1>1. CASE VastStep
  BY <1>1 DEF VastStep
<1>2. CASE HeartbeatStep
  <2>1. ASSUME NEW v \in BOOLEAN, NEW o \in VastOverrides, HeartbeatAnswered(v, o) PROVE HeatInv'
    BY <2>1 DEF HeartbeatAnswered
  <2>2. CASE BackendAnswers \/ HeartbeatFails
    BY <2>2 DEF BackendAnswers, HeartbeatFails
  <2>3. CASE DecideToStop
    BY <2>3 DEF DecideToStop
  <2>4. CASE DecideToMine
    BY <2>4 DEF DecideToMine, StartsMiner
  <2>5. CASE StopReturns \/ Feed
    BY <2>5 DEF StopReturns, Feed
  <2>6. CASE StopTimesOut
    BY <2>6 DEF StopTimesOut
  <2> QED
    BY <1>2, <2>1, <2>2, <2>3, <2>4, <2>5, <2>6 DEF HeartbeatStep
<1>3. CASE MinerStep
  <2>1. CASE NoDemand
    BY <2>1 DEF NoDemand
  <2>2. CASE BurnChunk
    <3>1. /\ miner = "reading" /\ miner' = "chunk" /\ left' <= HeatLimit
          /\ UNCHANGED <<hb, hbOk, overrideActive, knownFor, stopSet, orphan>>
      BY <2>2 DEF BurnChunk
    <3>2. left' \in Nat /\ (overrideActive => knownFor = 0)
      BY <2>2, <3>1 DEF BurnChunk
    <3>3. knownFor = 0 => knownFor + left' <= HeatLimit
      BY <3>1, <3>2, KnownStart
    <3>4. overrideActive' /\ miner' = "chunk" => knownFor' + left' <= HeatLimit
      BY <3>1, <3>2, <3>3
    <3> QED
      BY <3>1, <3>2, <3>4
  <2>3. CASE HoldHeater
    BY <2>3 DEF HoldHeater
  <2>4. CASE LoopEnds
    BY <2>4 DEF LoopEnds
  <2>5. CASE PeriodEnds
    BY <2>5 DEF PeriodEnds
  <2>6. CASE Close
    BY <2>6 DEF Close
  <2> QED
    BY <1>3, <2>1, <2>2, <2>3, <2>4, <2>5, <2>6 DEF MinerStep
<1>4. CASE NetworkChanges \/ DemandChanges
  BY <1>4 DEF NetworkChanges, DemandChanges
<1>5. CASE Tick
  <2>1. UNCHANGED <<overrideActive, hb, miner, stopSet>>
    BY <1>5 DEF Tick
  <2>2. CASE ~overrideActive
    BY <1>5, <2>1, <2>2 DEF Tick
  <2>3. CASE overrideActive
    <3>1. hb # "decide" /\ miner # "reading" /\ (miner = "chunk" => left > 0)
      BY <1>5 DEF Tick, MinerSettled, HeartbeatSettled
    <3>2. knownFor' <= knownFor + 1
      BY <1>5 DEF Tick
    <3>3. miner = "chunk" => knownFor' + left' <= HeatLimit
      BY <1>5, <2>3, <3>1, <3>2 DEF Tick, Down
    <3>4. orphan' > 0 => knownFor' + orphan' <= HeatLimit
      BY <1>5, <2>3, <3>2 DEF Tick, Down
    <3> QED
      BY <2>1, <2>3, <3>1, <3>3, <3>4
  <2> QED
    BY <2>2, <2>3
<1>6. CASE AgentRestarts
  BY <1>6 DEF AgentRestarts
<1>7. CASE UNCHANGED allVars
  BY <1>7 DEF allVars
<1> QED
  BY <1>1, <1>2, <1>3, <1>4, <1>5, <1>6, <1>7 DEF FallbackNext

LEMMA FallbackHoldsAtFirst == FallbackInit => VacancyInv /\ HeaterInv /\ QuietInv /\ HeatInv
BY DEF FallbackInit, VacancyInv, HeaterInv, QuietInv, HeatInv

(* In a room it knows to be vacant the agent leaves no autonomous task when *)
(* the heartbeat loop goes on, and the threads such a task may leave behind *)
(* end within a chunk and its overrun, whatever the network, the provider  *)
(* and the demand do, however long the chunk and however far it overruns   *)
(* what stop() waits for (agent.py 568-596, autonomous_mode.py 117-132).   *)
THEOREM KnownVacantUnheatedHolds == FallbackSpec => []KnownVacantUnheated
<1>1. FallbackTypeOK => PlacesOK
  BY DEF FallbackTypeOK, PlacesOK
<1>2. FallbackTypeOK /\ VacancyInv /\ HeatInv => KnownVacantUnheated
  <2> SUFFICES ASSUME PlacesOK, VacancyInv, HeatInv PROVE KnownVacantUnheated
    BY <1>1
  <2>1. HeatLimit \in Nat
    BY FallbackAssumption DEF HeatLimit
  <2> QED
    BY <2>1 DEF PlacesOK, VacancyInv, HeatInv, KnownVacantUnheated
<1> QED
  BY <1>1, <1>2, FallbackHoldsAtFirst, TypeCorrect, VacancyStep, HeatStep, PTL DEF FallbackSpec

(* However autonomous mode ends, by itself, stopped or cancelled, the      *)
(* heater of the room ends with it while Home Assistant obeys              *)
(* (autonomous_mode.py 248-252).                                           *)
THEOREM HeaterEndsWithMinerHolds == FallbackSpec => []HeaterEndsWithMiner
<1>1. HeaterInv => HeaterEndsWithMiner
  BY DEF HeaterInv, HeaterEndsWithMiner
<1>2. FallbackTypeOK => TypeOK /\ FlagsOK
  BY DEF FallbackTypeOK, FlagsOK
<1> QED
  BY <1>1, <1>2, FallbackHoldsAtFirst, HeaterStep, TypeCorrect, PTL DEF FallbackSpec

(* For any length of a chunk, and however late a handler returns, the      *)
(* watchdog is fed within the time stop() may take and a round             *)
(* (agent.py 568-600, watchdog.py 62-66).                                  *)
THEOREM SilenceIsBoundedHolds == FallbackSpec => []SilenceIsBounded
<1>1. PlacesOK /\ QuietInv => SilenceIsBounded
  BY FallbackAssumption DEF PlacesOK, QuietInv, SilenceIsBounded, StopLimit
<1>2. FallbackTypeOK => PlacesOK
  BY DEF FallbackTypeOK, PlacesOK
<1> QED
  BY <1>1, <1>2, FallbackHoldsAtFirst, QuietStep, TypeCorrect, PTL DEF FallbackSpec

-----------------------------------------------------------------------------
(* The schedule the provider follows: VastSchedule, with constants and     *)
(* variables of its own.                                                   *)

(* Induction over the hours is by the least counterexample.                *)
LEMMA Least ==
  ASSUME NEW T \in SUBSET Nat, T # {}
  PROVE  \E m \in T : \A k \in T : m <= k
<1>1. PICK m \in T : \A k \in T : <<k, m>> \notin OpToRel(<, Nat)
  BY WFMin, NatLessThanWellFounded, Zenon
<1>2. \A k \in T : ~(k < m)
  BY <1>1, Zenon DEF OpToRel
<1>3. \A k \in T : m <= k
  BY <1>2
<1> QED
  BY <1>3

(* A run of bad hours that nothing before it extends. *)
Run(w, bands) ==
  /\ w[1] < w[2]
  /\ \A h \in w[1]..w[2] - 1 : weather[h] \in bands
  /\ w[1] > 0 => weather[w[1] - 1] \notin bands

(* The long runs that ended in the first i hours. *)
ClosedRuns(bands, i) ==
  {w \in (0..Hours - 1) \X (1..Hours) :
     Run(w, bands) /\ w[2] - w[1] >= MinHours /\ w[2] < i /\ weather[w[2]] \notin bands}

(* What the loop has found after i hours. *)
Scanned(r, i, bands) ==
  /\ r = [open |-> r.open, closed |-> ClosedRuns(bands, i)]
  /\ r.open \in {NoWindow} \cup 0..i - 1
  /\ r.open # NoWindow => Run(<<r.open, i>>, bands)
  /\ r.open = NoWindow /\ i > 0 => weather[i - 1] \notin bands

(* Two runs that end together are one. *)
LEMMA RunsEndApart ==
  ASSUME NEW bands, NEW v, NEW w, Run(v, bands), Run(w, bands),
         v[1] \in Nat, w[1] \in Nat, v[2] = w[2], w[2] \in Nat
  PROVE  v[1] = w[1]
<1>1. ASSUME NEW x, NEW y, Run(x, bands), Run(y, bands), x[1] \in Nat, y[1] \in Nat,
             x[2] = y[2], y[2] \in Nat, x[1] < y[1]
      PROVE  FALSE
  <2>1. y[1] > 0 /\ y[1] - 1 \in x[1]..x[2] - 1
    BY <1>1 DEF Run
  <2> QED
    BY <1>1, <2>1 DEF Run
<1> QED
  BY <1>1

LEMMA ScanStep ==
  ASSUME NEW bands, NEW i \in 1..Hours, NEW r, Scanned(r, i - 1, bands)
  PROVE  Scanned(ScanHour(r, i - 1, bands), i, bands)
<1> USE ScheduleAssumption DEF NoWindow
<1> DEFINE s == ScanHour(r, i - 1, bands)
           bad == weather[i - 1] \in bands
<1>0. i \in Nat /\ Hours \in Nat /\ i > 0 /\ i <= Hours
  OBVIOUS
<1>1. CASE bad
  <2>1. ClosedRuns(bands, i) = ClosedRuns(bands, i - 1)
    <3> SUFFICES ASSUME NEW w \in (0..Hours - 1) \X (1..Hours)
                 PROVE  w \in ClosedRuns(bands, i) <=> w \in ClosedRuns(bands, i - 1)
      BY DEF ClosedRuns
    <3>1. w[2] \in Nat
      OBVIOUS
    <3>2. w[2] < i => w[2] < i - 1 \/ w[2] = i - 1
      BY <3>1, <1>0
    <3>3. w[2] < i - 1 => w[2] < i
      BY <3>1, <1>0
    <3> QED
      BY <1>1, <3>2, <3>3 DEF ClosedRuns
  <2>2. CASE r.open = NoWindow
    <3>1. s = [open |-> i - 1, closed |-> ClosedRuns(bands, i)]
      BY <1>1, <2>1, <2>2, <1>0 DEF ScanHour, Scanned
    <3>2. Run(<<i - 1, i>>, bands)
      BY <1>0, <1>1, <2>2 DEF Run, Scanned
    <3> QED
      BY <1>0, <3>1, <3>2 DEF Scanned
  <2>3. CASE r.open # NoWindow
    <3>1. s = r
      BY <1>1, <2>3 DEF ScanHour
    <3>2. Run(<<r.open, i>>, bands)
      BY <1>0, <1>1, <2>3 DEF Run, Scanned
    <3> QED
      BY <1>0, <2>1, <2>3, <3>1, <3>2 DEF Scanned
  <2> QED
    BY <2>2, <2>3
<1>2. CASE ~bad /\ r.open = NoWindow
  <2>1. ClosedRuns(bands, i) = ClosedRuns(bands, i - 1)
    <3> SUFFICES ASSUME NEW w \in (0..Hours - 1) \X (1..Hours)
                 PROVE  w \in ClosedRuns(bands, i) <=> w \in ClosedRuns(bands, i - 1)
      BY DEF ClosedRuns
    <3>1. w[1] \in Nat /\ w[2] \in Nat \ {0}
      OBVIOUS
    <3>2. ASSUME Run(w, bands), w[2] = i - 1 PROVE FALSE
      <4>1. i - 1 > 0 /\ i - 2 \in w[1]..w[2] - 1
        BY <1>0, <3>1, <3>2 DEF Run
      <4>2. weather[(i - 1) - 1] \in bands
        BY <1>0, <3>2, <4>1 DEF Run
      <4> QED
        BY <1>2, <4>1, <4>2 DEF Scanned
    <3>3. w[2] < i => w[2] < i - 1 \/ w[2] = i - 1
      BY <3>1, <1>0
    <3>4. w[2] < i - 1 => w[2] < i
      BY <3>1, <1>0
    <3> QED
      BY <3>2, <3>3, <3>4 DEF ClosedRuns
  <2>2. s = r
    BY <1>2 DEF ScanHour
  <2> QED
    BY <1>0, <1>2, <2>1, <2>2 DEF Scanned
<1>3. CASE ~bad /\ r.open # NoWindow
  <2> DEFINE o == r.open
  <2>1. o \in 0..i - 2 /\ o \in Nat
    BY <1>0, <1>3 DEF Scanned
  <2>2. Run(<<o, i - 1>>, bands)
    BY <1>3 DEF Scanned
  <2>3. s = [open |-> NoWindow, closed |-> ClosedRuns(bands, i - 1) \cup Window(o, i - 1)]
    <3>1. r.closed = ClosedRuns(bands, i - 1)
      BY DEF Scanned
    <3> QED
      BY <1>3, <3>1 DEF ScanHour
  <2>4. ASSUME NEW w \in (0..Hours - 1) \X (1..Hours), Run(w, bands), w[2] = i - 1 PROVE w[1] = o
    <3>1. w[1] \in Nat /\ <<o, i - 1>>[2] = w[2]
      BY <2>4
    <3> QED
      BY <2>1, <2>2, <2>4, <3>1, RunsEndApart
  <2>5. ClosedRuns(bands, i - 1) \cup Window(o, i - 1) = ClosedRuns(bands, i)
    <3>1. ASSUME NEW w \in ClosedRuns(bands, i)
          PROVE  w \in ClosedRuns(bands, i - 1) \cup Window(o, i - 1)
      <4>1. w \in (0..Hours - 1) \X (1..Hours) /\ w = <<w[1], w[2]>> /\ w[2] \in Nat
        BY DEF ClosedRuns
      <4>2. CASE w[2] = i - 1
        BY <2>4, <4>1, <4>2 DEF ClosedRuns, Window
      <4>3. CASE w[2] # i - 1
        BY <1>0, <4>1, <4>3 DEF ClosedRuns
      <4> QED
        BY <4>2, <4>3
    <3>2. ASSUME NEW w \in ClosedRuns(bands, i - 1) PROVE w \in ClosedRuns(bands, i)
      BY <1>0, <3>2 DEF ClosedRuns
    <3>3. ASSUME NEW w \in Window(o, i - 1) PROVE w \in ClosedRuns(bands, i)
      <4>1. w = <<o, i - 1>> /\ (i - 1) - o >= MinHours
        BY <3>3 DEF Window
      <4>2. o \in 0..Hours - 1 /\ i - 1 \in 1..Hours /\ i - 1 < i
        BY <1>0, <2>1
      <4> QED
        BY <1>3, <2>2, <4>1, <4>2 DEF ClosedRuns
    <3> QED
      BY <3>1, <3>2, <3>3
  <2>6. s = [open |-> NoWindow, closed |-> ClosedRuns(bands, i)]
    BY <2>3, <2>5
  <2> HIDE DEF s
  <2>7. Scanned(s, i, bands)
    BY <1>0, <1>3, <2>6 DEF Scanned
  <2> QED
    BY <2>7 DEF s
<1> QED
  BY <1>1, <1>2, <1>3

(* The recursion of the loop has a solution, so Scan is one. *)
LEMMA ScanLoops ==
  ASSUME NEW bands
  PROVE  \E scan : /\ scan[0] = [open |-> NoWindow, closed |-> {}]
                   /\ \A i \in 1..Hours : scan[i] = ScanHour(scan[i - 1], i - 1, bands)
                   /\ Scan(bands) = scan[Hours]
<1> USE ScheduleAssumption
<1> DEFINE Entry(g, i) == IF i = 0 THEN [open |-> NoWindow, closed |-> {}]
                                   ELSE ScanHour(g[i - 1], i - 1, bands)
           Loop(g, k) == g = [i \in 0..k |-> Entry(g, i)]
           Bad == {k \in Nat : ~ \E g : Loop(g, k)}
<1> HIDE DEF Loop, Entry
<1>1. Bad = {}
  <2> SUFFICES ASSUME Bad # {} PROVE FALSE
    OBVIOUS
  <2>1. PICK m \in Bad : \A k \in Bad : m <= k
    BY Least
  <2>2. m # 0
    <3> DEFINE g == [i \in 0..0 |-> [open |-> NoWindow, closed |-> {}]]
    <3>1. \A i \in 0..0 : Entry(g, i) = [open |-> NoWindow, closed |-> {}]
      BY DEF Entry
    <3>2. Loop(g, 0)
      BY <3>1 DEF Loop
    <3> QED
      BY <2>1, <3>2
  <2>3. m - 1 \in Nat /\ m - 1 \notin Bad
    BY <2>1, <2>2
  <2>4. PICK g : Loop(g, m - 1)
    BY <2>3
  <2>5. \A i \in 0..m - 1 : g[i] = Entry(g, i)
    BY <2>4 DEF Loop
  <2> DEFINE h == [i \in 0..m |-> IF i < m THEN g[i] ELSE Entry(g, m)]
  <2>6. ASSUME NEW i \in 0..m PROVE h[i] = Entry(h, i)
    <3>1. i # 0 => h[i - 1] = g[i - 1]
      BY <2>3
    <3>2. Entry(h, i) = Entry(g, i)
      BY <3>1 DEF Entry
    <3>3. h[i] = Entry(g, i)
      BY <2>3, <2>5
    <3> QED
      BY <3>2, <3>3
  <2>7. Loop(h, m)
    BY <2>6 DEF Loop
  <2> QED
    BY <2>1, <2>7
<1> DEFINE scan == CHOOSE g : Loop(g, Hours)
<1>2. Loop(scan, Hours)
  BY <1>1
<1>3. Scan(bands) = scan[Hours]
  BY DEF Scan, Loop, Entry
<1>4. \A i \in 0..Hours : scan[i] = Entry(scan, i)
  <2> HIDE DEF scan
  <2> QED
    BY <1>2 DEF Loop
<1>5. /\ scan[0] = [open |-> NoWindow, closed |-> {}]
      /\ \A i \in 1..Hours : scan[i] = ScanHour(scan[i - 1], i - 1, bands)
  <2> HIDE DEF scan
  <2> QED
    BY <1>4 DEF Entry
<1> QED
  BY <1>3, <1>5

LEMMA ScanFinds == ASSUME NEW bands PROVE Scanned(Scan(bands), Hours, bands)
<1> USE ScheduleAssumption
<1>1. PICK scan : /\ scan[0] = [open |-> NoWindow, closed |-> {}]
                  /\ \A i \in 1..Hours : scan[i] = ScanHour(scan[i - 1], i - 1, bands)
                  /\ Scan(bands) = scan[Hours]
  BY ScanLoops
<1> DEFINE Bad == {k \in Nat : k <= Hours /\ ~Scanned(scan[k], k, bands)}
<1>2. Bad = {}
  <2> SUFFICES ASSUME Bad # {} PROVE FALSE
    OBVIOUS
  <2>1. PICK m \in Bad : \A k \in Bad : m <= k
    BY Least
  <2>2. m # 0
    <3>1. ClosedRuns(bands, 0) = {}
      BY DEF ClosedRuns
    <3>2. Scanned(scan[0], 0, bands)
      BY <1>1, <3>1 DEF Scanned, NoWindow
    <3> QED
      BY <2>1, <3>2
  <2>3. m - 1 \in Nat /\ m - 1 \notin Bad /\ m \in 1..Hours
    BY <2>1, <2>2
  <2>4. scan[m] = ScanHour(scan[m - 1], m - 1, bands)
    BY <1>1, <2>3
  <2>5. Scanned(scan[m - 1], m - 1, bands)
    BY <2>3
  <2> QED
    BY <2>1, <2>3, <2>4, <2>5, ScanStep
<1> QED
  BY <1>1, <1>2
(* The loops of cold_windows and hot_windows find the maximal runs of bad   *)
(* hours that are long enough, whatever the forecast.                       *)
LEMMA WindowsFound == ASSUME NEW bands PROVE Windows(bands) = LongRuns(bands)
<1> USE ScheduleAssumption DEF NoWindow
<1> DEFINE o == Scan(bands).open
<1>1. /\ Scan(bands).closed = ClosedRuns(bands, Hours)
      /\ o \in {NoWindow} \cup 0..Hours - 1
      /\ o # NoWindow => Run(<<o, Hours>>, bands)
      /\ o = NoWindow => weather[Hours - 1] \notin bands
  BY ScanFinds DEF Scanned
<1> HIDE DEF o
<1>2. Windows(bands) = ClosedRuns(bands, Hours) \cup (IF o = NoWindow THEN {} ELSE Window(o, Hours))
  BY <1>1 DEF Windows, o
<1>3. ASSUME NEW w \in Windows(bands) PROVE w \in LongRuns(bands)
  <2>1. CASE w \in ClosedRuns(bands, Hours)
    BY <2>1 DEF ClosedRuns, Run, LongRuns
  <2>2. CASE o # NoWindow /\ w \in Window(o, Hours)
    BY <1>1, <2>2 DEF Window, Run, LongRuns
  <2> QED
    BY <1>2, <1>3, <2>1, <2>2
<1>4. ASSUME NEW w \in LongRuns(bands) PROVE w \in Windows(bands)
  <2>1. /\ w \in (0..Hours - 1) \X (1..Hours) /\ w = <<w[1], w[2]>>
        /\ Run(w, bands) /\ w[2] - w[1] >= MinHours
        /\ w[1] \in Nat /\ w[2] \in Nat /\ w[1] < w[2]
    BY DEF LongRuns, Run
  <2>2. CASE w[2] # Hours
    BY <1>2, <2>1, <2>2 DEF LongRuns, ClosedRuns
  <2>3. CASE w[2] = Hours
    <3>1. Hours - 1 \in w[1]..w[2] - 1
      BY <2>1, <2>3
    <3>2. o # NoWindow
      BY <1>1, <2>1, <3>1 DEF Run
    <3>3. w[1] = o
      BY <1>1, <2>1, <2>3, <3>2, RunsEndApart
    <3> QED
      BY <1>2, <2>1, <2>3, <3>2, <3>3 DEF Window
  <2> QED
    BY <2>2, <2>3
<1> QED
  BY <1>3, <1>4

THEOREM WindowsAreLongRunsHolds == ScheduleSpec => []WindowsAreLongRuns
<1>1. WindowsAreLongRuns
  BY WindowsFound DEF WindowsAreLongRuns
<1> QED
  BY <1>1, PTL
-----------------------------------------------------------------------------
LEMMA HoursScale ==
  ASSUME NEW a \in Nat, NEW b \in Nat
  PROVE  /\ a * TicksPerHour \in Nat
         /\ a <= b => a * TicksPerHour <= b * TicksPerHour
         /\ a < b => a * TicksPerHour + TicksPerHour <= b * TicksPerHour
<1>1. TicksPerHour \in Nat
  BY ScheduleAssumption
<1>2. ASSUME NEW x \in Nat, NEW y \in Nat, NEW z \in Nat
      PROVE  /\ x * z \in Nat
             /\ x <= y => x * z <= y * z
             /\ x < y => x * z + z <= y * z
  OBVIOUS
<1> QED
  BY <1>1, <1>2

LEMMA WindowsAreWindows ==
  ASSUME NEW b \in BOOLEAN, NEW w \in NoListWindows(b)
  PROVE  /\ w \in LongRuns(Cold) \/ w \in LongRuns(Hot(b))
         /\ w[1] \in 0..Hours - 1 /\ w[2] \in 1..Hours
<1>1. w \in LongRuns(Cold) \/ w \in LongRuns(Hot(b))
  BY WindowsFound DEF NoListWindows
<1> QED
  BY <1>1, ScheduleAssumption DEF LongRuns

(* The next window of a schedule is the first that starts after it was made. *)
LEMMA NextWindow ==
  ASSUME NEW b \in BOOLEAN, NEW t \in Nat
  PROVE  \/ BuildSchedule(b, t).next = NoWindow
         \/ \E w \in NoListWindows(b) : /\ BuildSchedule(b, t).next = w[1] * TicksPerHour
                                        /\ w[1] * TicksPerHour > t
<1> USE ScheduleAssumption
<1> DEFINE future == {s \in Starts(NoListWindows(b)) : s > t}
<1>1. BuildSchedule(b, t).next = IF future = {} THEN NoWindow
                                 ELSE CHOOSE s \in future : \A o \in future : s <= o
  BY DEF BuildSchedule
<1>2. future \subseteq Nat
  BY WindowsAreWindows, HoursScale DEF Starts
<1>3. ASSUME future # {} PROVE BuildSchedule(b, t).next \in future
  <2>1. \E m \in future : \A k \in future : m <= k
    BY <1>2, <1>3, Least
  <2> HIDE DEF future
  <2> QED
    BY <1>1, <1>3, <2>1
<1> QED
  BY <1>1, <1>3 DEF Starts

LEMMA BuildsSchedule ==
  ASSUME NEW b \in BOOLEAN, NEW t \in Nat
  PROVE  BuildSchedule(b, t) \in Schedules
<1> USE ScheduleAssumption
<1>1. BuildSchedule(b, t).next \in {NoWindow} \cup 0..End
  <2>1. ASSUME NEW w \in NoListWindows(b) PROVE w[1] * TicksPerHour \in 0..End
    BY WindowsAreWindows, HoursScale DEF End
  <2> QED
    BY <2>1, NextWindow
<1>2. BuildSchedule(b, t) = [should |-> BuildSchedule(b, t).should,
                             next |-> BuildSchedule(b, t).next, made |-> TRUE]
  BY DEF BuildSchedule
<1>3. BuildSchedule(b, t).should \in BOOLEAN
  BY DEF BuildSchedule
<1>4. ASSUME NEW should \in BOOLEAN, NEW next \in {NoWindow} \cup 0..End
      PROVE  [should |-> should, next |-> next, made |-> TRUE] \in Schedules
  BY DEF Schedules
<1> QED
  BY <1>1, <1>2, <1>3, <1>4, Zenon
-----------------------------------------------------------------------------
ScheduleInv == ScheduleTypeOK /\ outage <= now

LEMMA ScheduleStarts == ScheduleInit => ScheduleInv
<1> SUFFICES ASSUME ScheduleInit PROVE ScheduleInv
  OBVIOUS
<1>1. End \in Nat /\ RefreshTicks \in Nat
  BY ScheduleAssumption, HoursScale DEF End
<1>2. NoSchedule \in Schedules
  BY DEF NoSchedule, Schedules
<1>3. backendUp \in BOOLEAN /\ wanted \in BOOLEAN /\ weather \in Forecasts /\ behind \in UtcOffsets
  BY Zenon DEF ScheduleInit
<1>4. used \in {"none", "backend", "local"} /\ local \in Schedules
  BY <1>2 DEF ScheduleInit
<1>5. now \in 0..End /\ age \in 0..RefreshTicks /\ outage \in 0..End /\ outage <= now
  BY <1>1 DEF ScheduleInit
<1> QED
  BY <1>3, <1>4, <1>5 DEF ScheduleInv, ScheduleTypeOK

LEMMA ScheduleStep == ScheduleInv /\ [ScheduleNext]_scheduleVars => ScheduleInv'
<1> SUFFICES ASSUME ScheduleInv, [ScheduleNext]_scheduleVars PROVE ScheduleInv'
  OBVIOUS
<1>0. End \in Nat /\ RefreshTicks \in Nat \ {0} /\ now \in Nat /\ outage \in Nat
  BY ScheduleAssumption, HoursScale DEF End, ScheduleInv, ScheduleTypeOK
<1>1. CASE BackendChanges
  BY <1>1 DEF BackendChanges, ScheduleInv, ScheduleTypeOK, Forecasts, Schedules, End
<1>2. ASSUME NextTick, outage' \in 0..outage + 1, local' \in Schedules,
             age' \in 0..RefreshTicks, used' \in {"none", "backend", "local"}, wanted' \in BOOLEAN
      PROVE  ScheduleInv'
  <2>1. weather' \in Forecasts' /\ backendUp' \in BOOLEAN /\ behind' \in UtcOffsets
    BY <1>2 DEF NextTick, ScheduleInv, ScheduleTypeOK, Forecasts
  <2>2. now' \in 0..End /\ outage' \in 0..End /\ outage' <= now'
    BY <1>0, <1>2 DEF NextTick, ScheduleInv, ScheduleTypeOK
  <2> QED
    BY <1>2, <2>1, <2>2 DEF ScheduleInv, ScheduleTypeOK, Schedules, End
<1>3. ASSUME NEW schedule, NEW t PROVE ScheduleWants(schedule, t) \in BOOLEAN
  BY DEF ScheduleWants, IsNearWindow
<1>4. CASE TickOnline
  <2>1. local' \in Schedules /\ age' \in 0..RefreshTicks
    BY <1>4 DEF TickOnline, ScheduleInv, ScheduleTypeOK
  <2>2. NextTick /\ outage' = 0 /\ used' = "backend" /\ wanted' \in BOOLEAN
    BY <1>4 DEF TickOnline
  <2> QED
    BY <1>0, <1>2, <2>1, <2>2
<1>5. CASE TickCached
  <2>1. Older \in 0..RefreshTicks
    BY <1>0 DEF Older, ScheduleInv, ScheduleTypeOK
  <2> QED
    BY <1>0, <1>2, <1>3, <1>5, <2>1 DEF TickCached, ApplySchedule, ScheduleInv, ScheduleTypeOK
<1>6. CASE TickFetches
  <2>1. local' \in Schedules
    BY <1>0, <1>6, BuildsSchedule DEF TickFetches
  <2> QED
    BY <1>0, <1>2, <1>3, <1>6, <2>1 DEF TickFetches, ApplySchedule
<1>7. CASE TickFetchFails
  <2>1. NoSchedule \in Schedules
    BY DEF NoSchedule, Schedules
  <2> QED
    BY <1>0, <1>2, <1>7, <2>1 DEF TickFetchFails, ScheduleInv, ScheduleTypeOK
<1>8. CASE UNCHANGED scheduleVars
  BY <1>8 DEF scheduleVars, ScheduleInv, ScheduleTypeOK, Forecasts, Schedules, End
<1> QED
  BY <1>1, <1>4, <1>5, <1>6, <1>7, <1>8 DEF ScheduleNext

LEMMA ScheduleInvariance == ScheduleSpec => []ScheduleInv
<1> QED
  BY ScheduleStarts, ScheduleStep, PTL DEF ScheduleSpec

(* What an outage keeps and builds is a schedule: the next window, if there *)
(* is one, starts within the forecast.                                      *)
THEOREM ScheduleTypeCorrect == ScheduleSpec => []ScheduleTypeOK
<1>1. ScheduleInv => ScheduleTypeOK
  BY DEF ScheduleInv
<1> QED
  BY <1>1, ScheduleInvariance, PTL
-----------------------------------------------------------------------------
LEMMA ShiftsScale ==
  ASSUME NEW a \in Int, NEW b \in Int, NEW c \in Nat
  PROVE  /\ a * c \in Int /\ b * c \in Int
         /\ (a - b) * c = a * c - b * c
         /\ b <= 0 => b * c <= 0
OBVIOUS

(* A schedule made within a cold spell does not list the machine before it  *)
(* is over, where a window is not taken for near: no other window starts in *)
(* the spell, nor in the hour after it.                                     *)
LEMMA SpellIsKept ==
  ASSUME weather \in Forecasts, behind \in UtcOffsets, PreListTicks < TicksPerHour,
         NEW b \in BOOLEAN, NEW made \in Nat, NEW t \in Nat, made <= t,
         NEW w \in LongRuns(Cold), w[1] * TicksPerHour <= made, t <= w[2] * TicksPerHour
  PROVE  ~ScheduleWants(BuildSchedule(b, made), t) \/ TakenForNear(t)
<1> USE ScheduleAssumption
<1> SUFFICES ASSUME ~TakenForNear(t) PROVE ~ScheduleWants(BuildSchedule(b, made), t)
  OBVIOUS
<1> DEFINE schedule == BuildSchedule(b, made)
<1>0. w[1] \in 0..Hours - 1 /\ w[2] \in 1..Hours /\ w[1] < w[2]
  BY DEF LongRuns
<1>1. schedule.should = FALSE
  <2>1. w \in NoListWindows(b)
    BY WindowsFound DEF NoListWindows
  <2>2. InWindow(w, made)
    BY <1>0, HoursScale DEF InWindow
  <2> QED
    BY <2>1, <2>2 DEF BuildSchedule
<1>2. ASSUME IsNearWindow(schedule.next, t) PROVE FALSE
  <2>1. PICK v \in NoListWindows(b) : /\ schedule.next = v[1] * TicksPerHour
                                      /\ v[1] * TicksPerHour > made
    BY <1>2, NextWindow DEF IsNearWindow
  <2>2. v[1] \in 0..Hours - 1 /\ v[2] \in 1..Hours
    BY WindowsAreWindows
  <2>3. v[1] * TicksPerHour <= t + PreListTicks
    <3> DEFINE shift == behind * TicksPerHour
    <3>1. /\ shift \in Int /\ v[1] * TicksPerHour \in Int /\ (behind <= 0 => shift <= 0)
          /\ (v[1] - behind) * TicksPerHour = v[1] * TicksPerHour - shift
      BY <2>2, ShiftsScale
    <3>2. /\ 0 <= v[1] * TicksPerHour - (t + shift)
          /\ v[1] * TicksPerHour - (t + shift) <= PreListTicks
      BY <1>2, <2>1 DEF IsNearWindow
    <3> HIDE DEF shift
    <3>3. (v[1] - behind) * TicksPerHour \in t..(t + PreListTicks)
      BY <3>1, <3>2
    <3>4. ~(behind > 0)
      BY <2>1, <3>3, WindowsAreWindows DEF TakenForNear
    <3> QED
      BY <3>1, <3>2, <3>4
  <2>4. w[1] < v[1]
    BY <1>0, <2>1, <2>2, HoursScale
  <2>5. v[1] <= w[2]
    <3>1. SUFFICES ASSUME w[2] < v[1] PROVE FALSE
      BY <1>0, <2>2
    <3>2. w[2] * TicksPerHour + TicksPerHour <= v[1] * TicksPerHour
      BY <1>0, <2>2, <3>1, HoursScale
    <3>3. w[2] * TicksPerHour \in Nat /\ v[1] * TicksPerHour \in Nat
      BY <1>0, <2>2, HoursScale
    <3> QED
      BY <2>3, <3>2, <3>3
  <2>6. weather[v[1] - 1] \in Cold /\ v[1] \in 1..Hours - 1
    BY <1>0, <2>2, <2>4, <2>5 DEF LongRuns
  <2>7. CASE v \in LongRuns(Cold)
    BY <2>6, <2>7 DEF LongRuns
  <2>8. CASE v \in LongRuns(Hot(b))
    <3>1. weather[v[1]] \in Hot(FALSE)
      BY <2>2, <2>8 DEF LongRuns, Hot
    <3> QED
      BY <2>6, <3>1 DEF Forecasts
  <2> QED
    BY <2>7, <2>8, WindowsAreWindows
<1> QED
  BY <1>1, <1>2 DEF ScheduleWants

(* A cached schedule was made as long ago as its age says, or the outage is *)
(* younger than it.                                                         *)
CacheInv ==
  local.made => \E b \in BOOLEAN, made \in Nat :
                  /\ local = BuildSchedule(b, made)
                  /\ made + 1 + age = now \/ (made < now /\ outage <= age)

LEMMA CacheStep == ScheduleInv /\ CacheInv /\ [ScheduleNext]_scheduleVars => CacheInv'
<1> SUFFICES ASSUME ScheduleInv, CacheInv, [ScheduleNext]_scheduleVars, local'.made PROVE CacheInv'
  BY DEF CacheInv
<1>0. now \in Nat /\ outage \in Nat /\ age \in Nat /\ RefreshTicks \in Nat
  BY ScheduleAssumption, HoursScale DEF End, ScheduleInv, ScheduleTypeOK
<1>1. weather' = weather
  BY DEF ScheduleNext, BackendChanges, TickOnline, TickCached, TickFetches,
         TickFetchFails, NextTick, scheduleVars
<1>2. \A b, t : BuildSchedule(b, t)' = BuildSchedule(b, t)
  BY <1>1 DEF BuildSchedule, NoListWindows, Windows, Scan, ScanHour, InWindow, Starts, Window
<1>3. ASSUME local' = local,
             \A made \in Nat : made + 1 + age = now \/ (made < now /\ outage <= age)
               => made + 1 + age' = now' \/ (made < now' /\ outage' <= age')
      PROVE  CacheInv'
  BY <1>2, <1>3 DEF CacheInv
<1>4. CASE BackendChanges \/ UNCHANGED scheduleVars
  BY <1>3, <1>4 DEF BackendChanges, scheduleVars
<1>5. CASE TickOnline
  BY <1>0, <1>3, <1>5 DEF TickOnline, NextTick
<1>6. CASE TickCached
  <2>1. age' = age + 1
    BY <1>0, <1>6 DEF TickCached, MustFetch, Older
  <2> QED
    BY <1>0, <1>3, <1>6, <2>1 DEF TickCached, NextTick
<1>7. CASE TickFetches
  <2>1. PICK b \in BOOLEAN : local' = BuildSchedule(b, now)
    BY <1>7 DEF TickFetches
  <2>2. now + 1 + age' = now'
    BY <1>0, <1>7 DEF TickFetches, NextTick
  <2> QED
    BY <1>0, <1>2, <2>1, <2>2 DEF CacheInv
<1>8. CASE TickFetchFails
  BY <1>8 DEF TickFetchFails, NoSchedule
<1> QED
  BY <1>4, <1>5, <1>6, <1>7, <1>8 DEF ScheduleNext

LEMMA SpellStep ==
  ASSUME PreListTicks < TicksPerHour,
         ScheduleInv, CacheInv, [ScheduleNext]_scheduleVars,
         used' = "local", outage' > RefreshTicks, local'.made, now' # now,
         NEW w \in LongRuns(Cold), w[1] * TicksPerHour + RefreshTicks < now, InWindow(w, now)
  PROVE  ~wanted' \/ TakenForNear(now)
<1>0. now \in Nat /\ outage \in Nat /\ age \in Nat /\ RefreshTicks \in Nat /\ weather \in Forecasts
      /\ behind \in UtcOffsets
  BY ScheduleAssumption, HoursScale DEF End, ScheduleInv, ScheduleTypeOK
<1>1. w[1] * TicksPerHour \in Nat /\ w[2] * TicksPerHour \in Nat
  <2>1. w[1] \in Nat /\ w[2] \in Nat
    BY ScheduleAssumption DEF LongRuns
  <2> QED
    BY <2>1, HoursScale
<1>2. CASE TickCached
  <2>1. local.made /\ age + 1 < RefreshTicks /\ outage >= RefreshTicks
    BY <1>0, <1>2 DEF TickCached, MustFetch, Older
  <2>2. PICK b \in BOOLEAN, made \in Nat :
               /\ local = BuildSchedule(b, made)
               /\ made + 1 + age = now \/ (made < now /\ outage <= age)
    BY <2>1 DEF CacheInv
  <2>3. made <= now /\ w[1] * TicksPerHour <= made
    BY <1>0, <1>1, <2>1, <2>2
  <2>4. ~ScheduleWants(local, now) \/ TakenForNear(now)
    BY <1>0, <2>2, <2>3, SpellIsKept DEF InWindow
  <2> QED
    BY <1>2, <2>4 DEF TickCached, ApplySchedule
<1>3. CASE TickFetches
  <2>1. PICK b \in BOOLEAN : local' = BuildSchedule(b, now)
    BY <1>3 DEF TickFetches
  <2>2. ~ScheduleWants(BuildSchedule(b, now), now) \/ TakenForNear(now)
    BY <1>0, <1>1, SpellIsKept DEF InWindow
  <2> QED
    BY <1>3, <2>1, <2>2 DEF TickFetches, ApplySchedule
<1> QED
  BY <1>2, <1>3 DEF ScheduleNext, BackendChanges, TickOnline, TickFetchFails,
                       NoSchedule, scheduleVars

(* With a margin under an hour an outage leaves the machine to the miner in *)
(* a cold spell, whatever the weather before and after it, the refresh      *)
(* period, the times at which fetches fail and the time zone, but for the   *)
(* windows that are as far ahead as local time is behind UTC.               *)
THEOREM ColdSpellIsMinedHolds ==
  ASSUME PreListTicks < TicksPerHour
  PROVE  ScheduleSpec => ColdSpellIsMined
<1>1. ScheduleInit => CacheInv
  BY DEF ScheduleInit, CacheInv, NoSchedule
<1>2. ScheduleInv /\ CacheInv /\ [ScheduleNext]_scheduleVars =>
        [used' = "local" /\ outage' > RefreshTicks /\ local'.made /\ now' # now =>
           \A w \in LongRuns(Cold) :
             w[1] * TicksPerHour + RefreshTicks < now /\ InWindow(w, now) =>
               ~wanted' \/ TakenForNear(now)]_scheduleVars
  BY SpellStep
<1> QED
  BY <1>1, <1>2, ScheduleInvariance, CacheStep, PTL DEF ScheduleSpec, ColdSpellIsMined
=============================================================================
