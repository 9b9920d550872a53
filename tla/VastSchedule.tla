----------------------------- MODULE VastSchedule -----------------------------
(***************************************************************************)
(* Where the listing decision comes from: _vast_loop (agent.py) asks the   *)
(* backend for a schedule and, while it is out of reach, builds one from a *)
(* weather forecast (weather.py) that it caches between refreshes; the     *)
(* provider adds the pre-listing margin (vast_provider.py).  Temperatures  *)
(* are bands, and time is counted in ticks of the loop.                    *)
(***************************************************************************)
EXTENDS Integers, FiniteSets

CONSTANTS
  Hours,         \* hours of weather that are modelled
  TicksPerHour,  \* ticks of the loop in an hour (60 in the defaults)
  MinHours,      \* vast_min_cold_hours
  RefreshTicks,  \* vast_weather_refresh_sec, in ticks
  PreListTicks,  \* vast_pre_list_minutes, in ticks
  UtcOffsets     \* hours that local time may be behind UTC, negative when ahead

ASSUME ScheduleAssumption ==
  /\ Hours \in Nat \ {0} /\ TicksPerHour \in Nat \ {0} /\ MinHours \in Nat \ {0}
  /\ RefreshTicks \in Nat \ {0} /\ PreListTicks \in Nat
  /\ UtcOffsets \subseteq Int

VARIABLES
  weather,       \* band of each hour; the forecast is right
  behind,        \* hours that the local time of this node is behind UTC
  now,           \* local time, in ticks
  backendUp,     \* the backend answers
  local,         \* _local_schedule, or NoSchedule
  age,           \* _local_schedule_age, in ticks
  used,          \* where the provider's last schedule came from
  wanted,        \* want_listed of the last update()
  outage         \* ticks since the backend last answered

scheduleVars == <<weather, behind, now, backendUp, local, age, used, wanted, outage>>

(* "warm" lies between the configured floor and the thermostat's setpoint. *)
Bands == {"cold", "mild", "warm", "hot"}
Cold == {"cold"}
Hot(setpointRead) == IF setpointRead THEN {"hot"} ELSE {"warm", "hot"}

(* From one hour to the next it does not get from cold to hot or back. *)
Forecasts == {f \in [0..Hours - 1 -> Bands] :
                \A h \in 1..Hours - 1 :
                  {f[h - 1], f[h]} \cap Cold # {} => {f[h - 1], f[h]} \cap Hot(FALSE) = {}}

End == Hours * TicksPerHour
NoWindow == -1
NoSchedule == [should |-> FALSE, next |-> NoWindow, made |-> FALSE]
Schedules == [should : BOOLEAN, next : {NoWindow} \cup 0..End, made : BOOLEAN]

ScheduleTypeOK ==
  /\ weather \in Forecasts
  /\ behind \in UtcOffsets
  /\ now \in 0..End
  /\ backendUp \in BOOLEAN
  /\ local \in Schedules
  /\ age \in 0..RefreshTicks
  /\ used \in {"none", "backend", "local"}
  /\ wanted \in BOOLEAN
  /\ outage \in 0..End

-----------------------------------------------------------------------------
(* cold_windows and hot_windows: one pass over the hours.                  *)

Window(first, stop) == IF stop - first >= MinHours THEN {<<first, stop>>} ELSE {}

(* One hour of the loop: a run opens, goes on, or is closed.               *)
ScanHour(before, hour, bands) ==
  LET bad == weather[hour] \in bands
  IN  CASE bad /\ before.open = NoWindow -> [before EXCEPT !.open = hour]
        [] ~bad /\ before.open # NoWindow ->
             [open |-> NoWindow, closed |-> before.closed \cup Window(before.open, hour)]
        [] OTHER -> before

(* The windows closed in the first i hours, and the open run's first hour. *)
Scan(bands) ==
  LET scan[i \in 0..Hours] == IF i = 0 THEN [open |-> NoWindow, closed |-> {}]
                              ELSE ScanHour(scan[i - 1], i - 1, bands)
  IN  scan[Hours]

(* Mutation: a run that lasts to the end of the forecast is dropped. *)
WindowsClosed(bands) == Scan(bands).closed

Windows(bands) ==
  LET scan == Scan(bands)
  IN  scan.closed \cup IF scan.open = NoWindow THEN {} ELSE Window(scan.open, Hours)

NoListWindows(setpointRead) == Windows(Cold) \cup Windows(Hot(setpointRead))

(* currently_cold, currently_hot: both ends belong to the window. *)
InWindow(w, t) == w[1] * TicksPerHour <= t /\ t <= w[2] * TicksPerHour

Starts(windows) == {w[1] * TicksPerHour : w \in windows}

(* build_vast_schedule *)
BuildSchedule(setpointRead, t) ==
  LET windows == NoListWindows(setpointRead)
      future == {s \in Starts(windows) : s > t}
  IN  [should |-> \A w \in windows : ~InWindow(w, t),
       next |-> IF future = {} THEN NoWindow
                ELSE CHOOSE s \in future : \A o \in future : s <= o,
       made |-> TRUE]

(* _is_near_window takes the naive local time for UTC. *)
IsNearWindow(next, t) ==
  LET delta == next - (t + behind * TicksPerHour)
  IN  next # NoWindow /\ 0 <= delta /\ delta <= PreListTicks

(* update(), without an override of the operator. *)
ScheduleWants(schedule, t) == schedule.should \/ IsNearWindow(schedule.next, t)

-----------------------------------------------------------------------------
ScheduleInit ==
  /\ weather \in Forecasts /\ behind \in UtcOffsets
  /\ now = 0
  /\ backendUp \in BOOLEAN
  /\ local = NoSchedule /\ age = RefreshTicks
  /\ used = "none" /\ wanted = FALSE
  /\ outage = 0

BackendChanges ==
  /\ now < End
  /\ backendUp' = ~backendUp
  /\ UNCHANGED <<weather, behind, now, local, age, used, wanted, outage>>

NextTick == now < End /\ now' = now + 1 /\ UNCHANGED <<weather, behind, backendUp>>

(* The backend's schedule is its own; the cache is left as it is. *)
TickOnline ==
  /\ backendUp
  /\ used' = "backend"
  /\ wanted' \in BOOLEAN
  /\ outage' = 0
  /\ NextTick
  /\ UNCHANGED <<local, age>>

(* The age of the cache is that of the ticks spent offline. *)
Older == IF age < RefreshTicks THEN age + 1 ELSE age
MustFetch == ~local.made \/ Older >= RefreshTicks

ApplySchedule(schedule) ==
  /\ used' = "local"
  /\ wanted' = ScheduleWants(schedule, now)

(* Mutation: a cached schedule does not age. *)
TickStale ==
  /\ ~backendUp /\ ~MustFetch
  /\ ApplySchedule(local)
  /\ outage' = outage + 1
  /\ NextTick
  /\ UNCHANGED <<local, age>>

TickCached ==
  /\ ~backendUp /\ ~MustFetch
  /\ ApplySchedule(local)
  /\ age' = Older
  /\ outage' = outage + 1
  /\ NextTick
  /\ UNCHANGED local

TickFetches ==
  /\ ~backendUp /\ MustFetch
  /\ \E setpointRead \in BOOLEAN :
       local' = BuildSchedule(setpointRead, now)
  /\ ApplySchedule(local')
  /\ age' = 0
  /\ outage' = outage + 1
  /\ NextTick

(* No forecast: no schedule, no update, and the next tick tries again. *)
TickFetchFails ==
  /\ ~backendUp /\ MustFetch
  /\ local' = NoSchedule
  /\ age' = 0
  /\ outage' = outage + 1
  /\ NextTick
  /\ UNCHANGED <<used, wanted>>

ScheduleNext == BackendChanges \/ TickOnline \/ TickCached \/ TickFetches \/ TickFetchFails

ScheduleSpec == ScheduleInit /\ [][ScheduleNext]_scheduleVars

-----------------------------------------------------------------------------
(* The windows are the maximal runs of bad hours that last long enough:    *)
(* the reference for the loops of weather.py lines 196-322.                *)
LongRuns(bands) ==
  {w \in (0..Hours - 1) \X (1..Hours) :
     /\ w[1] < w[2] /\ w[2] - w[1] >= MinHours
     /\ \A h \in w[1]..w[2] - 1 : weather[h] \in bands
     /\ w[1] > 0 => weather[w[1] - 1] \notin bands
     /\ w[2] < Hours => weather[w[2]] \notin bands}

WindowsAreLongRuns ==
  \A bands \in {Cold, Hot(TRUE), Hot(FALSE)} : Windows(bands) = LongRuns(bands)

(* What the naive comparison of vast_provider.py 507-515 takes for a window *)
(* that is about to start: one that starts as far ahead as local time is   *)
(* behind UTC.                                                             *)
TakenForNear(t) ==
  /\ behind > 0
  /\ \E v \in LongRuns(Cold) \cup LongRuns(Hot(TRUE)) \cup LongRuns(Hot(FALSE)) :
       (v[1] - behind) * TicksPerHour \in t..(t + PreListTicks)

(* In a lasting outage the listing follows the weather: the machine is not *)
(* wanted listed in a long cold spell that began more than a refresh ago,  *)
(* however old the cached schedule, unless the margin is taken for reached *)
(* hours too early (weather.py lines 339-343, agent.py 822-840).           *)
ColdSpellIsMined ==
  [][used' = "local" /\ outage' > RefreshTicks /\ local'.made /\ now' # now =>
       \A w \in LongRuns(Cold) :
         w[1] * TicksPerHour + RefreshTicks < now /\ InWindow(w, now) =>
           ~wanted' \/ TakenForNear(now)]_scheduleVars
=============================================================================
