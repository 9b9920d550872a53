# hadcd-agent in TLA+

The HADCD agent turns a heated room into a place for computing: a daemon on a
node in the building reads the thermostat, tells a dispatcher (the backend)
whether the room needs heat, runs the work the dispatcher sends, rents the
machine out on Vast.AI when nobody heats with it, mines for heat when the
dispatcher is away, keeps replicas of storage assets, and hosts rental sessions
in Docker containers. This directory holds TLA+ models of the agent, the TLC
configurations that check them, and TLAPS proofs of their main properties.

Contents: [the system](#the-system) · [the modules](#the-modules) ·
[the runs](#the-runs) · [bounds](#bounds) · [fairness](#fairness) ·
[the proofs](#the-proofs) · [where code and comments disagree](#where-the-code-and-its-comments-disagree) ·
[what is not modelled](#what-is-not-modelled) · [plan](#plan)

Paths are relative to `src/`. "Lines" without a file are those of the module's
own source, as `PROJECT.json` maps them.

## The system

One asyncio process, `agent/agent.py`, runs its loops side by side with
`asyncio.gather`. Blocking work goes to threads (`run_in_executor`) or to a
`ProcessPoolExecutor`. There are no locks: whatever two loops share is
interleaved at every `await`.

| component | source | state it keeps | operations |
|---|---|---|---|
| heartbeat loop | `agent/agent.py` 400-600 | `_hb_ok`, `_offline_since`, ack flags | POST, read the answer, push settings, queue models, hand sessions over, decide on fallback, feed the watchdog |
| rental session handler | `agent/rental_session_handler.py` | `_active`, `_stopping`, `_reconciling`; containers by name | start, reconcile, stop, POST /activate, /stopped, /lost |
| Vast.AI provider | `agent/vast_provider.py` | `_state`, `_listed_at`, `_override` | `update()` in a thread: list, unlist, count rentals, close a session |
| Vast.AI schedule | `agent/agent.py` `_vast_loop`, `agent/weather.py` | the cached forecast, the current schedule | fetch, compute windows, decide whether to list |
| vacancy override, demand loop | `agent/agent.py` 600-700, `agent/state.py` | `_heat_override_active`, `saved_setpoint_c`, `_needs_heat` | read, save, lower, restore |
| autonomous fallback | `agent/agent.py`, `agent/autonomous_mode.py`, `agent/watchdog.py` | miner task, stop event, heater flag | start, stop, mine a chunk, hold the heater, feed the watchdog |
| storage replication | `agent/agent.py` 1366-1633 | `pool/<sha256>`, `.part` files | poll, fetch from peer or relay, verify, ack, sweep |
| peer storage server | `agent/storage_server.py` | one request at a time, an open file | look, announce a size, open, send |
| work assignments | `agent/agent.py` 700-1170, `agent/executor.py`, `agent/blob_client.py`, `agent/__main__.py` | in-flight tasks, job directories, process pool | poll, download, run, upload, post, file a session, drain |
| fill handlers | `hadcd_workloads/gpu_mining_fill.py`, `p2pool_fill.py`, `synthetic_heat_fill.py` | the process they started, paused or not | start, look at the GPU, pause, resume, terminate, kill, log |
| container tasks, image cache | `hadcd_workloads/container.py`, `agent/image_cache.py` | Docker's containers, network and images | pull, create, start, wait, kill, remove, prune |
| Ecobee heat source | `agent/heat_source.py` | refresh token in memory and on disk | refresh, read |
| settings push, model sync | `agent/agent.py` 440-520, 1250-1361 | `agent.env`, model files, `.part` files | write, ack, restart, download |
| Wi-Fi provisioning | `agent/wifi_provision.py` | NetworkManager profiles | check, hotspot, form, connect, clean up |
| set-up wizard | `agent/provisioner.py` | `agent.env` | skip or serve, save a form, restart the agent |
| start and enrollment | `agent/__main__.py`, `agent/agent.py` 119-168, `agent/state.py` | identity in memory and in the state file | validate, load, register, save |

How they interact:

- The heartbeat's answer starts rental tasks, settings pushes and model syncs
  and carries the vacancy flag. Its success or failure starts and stops the
  autonomous miner.
- The miner asks the Vast.AI provider whether the machine is offered or rented;
  that state changes in another thread. `_vast_loop` feeds the provider a
  schedule, from the backend or from the local weather.
- The demand loop, the override and `_vast_loop` read the same heat source. For
  Ecobee each read may rotate the one refresh token.
- The transfer loop, the sweep and the thread that serves other nodes share the
  pool directory; the coroutine of a task shares its directory with a handler in
  another process; container handlers in several processes share one Docker
  daemon with the prunes. Fill handlers share the GPU with each other and with
  whoever uses the machine.
- systemd restarts the agent when the watchdog is not fed. Everything in memory
  is lost; containers, files, profiles and tokens stay.
- At boot systemd runs the WiFi provisioner, then the wizard, then the agent,
  which restarts until it has settings it accepts, a backend and an identity, or
  until systemd gives it up.

What is hard about it, and what correctness means for each part:

| part | hard behaviour | correct means |
|---|---|---|
| rental sessions | start, reconcile and stop of one session overlap; POSTs are sent once; restarts forget the map | one task holds the container, teardown only on request, every stop completes and leaves no container, a loss is noticed |
| Vast.AI | commands time out after they acted; rentals start and end meanwhile | off the market while draining, no session closed over a rental, the wish is carried out |
| vacancy | crash between the file and the thermostat | the old setpoint is recoverable and comes back |
| fallback | stop() is awaited in the loop that feeds the watchdog; the provider changes under it | no heating of a room known to be vacant, mining follows the outage, bounded silence |
| storage | sweep against transfer and against readers in a thread, lost acks, crashes | peers receive whole files, acked means stored, jobs end, garbage goes |
| work | worker deaths, cancellation at any await, drain | a directory outlives its handler; one fate, told once and truly; each task is reported |
| fill slices | miners that ignore a signal, that are stopped, or whose worker dies; users who come to the GPU | no miner outlives its slice, the GPU is given up before the deadline |
| containers | prunes against pulls, workers that die | no container left, budget kept |
| Ecobee | concurrent refreshes of a rotating token | the valid token is known and on disk |
| pushes | boolean acks, lost answers, shared `.part` files | acked settings are on disk and take effect, models arrive whole |
| Wi-Fi | any profile counts as configured | a run that skips is right to, no hotspot stays |
| set-up | wizard and agent judge `agent.env` by different tests; a registration's answer or its file is lost | a node whose wizard has closed comes up; registered once |

`PROJECT.json` lists every hazard at its line with the properties about it, or
with the reason there is none.

## The modules

Each component has a module, and components that interact are composed. The `MC*` modules are the instances TLC runs,
`*_proofs` hold the theorems. A definition under a comment that begins with
"Mutation" is no part of its model: it is the one after it, or one nearby, with
a plausible bug, and shows that a property would notice that bug.

| module | models | composes |
|---|---|---|
| `SessionContract` | what the handler promises: how a session's status and its container may move | |
| `RentalSessions` | `rental_session_handler.py` with heartbeat, Docker and POSTs | implements `SessionContract` |
| `VastProvider` | `vast_provider.py` with the marketplace | |
| `VastSchedule` | `_vast_loop`, `weather.py`, `_effective_should_list` | |
| `HeatOverride` | `_apply_heat_override`, `_demand_loop`, the saved setpoint | |
| `OfflineFallback` | heartbeat decisions, `autonomous_mode.py`, watchdog | `EXTENDS VastProvider`, whose steps it takes |
| `ReplicaContract` | what the node promises about a replica: acknowledged means stored, removed means gone | |
| `StoragePool` | transfer loop and sweep | implements `ReplicaContract` |
| `ServedPool` | `storage_server.py` beside them | `EXTENDS StoragePool` |
| `TaskContract` | what the agent promises about a task: one fate, told once and truly, one heat session for a success | |
| `WorkAssignments` | work loop, task coroutine, executor, blobs, drain | implements `TaskContract` |
| `FillSlices` | the three fill handlers, their processes, the GPU | |
| `FillWork` | tasks whose fill handlers run in the pool | `EXTENDS WorkAssignments`, `INSTANCE FillSlices WITH Slices <- Fill` |
| `ContainerRuns` | `container.py` handlers and `image_cache.py` on one daemon | |
| `EcobeeTokens` | the Ecobee source | |
| `RemoteConfig` | settings push | |
| `MediaSync` | media model sync | |
| `HeartbeatPushes` | both pushes carried by one heartbeat and ended by one restart | `EXTENDS RemoteConfig`, `INSTANCE MediaSync WITH delivered <- shown` |
| `WifiProvision` | `provision()` and its `nmcli` commands | |
| `NodeSetup` | wizard, start of the agent, enrollment, state file, systemd's order and restarts | `EXTENDS WifiProvision` |

How state and actions correspond to code:

**RentalSessions.** `status` is the dispatcher's row; `reply` the heartbeat
answer under way; `net` the POSTs under way; `box` and `maker` Docker's
container of the session and the start task that made it; `active`, `stopping`
and `reconciling` the handler's marks. A start task goes idle → pulling → made →
up, one step per Docker call in its thread, because the event loop runs between
them. A reconcile asks, finds and posts. `_stop_session` calls Docker in the
event loop without an await, so it is one step up to its POST. `Restart` clears
all that is in memory. `late` names the sessions a container of which was being
created, or could not be removed, when they were last torn down. SSH keys, ports and image names are left out.

**VastProvider.** `update()` is split at the `vastai` call: `Update` decides and
starts a command, `Cli...` is what the marketplace does and what comes back
(success, clean failure, a timeout that hid an effect, JSON of a shape the
parser does not know), and `Apply...` what the code does with the answer.
`shouldList` is the schedule with the pre-listing margin applied; it may flip at
any time.

**VastSchedule.** Time advances in ticks of the loop. Each hour has one of the
temperature bands the thresholds tell apart. The forecast is right; what is
checked is the windows and the decision. `Scan` is the loop of `weather.py`
over the hours and `ScanHour` its body, which opens, extends, closes and filters
runs; `age` is that of the cached schedule as the loop counts it, in ticks
without the backend. `behind` is how many hours local time is behind UTC, any of
`UtcOffsets`.

**HeatOverride.** `pc` is where `_apply_heat_override` awaits the thermostat or
is about to write its file. Each read, write and save may fail. `comfort`
follows what people choose on the thermostat; they do so in an
open room, and while the agent is not in the middle of a switch (`PersonSets`): a
choice made between its awaited calls would be overwritten, and is left out.

**OfflineFallback.** `hb` is the position in a heartbeat round, `waited` and
`quiet` count ticks of about 30 s, `miner` is where `AutonomousMiner._loop` is.
`stop()` sets the event, waits up to a chunk and 30 s, then cancels. The loop
looks at the event, then reads the thermostat, then starts a chunk, so a stop
that comes during the read still waits for a whole one. What is cancelled is the
asyncio task: the threads of its chunk and their miners go on (`orphan`) until
the chunk is over, with no one to wait for them, at most `HeatLimit`, the chunk
and the longest overrun. `knownFor` is how long the room has been known to be
vacant. A restart ends the threads and the miners too, which are in the control
group of the unit. The provider below is the real `VastProvider`, its commands still under way while
the heartbeat loop decides; `AgentRestarts` restarts both.

**StoragePool.** `job` is the backend's row of an asset; `file` and `tmp` the
pool file and its `.part`; `phase` and `cur` the transfer under way; `manifest`
what the sweep has fetched and not yet applied. `late` names the assets that
were added while a manifest was on its way. The contract sees of this the rows,
`Held`, the assets whose file is whole, and `late`.

**ServedPool.** `do_GET` in four steps, exists, stat and header, open, send,
between any of which the agent's loops may rename or unlink the file. `handle`
is what the open file holds: an unlink takes the name, not the data. An error
after the header ends the answer short of its announced length, which the peer
notices.

**WorkAssignments.** One coroutine per task with its position, its item in the
pool, its directory, and `result`, what the backend heard. `stop` goes from no
through stopping and draining to down, by a signal or by a loop that raised.
`Fate` maps this to the contract: what became of a task is decided when its
handler returns or its worker dies, and only then may it be told.

**FillSlices, FillWork.** `slice` is where a handler is in its loop, `proc` the
process it started: mining, paused (SIGSTOP), gone. `kind` is one of GPU, CPU
and burn; only the first looks at the GPU, only the last can start half of its
processes. A handler begins and ends with its pool item. A process that is not
terminated in time is killed, a paused one does not hear of a termination. When
a worker dies its pool terminates the others too; what they had started goes on
until systemd ends the control group. `guests` are other programs that compute
on the card; nvidia-smi lists only those, and may fail.

**ContainerRuns.** A handler's `pc` moves through checks, network, pull, create,
start, wait, kill and remove; each is one Docker call. `gc` is the prune in the
coroutine's thread after the task, unless the coroutine has raised (`excused`);
`prepull` is the thread at start. A creation may take effect although its answer
is lost (`CreateUnanswered`). A prune may take the image that another handler has
just pulled: that handler fails, and is `robbed`. An image is one unit of disk. Dangling layers come from pulls of moved tags.

**EcobeeTokens.** Refresh tokens are numbered by rotation. `at` of a caller is
inside the token request, after its answer, or in the thermostat request; the
state file is written by the step that takes the answer, as the code does
without an await. An error of that write leaves `read()`. The vacancy override,
the miner and `_vast_loop` catch it; the demand loop does not (`Unguarded`), so
that `gather` raises and the agent ends (`AgentEnds`), the other loops going on
until it has, and starts again from its file.

**RemoteConfig, MediaSync, HeartbeatPushes.** `pending` and `queue` are the
backend's; `answer` and `shown` are what the answer under way carries. `env` is
the file, `live` what the process runs with, which comes from the environment of
systemd's unit. The restart is `systemctl restart`, or, where that fails or times
out, `os.execv` of `sys.argv`: the agent was started by `python -m agent`, so the
new process looks for its modules inside the package (`agent.agent` in
`agent/agent.py`), raises ModuleNotFoundError, and the unit starts it afresh
(`ExecFallback`, `SystemdStarts`). Without such a unit it stays down. A sync task
begins only where COMFYUI_MODELS_PATH is set (`configured`), ends as a whole when a
directory cannot be made, and else opens the shared
`.part`, writes by its own descriptor, renames. `agent.env` is written in one
step: `write_text` truncates and writes with no await between, and a crash
inside it is left out.

**WifiProvision.** One step per `nmcli` command, each of which may fail, or
time out with or without effect. `holder` are the forms submitted while the
HTTP server answers, `done` that one of them has been answered; `stranded` records that something outside (a failed
clean-up command, a power cut) left a profile.

**NodeSetup.** `env` has, for each field the tests look at, no value, the
template's placeholder or a value somebody gave; `typo` is a number that is
none. `wizard` and `agent` are where the two services are; an exit of the agent
may always be the one that uses up systemd's start limit (`givenUp`). `id` is in
memory, `saved` on disk, `registered` counts the dispatcher's rows, `wasted`
those whose identity was lost before it was saved, or with the state file. The
wizard's pages, its probes of Home Assistant and the setup code are left out: a
form that is saved is one that passed them.

## The runs

All with deadlock checking off: each system may really stop, when a task or the
agent has ended, or when nobody asks for anything more.

| run | module, cfg | what it shows |
|---|---|---|
| rental | `MCRentalSessions`, `RentalCore` | `OneHolder`; `StoppedIsGone`: what was reported stopped has no container; `StopsComplete`, `LossNoticed`; `ContractSpec`: the handler implements the contract |
| vast | `MCVastProvider`, `VastMarket` | `RentalsAreBooked`, `CloseIsDrained`, `WishIsCarriedOut` |
| schedule | `MCVastSchedule`, `ScheduleWeather` | `WindowsAreLongRuns`: the loops find exactly the maximal long runs, for every weather; `ColdSpellIsMined` |
| heat | `MCHeatOverride`, `HeatSwitch` | `Restored`, `LoweredIsRecoverable`, `VacancyTakesHold` |
| heat_restart | `MCHeatOverride`, `HeatRestart` | **violation** of `RestoredAfterRestart`, see below |
| fallback | `MCOfflineFallback`, `FallbackMine` | `KnownVacantUnheated`, `HeaterEndsWithMiner`, `SilenceIsBounded`, `FallbackFollows` |
| storage | `MCServedPool`, `StorageServed` | `PeersGetWhole`: what another node reads to its end is the whole asset; `AckedIsStored`, `JobsEnd`, `GarbageGoes`; `ReplicaSpec`: the loops implement `ReplicaContract` |
| work | `MCFillWork`, `WorkFill` | `DirOutlivesHandler`; `NoMinerAfterReport`: no process outlives its slice; `ContractSpec`: coroutine, pool and handlers implement `TaskContract`; `SlicesAreReported`; `GuestIsYieldedTo`: the GPU is given up before the deadline |
| containers | `MCContainerRuns`, `ContainerBudget` | `NothingIsLeft`, `CleanRunsAreDone`, `BudgetIsKept` |
| ecobee | `MCEcobeeTokens`, `EcobeeRefresh` | `TokenIsKnown`, `NewestIsKept`, `ReadsRecover` |
| pushes | `MCHeartbeatPushes`, `Pushes` | `AckedIsOnDisk`, `PresentIsWhole`, `PushTakesEffect`, `ModelsArrive` |
| setup | `MCNodeSetup`, `SetupBoot` | `SkipMeansOnline`: a WiFi run that skips, and so keeps every later run from provisioning, is right to; `EnrolledOnce`; `ConfiguredComesUp`: a node whose wizard has closed for good comes up |

No run repeats a type invariant: for every module it is a theorem. So are,
without a run of their own, `MapIsBacked`, `StopsAreAsked`, `DrainingIsOffMarket`, `SavedIsNeverSetback`,
`FileIsWhole`, `RestartIsSafe`, `ResultsAreEarned`, `DoneIsClean` and
`HotspotGoes`: each was checked by TLC before it was proved.

For each property of a passing run `PROJECT.json` names a
mutant: a definition of the model with a plausible bug in it, under which the
property fails.

Several properties carry a proviso, because the code gives no unconditional
guarantee. The proviso is a history variable (`late`, `unheard`, `leaky`,
`hurt`, `robbed`, `wasted`, `excused`, `lost`, `unsaved`, `early`, `unwritten`, `shared`, `missed`,
`stranded`, `faults`) that only the named fault can set; each case it excludes
is described [below](#where-the-code-and-its-comments-disagree).

## Bounds

| run | bound | why it is enough |
|---|---|---|
| rental | 1 session, 2 start tasks, 1 restart | sessions share no state but the dispatcher's one answer, and the proofs are for any number; two tasks suffice for every name clash; a restart between any two steps |
| vast | 2 renters, 1 restart, 2 hidden timeouts | a count that goes from some to some before zero; a timeout of the listing and one of the unlisting |
| schedule | 5 hours, 2 ticks an hour, runs of 2, local time an hour behind UTC, at it, or ahead | a run at the start, in the middle and at the end, two runs, and runs too short |
| heat | 2 comforts, 2 crashes | people who change the setpoint between vacancies; a crash of the recovery |
| fallback | 1 tick to fallback and per chunk, 2 of overrun, 1 renter, 1 restart | the chunk ends before, at and after the limit of `stop()`, which is 2 ticks, so that cancelled chunks heat on; a heater with and without a miner |
| storage | 2 assets, 1 crash, one of them asked for by peers | one asset transferred while another is swept, each re-added, and the server in any of its steps meanwhile; it serves one request at a time |
| work | 1 blob task, 1 fill task, 1 worker | one waits in the pool while the other runs, in either order. The safety properties also held with 2 blob tasks, a fill task and 2 workers (233,330 states), all but `SlicesAreReported` also with 2 fill tasks on 2 workers (138,648 states), where two miners pause each other |
| containers | 2 tasks, 2 images, budget of 1, 1 dangling layer, 1 restart | either image puts the disk over its budget; one prune against the other's pull |
| ecobee | 2 callers, the demand loop and one that catches errors, 3 rotations, 1 crash | each loop may lose the race to the other, then recover; the agent ends over a token that was not saved, or over one another loop has saved since |
| pushes | 2 pushes, 1 crash, 1 model, 2 syncs, 2 queueings, 1 chunk | a push before the ack of the one before; two syncs on one `.part`. With `Chunks = 2` the run passes as well, in about five minutes |
| setup | 2 WiFi forms a run, runs without bound; 1 lost identity; forms that fill in the address, the token and the two Home Assistant fields | the form that is used and one that is discarded; a loss after which the node may enroll again; each field by which the tests of wizard and agent could differ |

No bound is a guard on what the code decides: each caps an event of the
environment (crashes, timeouts, pushes, forms, rotations, lost identities) or the number of
actors.

No symmetry is used: most runs have liveness properties, and the sets have two
elements at most.

## Fairness

The agent's loops are `while` loops over `asyncio.sleep`, its awaited calls have
timeouts, and its threads run, so their steps get weak fairness. What may fail
each time it is tried and is tried again and again (an answer of the dispatcher,
a POST, a Docker list, a `vastai` command, an ack) gets strong fairness: a loss
disables it, and the link is not lost for ever. Nothing external that need not
happen is fair: people, renters who come, forms, container exits, crashes,
faults. Exceptions, each with its reason:

- `VastProvider`: rentals end (contracts expire).
- `WorkAssignments`: task steps are strongly fair because the pool is first
  come, first served and its workers are freed infinitely often (handlers have
  timeouts).
- `FillWork`: the steps of a handler are weakly fair, and a look at the GPU
  succeeds some time (`nvidia-smi` does not fail for ever). `GuestIsYieldedTo`
  does not assume that the deadline of a slice comes, which would end the miner
  anyhow; `SlicesAreReported` does (`DeadlinesCome`), because its rounds end by it.
- `NodeSetup`: systemd starts the wizard at boot, ends it after 15 minutes and
  starts the agent again after its exits (weak, or strong where the start is
  interrupted); the backend, tried at every start, answers some time, and so does
  the registration. WiFi commands and forms are not fair.
- `ServedPool`: the fairness of `StoragePool`; peers and the server need none.
- `OfflineFallback`: `Tick`, the passing of time.
- `StoragePool`: strong fairness per asset of the ack, of an error report and of
  a manifest.
- `EcobeeTokens`: a server asked for ever answers some time; an agent one loop of
  which has raised ends (nothing else is awaited by `gather`).
- `RemoteConfig`: systemd starts what has ended (`Restart=always`).
- `VastSchedule` and `ContainerRuns` state no fairness: their runs check safety
  properties only.

## The proofs

For every value of the constants that satisfies the named assumptions (they only
say that bounds are naturals, durations are not zero where the code divides or
waits by them, images are finitely many, and model values differ). There are
eight modules of proofs for eleven components: a module that EXTENDS two of them
holds the theorems of both, each about its own specification.

| module | theorems | argument |
|---|---|---|
| `RentalSessions_proofs` | `TypeCorrect`, `OneHolderHolds`, `MapIsBackedHolds`, `StoppedIsGoneHolds`, `StopsAreAskedHolds`, `Refinement` | `IInv` relates each task's phase and each POST under way to the dispatcher's row and to Docker: a late answer still means what it said (`AskedInv`, `ActivatedInv`), a holder's container is there and its own (`HolderInv`), after the activation nobody else touches it (`ServedInv`), what a reconcile saw stays true (`ReconInv`). Without these the invariants are not inductive: a stale answer could be handled after the status had moved. `TornInv` adds that a session being stopped or stopped, its teardown done and no creation under way, has no container: a start task that comes later finds the session gone from the answers, or its name taken. The refinement is a step-by-step mapping under `IInv` |
| `OfflineFallback_proofs`, on `VastProvider` | `ProviderTypeCorrect`, `DrainingIsOffMarketHolds`, `CloseIsDrainedHolds`, `RentalsAreBookedHolds` | `OfferInv` says what the state and the answer that has arrived promise about the offer while a command is out; `CountInv` that a zero, once read, stays true since nothing can be rented while draining |
| `OfflineFallback_proofs`, on `OfflineFallback` | `FallbackImplementsProvider`, `FallbackKeepsBooks`, `TypeCorrect`, `KnownVacantUnheatedHolds`, `HeaterEndsWithMinerHolds`, `SilenceIsBoundedHolds` | every step is one of `VastProvider` or leaves it alone, so its theorems carry over. `VacancyInv` follows the vacancy flag through a round: heard with an answer, it leads through `stop()`, and a round that fails finds the miner still off, or it could start mining on an old flag; `HeatInv` bounds what a chunk, or the threads of a cancelled one, may still heat by how long the vacancy has been known. `HeaterInv`: while Home Assistant obeys, `heater_on` is what the heater is, and no ended loop has it set. `QuietInv` bounds the silence at each position of the loop by what has been waited there |
| `OfflineFallback_proofs`, on `VastSchedule` | `WindowsAreLongRunsHolds`, `ScheduleTypeCorrect`, `ColdSpellIsMinedHolds` | `Scanned` is the invariant of the loop over the hours: what is closed are the long runs that ended so far, what is open is a run that goes on (`ScanStep`). It holds for every hour because there is no least hour for which it does not (`Least`, from the well-foundedness of the naturals), so the recursion needs no induction schema. `CacheInv` ties the age of a cached schedule to the hour it was built for; with it, a schedule used late in an outage was built inside the spell (`SpellStep`), and no schedule built there asks for a listing before the spell ends (`SpellIsKept`) |
| `HeatOverride_proofs`, on `HeatOverride` | `TypeCorrect`, `SavedIsNeverSetbackHolds`, `LoweredIsRecoverableHolds`, `RestoredHolds` | `CrashInv`: memory and file agree wherever a crash may hit; `ComfortInv`, without crashes, says where the comfort setpoint is at each await |
| `HeatOverride_proofs`, on `EcobeeTokens` | `TokenTypeCorrect`, `NewestIsKeptHolds`, `TokenIsKnownHolds`, `RestartIsSafeHolds` | `Ordered`: tokens are ordered by rotation; an answer under way carries the newest, or the newest is in memory |
| `StoragePool_proofs` | `TypeCorrect`, `FileIsWholeHolds`, `AckedIsStoredHolds`, `ReplicaHolds`, `ServedImplementsPool`, `PeersGetWholeHolds`, `ServedReplicaHolds` | `AckInv`: the manifest on its way lacks no live asset but the late ones, so a sweep takes nothing that is acked or about to be. The refinement of `ReplicaContract` goes step by step under it (`ReportIsContract`, `StoreIsContract`, `SweepIsContract`), with `PlacedInv`: what is here was placed here, and a live asset is one with a row that is not gone. Every step of `ServedPool` is one of `StoragePool` or leaves it alone, so its files are whole whenever the server looks at one, and what it opened stays what it was |
| `ContainerRuns_proofs` | `TypeCorrect`, `NothingIsLeftHolds`, `CleanRunsAreDoneHolds`, `BudgetIsKeptHolds` | `HeldInv`: a container belongs to a handler at one of four steps, or was counted as left behind. `OutcomeInv`: without a failure no handler is on the way of one, and who creates its container a second time finds the image it pulled, unless a prune robbed it. `BudgetInv`: for whatever exceeds the budget some task is responsible that will still have the disk measured, or whose thread acts on a measurement made since |
| `WorkAssignments_proofs` | `TypeCorrect`, `DirOutlivesHandlerHolds`, `ResultsAreEarnedHolds`, `DoneIsCleanHolds`, `ContractHolds`, `FillImplementsWork`, `FillKeepsContract`, `NoMinerAfterReportHolds` | `Inv` ties, per task, the coroutine's position to its directory, its pool item and its outcome; under it each step maps to one of `TaskContract` or to a stutter. With the handlers every step is one of `WorkAssignments` or leaves it alone; `SliceInv` ties each handler's position to its process and its pool item |
| `RemoteConfig_proofs` | `TypeCorrect`, `AckedIsOnDiskHolds`, `PushesAreConfig`, `AckedWithModels`, `PushesTypeCorrect`, `PresentIsWholeHolds` | `Inv`: what is pending, on its way or applied is the last configuration, unless a push came early. Every step of `HeartbeatPushes` is one of `RemoteConfig` or leaves it alone, so the invariant carries over to the composition. For the models: whoever has a file open knows how much of it is filled, and only a failed download beside another one breaks that |
| `WifiProvision_proofs` | `TypeCorrect`, `SkipMeansOnlineHolds`, `HotspotGoesHolds`, `SetupImplementsWifi`, `SetupSkipMeansOnline`, `EnrolledOnceHolds` | `ProfilesAreAccounted`: at each step of a run, which profiles can exist unless something was stranded; it carries over to `NodeSetup`, whose steps are the provisioner's or leave it alone. For enrollment: how many registrations there are, in terms of the identity on disk, the one just answered and those lost |

Each strengthening was first an invariant of a TLC run.

Every safety property of the passing runs, and every refinement, is proved. The theorem
`ColdSpellIsMinedHolds` has one hypothesis beyond `ScheduleAssumption`:
`PreListTicks < TicksPerHour`, the margin, ten minutes by default, is less than
an hour. With a longer one the provider lists ahead of the next window while the
spell lasts. It holds in any time zone; its conclusion excepts the ticks at which
a window starts as far ahead as local time is behind UTC (`TakenForNear`), when the
code does list the machine (see [below](#where-the-code-and-its-comments-disagree)).

Only model-checked: the liveness properties (`StopsComplete`, `LossNoticed`,
`WishIsCarriedOut`, `VacancyTakesHold`, `FallbackFollows`, `JobsEnd`,
`GarbageGoes`, `SlicesAreReported`, `GuestIsYieldedTo`, `ReadsRecover`,
`PushTakesEffect`, `ModelsArrive`, `ConfiguredComesUp`), since the prover does
not handle liveness under fairness.

## Where the code and its comments disagree

One disagreement has a run of its own:

- **A room re-opened during a restart stays cold** (`heat_restart`).
  `agent/state.py` 33-34 persists the setpoint "so a restarted agent can still
  restore the original temperature when the manager re-opens the room". After a
  restart `_heat_override_active` is False, and the heartbeat that says the room
  is open again returns early (`agent/agent.py` 624). The setpoint stays on disk
  and the room at its setback. What is on disk then also keeps the next vacancy
  from capturing the current setpoint (638), and the stale one is restored.

The others were met while modelling. The model does what the code does; the
properties are stated with the proviso the case needs, or not at all:

*Rental sessions.* A container still being created when its session is stopped
is started after the clean-up removed what it found, and runs on (345; 218-221
says it is torn down regardless): the proviso `late` of `StoppedIsGone`. A start whose activation POST is lost, or that
meets an exited container of its name, never becomes active (405).

*Vast.AI.* Re-listing during UNLISTING that fails sets UNLISTED over a running
rental (`vast_provider.py` 496, against 32-33). A listing that timed out after it
took effect stays offered until it has been listed again (494). Completed
sessions are never posted: `update()` runs in an executor thread, where there is
no event loop (444, against `agent.py` 784-785). JSON of another shape counts as
zero rentals and closes the session (228, against 211-213).

*Schedule.* The age of the cached schedule grows only in ticks without the
backend (`agent.py` 826), so an outage days later starts with an old decision.
The provider lists ahead of the next window whatever it is, but the local
schedule names the next no-list window (`vast_provider.py` 400, against
`weather.py` 352-354). A naive local start is taken for UTC
(`vast_provider.py` 512, against `weather.py` 169-171), so behind UTC the
machine is listed in a cold spell, while a window starts as many hours ahead:
the exception `TakenForNear` of `ColdSpellIsMined`.

*Vacancy.* A restored setpoint that could not be written is forgotten all the
same (`agent.py` 660). Demand cached before the override is reported until the
next demand tick (694).

*Fallback.* An agent started during an outage gives up before the loops that
would mine exist (397). The machine may be listed while `stop()` waits for a
chunk (582, against `autonomous_mode.py` 36-37), and work polled (711, against
`autonomous_mode.py` 50-52). With the defaults `stop()` may take 150 s of the
loop that feeds a 90 s watchdog (571; `SilenceIsBounded` states the bound that
does hold). A `turn_off` that failed is not repeated (`autonomous_mode.py` 252).
The vacancy flag is not persisted, so a restart in an outage heats a vacant room.
A chunk that `stop()` gave up heats on until its threads end (`autonomous_mode.py`
131), against 119, "wait for any running chunk to finish".
UNLISTING counts as "GPU is free for local mining" (559), but a machine in that
state still drains, so the miner may start beside the last renter.

*Storage.* The sweep removes by a manifest it fetched before awaits, also an
asset added since (1613). An ack lost after a relay transfer makes the stored
asset a reported error (1504). The peer server answers one request at a time
and sets no timeout, so a peer that stops reading keeps all others waiting.

*Work.* Cancelled while it downloads, a coroutine has not reached the try whose
finally removes its directory (1009, against 963). An upload answer without an
id raises through every handler and the result is lost (`blob_client.py` 162). A
loop that raises skips the drain (346, against 178). A dead worker breaks the
pool, which is never rebuilt (`executor.py` 66, against 5-7). Where two tasks
overlap, each is credited with the whole plug's energy (`agent.py` 1126).

*Fill slices.* A slice whose deadline passes between its check and its sleep
sleeps for a negative time and raises: it ran its time and is reported failed
(`gpu_mining_fill.py` 294, `p2pool_fill.py` 198; `synthetic_heat_fill.py` 225
guards against it). The time paused is not deducted when the deadline comes
during the pause (333). To each other, two GPU slices are users that have come
to the GPU, and both may pause; a user without a CUDA process is not seen at
all. A miner outlives a worker that dies, and goes on without a slice until the
unit is stopped. A burn that cannot start all its processes leaves those it
started (213-220, before the try). Two slices can both write the header of the
session log (186).

*Containers.* A container that was created but failed to start is left behind
(`container.py` 368-391), and so is one whose creation the daemon did not answer
in time. An image can be pruned between its pull and the creation of the
container: its task fails though nothing was wrong with it. A coroutine whose
upload raises past every handler never asks for the collection of images (1136),
and the disk stays over its budget until the next task. `prepull_all` looks only
once.

*Ecobee.* A crash after the server rotated the token and before it is saved
leaves a spent one (`heat_source.py` 398). `read()` does not catch the OSError
of a state file that cannot be written (424, against 308-310): from the demand
loop, which has no `try` around it (`agent.py` 681), the error ends the agent
(346), which comes back with the spent token that is on disk, and is locked out.

*Pushes.* `_do_restart` means to "Replace the current process with a fresh copy to
pick up new agent.env" (1343); its fallback gets a process that dies at its
imports, and would get one with the old environment, which `AgentSettings` prefers
to a file: only systemd makes the settings take effect. The ack flag of the settings is set although `agent.env` was missing
or could not be written (489), and an ack does not say which settings it is for,
so a repeated one clears newer settings (458). The model queue is acknowledged
when the download starts, not when it ends (507, against 247), and also where
COMFYUI_MODELS_PATH is unset and nothing is downloaded (1260). Overlapping syncs
share a `.part`; when one fails a torn file may be put in place, and any file of
a size above zero is skipped from then on (1280, against 1256-1257).

*Wi-Fi.* A hotspot profile, or a profile that connects to nothing, that a failed
command or a power cut leaves behind counts as configured and makes every later
run skip (`wifi_provision.py` 118-121), although the code means to "Delete any
leftover hotspot profile from a previous run". A form sent as the wait times out
is told "Connected!" and dropped (444), and so is a second form (452). A form whose
answer breaks off is kept but wakes nobody (366); if a second one does, the first
is used.

*Set-up.* `install-agent.sh` 296-302 copies the example settings, placeholders
included, to `agent.env`: they count as configured, so the wizard closes at once,
although `hadcd-provision.service` 15-17 says it serves "until the operator saves
the form". A form that leaves fields empty is merged with those placeholders. The
wizard does not check numbers the agent refuses to start with, and is closed by
then. After five failed starts systemd leaves the agent stopped, where
`hadcd-agent.service` 64-66 expects a "default cooldown". Under its
`ProtectSystem=full` the agent cannot write the settings pushed to it. A crash, or
a lost answer, between the registration and the save enrolls the node twice
(161). A state file that holds JSON other than an object raises (`state.py` 61,
against 51-52).

*Power meter.* A poll that outlives its timeout is cancelled, which the `except
Exception` of `kasa_power_meter.py` 125 does not see, so the handle is kept,
against 67-69; `last_watts` is reported for ever after the plug has died.

## What is not modelled

- *Kasa meter*: one loop that keeps the last reading; nothing decides by it, and
  the one promise that could be stated, that a failed poll resets the handle, is
  the disagreement above.
- *Session source*: a probe without state, whose answer is a flag in a report.
- *Other heat sources*: stateless requests. Home Assistant's setpoint write is in
  `HeatOverride`, its heater in `OfflineFallback`.
- *Workload registry* and the handlers that only compute: a table of functions.
- *Configuration, dependency check, Tailscale, Ecobee set-up dialogue, demand
  simulator*: no state that changes while the agent runs, or no core logic. What
  the agent refuses to start with is in `NodeSetup`.
- *Installers, units*: only what `NodeSetup` and the models of restarts use, the
  restart policy and its limit, the order at boot, the copied example.
- *State file*: identity (`NodeSetup`), setpoint (`HeatOverride`) and token
  (`EcobeeTokens`) are modelled apart, the cached model list is not: it is only
  reported.
- Everywhere: log lines, prices, wattages, progress reports, message texts,
  command lines, security profiles and mount policies.

## Plan

Done, in this order, the most important behaviour first: `RentalSessions` and
its contract, `VastProvider`, `HeatOverride`, `OfflineFallback` over
`VastProvider`, `VastSchedule`, `StoragePool`, `WorkAssignments`,
`EcobeeTokens`, `RemoteConfig` and `MediaSync` and their composition
`HeartbeatPushes`, `ContainerRuns`, `WifiProvision`; `TaskContract`, which
`WorkAssignments` implements; `FillSlices` under `WorkAssignments` (`FillWork`),
the peer server over `StoragePool` (`ServedPool`), wizard, agent and enrollment
over `WifiProvision` (`NodeSetup`); `ReplicaContract`, which `StoragePool`
implements; the proofs of all eleven components, carried to the compositions.

To come:

1. *Model.* A moving forecast horizon in `VastSchedule`; `ContainerRuns` under
   `WorkAssignments`, so that the pool's items are container handlers too.
2. *Abstract specifications.* Of the vacancy override (lowered, and the setpoint
   to restore), and of the token store (one valid token, held or lost), each
   implemented by its module; their refinements proved.
3. *Prove.* The safety halves of the liveness properties: which steps are still
   possible where a stop, an ack or a replica is waited for.
