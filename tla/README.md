# Formal models of fry-edge-miner

TLA+ models, TLC configurations and TLAPS proofs for the edge miner: its Rust
backend (`src/src-tauri/src`, here `S/`) and the hooks of its pages. The application is a Tauri shell
that supervises third-party "partner" programs, reports a proof of
contribution (PoC) every ten minutes, keeps a device registered with the Fry
service and updates itself. It is small in data and rich in concurrency: some
dozen tasks, OS threads and UI commands share one `AppState`.

Contents: [inventory](#inventory), [modules](#modules-and-how-they-correspond-to-the-code),
[runs](#runs-and-bounds), [proofs](#proofs), [findings](#findings),
[known deviations](#known-deviations-outside-the-regular-runs),
[not modelled](#not-modelled-and-why), [plan](#plan).

Check a model with `tlc -workers 2 -config X.cfg M`, a proof module with
`tlapm M.tla`.

## Inventory

Paths are under `S/`; `W/` is `src/src`.

| component (source) | state | operations | hard behaviour | what makes it correct |
|---|---|---|---|---|
| PoC reporting task (`main.rs` 937-1115, `poc/retry_queue.rs`, `poc/cache.rs`) | retry queue, slot cache | build and PUT a document, retry, recover from a 401, queue, drain a batch | every step is a network call; midnight UTC passes between two; part of a drain fails | no slot of the day is lost, entries stay ordered and unique, the backlog drains |
| PoC document (`poc/reporter.rs`, `gates.rs`, `hardware.rs`) | none | map statuses and sizes to scores | lock nesting; it checks partners beside the health loop | never blocks the tick |
| Health supervisor (`supervisor/health.rs`) | status, restart count, pause and startup counters | check, decide, back off, restart | flapping partners, boundaries of three counters | bounded restarts, an honest pause, it never gives up |
| Integration lifecycle (`main.rs`, `commands/integration.rs`, `docker_watcher.rs`, `updater_auto.rs`) | enabled flag, process, health map, event channel | health task, toggle, startup pass, watcher, update | five tasks start or stop one process, none holds a lock from decision to effect | off stays off, on comes back, cards end up right |
| Shared locks (`AppState` in `main.rs`) | registry mutex, RwLocks | nested acquisitions | circular waits, writer-preferring RwLocks | one order, but for the watcher's engine start |
| Elevation gate (`elevation_gate.rs`) | attempts per purpose, published blocks | run_elevated, clear_blocked | a prompt may stay unanswered for minutes | one prompt at a time, none unasked, no silent card |
| Registration (`commands/device.rs`) | miner key, install id, device token, pending id | register, deregister, complete, migrate, recover | lost answers, crashes, five concurrent paths, a token invalidates its predecessor | no lost binding, no older token, eventual completion |
| Configuration store (`config/store.rs`) | memory and three files | load, update, save | crash between files, corrupt, unreadable and lost files | acknowledged updates survive, fallbacks are announced |
| Card commands (`commands/integration.rs`) | enabled flags, intents, pending marks, card errors | toggle, force reinstall | enables last minutes; calls overlap; saves fail; the app exits | no pinned card, what runs is what the next launch restores |
| Docker watcher (`docker_watcher.rs`) | poll interval, engine-start limit | poll, start the engine, recover containers | races with health loop and update | see lifecycle and locks |
| Updater (`updater_auto.rs`, `commands/updates.rs`, `W/pages/Updates.tsx`) | in-progress flag, outcome record, copies in `.prev` | check, download, suspend, install, report after restart | two installs share one flag; the app restarts in the middle | restarts stay suspended during an install and not after a failed one; what is replaced can be restored |
| Process supervisor and start failures (`supervisor/mod.rs`, `process.rs`, `platform.rs`, `start_failure.rs`) | children, spawn threads, the job object, one record per partner | start, stop, status | creating a process may hang for good; its error may come late | no process that nobody holds, the mutex comes back |
| Leases (`main.rs` 1114-1172, `api/leases.rs`, `W/hooks/useReporting.ts`) | holder (server), reporting status | renew, acquire, tell the page | the server gives leases away; events and answers cross | a free lease is taken; the page tells the truth |
| Docker (`integrations/docker_manager.rs`) | cached CLI, one download attempt | find, wait, start, fetch, install | callers share the cache and the gate; Docker comes and goes | a docker that is there is found |
| Diiisco (`integrations/diiisco.rs`, `diiisco_rebuild.rs`) | images, tags, stamp, backoff records, ledger | install, detached start, stop | builds of minutes that any command may fail and any stop or exit may cut | only a proved image is run, and it is not lost |
| Pawns (`integrations/pawns.rs`, `commands/consent.rs`) | append-only consent logs, archive, container | consent, revoke, start, rotate | clock, moved root, torn lines, exits; a rotation that nobody waits for | sharing only by the owner's word |
| Fry dVPN (`integrations/fryvpn.rs`, `port_conflict.rs`, `firewall.rs`) | three parks, a wallet watch | start, stop, check | two tasks check it at once and advance one backoff, with reads over the network in between | a park ends with its reason |
| Space Acres, Olostep (`space_acres.rs`, `aem.rs`) | a slot for the child, the vendor's files | install, start, stop, probe | the vendor's app relaunches itself, has children of its own, or is started by the owner; restart, toggle and boot pass overlap | what was spawned is not forgotten, but where starts overlap |
| Titan, Mysterium, Iagon (`titan.rs`, `mysterium.rs`, `iagon.rs`, `download.rs`, `code_integrity.rs`) | pinned files, failure counters, memos | verify, repair, start, judge | same file names for all callers, who overlap; evidence grows old | what runs has matched its digest; suppression ends |
| Pages (`W/hooks/useIntegrations.ts`, `useRewards.ts`, with `commands/rewards.rs`) | cards, estimates | poll, listen, click | answers and events in any order, or lost | the page ends up with the backend's state |
| Logging, schema, machine setup, other commands, packaging | | | I/O and text | |

Interactions. The health loop calls `check_fn` and `restart_fn` of `main.rs`
and sends events over a bounded channel to a forwarder that writes the health
map. UI commands change the registry's flags and the configuration. The
watcher reads flags and the health map and starts partners. The updater arms a
flag that `restart_fn` and the watcher read. The PoC tick reads registry, health
map and configuration and calls the registration hooks when it is answered 401.
All partner installs that need administrator rights pass the elevation gate.
Native partners are started through the process supervisor; those in containers
ask `docker_manager` first. Each partner's `health_check` is called by its health
loop and by the PoC tick, on different threads.

`PROJECT.json` lists the hazards at their lines, each with the properties that
cover it or a note.

## Modules and how they correspond to the code

The map in `PROJECT.json` names the lines behind every definition. Operators
whose comment says "a deviation the runs must notice" are wrong variants of the
definition next to them; no specification uses them, they show that a run would
notice such a bug.

**PocReporting** - the tick of `main.rs` and the queue. `pc` is the place in
the tick: `TickStart` snapshots, `Submit`, `Resubmit`, `SubmitRecovered` are up
to three PUTs, `Settle` appends to the cache and queues or takes a batch,
`DrainOne` is one turn of the drain loop. `Push`, `Requeue`, `Taken`, `Left` are
the queue's methods. `now` advances between any two steps; a document is the
instant it was built and a version. `server` is what the service holds: a PUT
may be filed though its answer is lost, and it is filed under the day on which
it arrives. The PUTs of the tick never overlap (one task).

**HealthLoop** - `health_check_loop` and `recovery_action`, one cycle being
`Check`, one of the `Decide...` branches, and `Restart` behind the backoff.
Statuses and the enabled flag come from the surroundings. Messages awaiting the
user and upstream outages are statuses of their own, as `recovery_action`
treats them. `paused` is a history variable, the promise on the card.

**IntegrationLifecycle** - everything around one partner. `ProbeStarts` and
`ProbeEnds` are the two halves of `check_fn` (the registry lock is dropped in
between); `RestartBegins/Skipped/Stops/Starts` are `restart_fn`; `Forward`,
`UserToggle`, `RecoveryLists/Starts`, `Watcher`, `WatcherStartsEngine` and
`Update` are the other tasks. HealthLoop is an INSTANCE, and `LoopSpec`
(`HealthLoop!Spec`) is checked and proved as a refinement: the abstract loop is
what the composition implements. `startable` is the machine (requirements and
the outcome of start), which changes freely.

**LockOrder** - `Program` lists, per task, the places that wait for a lock and
what is held there. Every call of a command is a task, and each background task is
one; `docker_watcher` has its engine start and its recovery in one program. A task waits behind a holder or, as a reader, behind a
waiting writer, since std's RwLock may queue readers behind writers; it may also
let them pass, and both are allowed.

**ElevationGate** - `Ask`, `Suppress`, `Refuse`, `Prompt`, `Answer`, `Report` are
`run_elevated`; `ClearMessage` and `Rearm` are `clear_blocked`, whose two locks are taken one after the other. The
gate is held in `Prompt`..`Answer` and released before `Report`.

**Registration** - the paths around `REGISTRATION_IN_FLIGHT`: `queued` (what was
read before the lock), `post`, `reply`. `Enter(t)` is everything from the lock to
the POST, `Post(t)` the service, `Finish(t)` what is stored. Deregistration is
two steps beside the lock. The service is external: a token is its place in the
sequence of tokens minted, only the newest of a key is valid. Install ids are
known by their key, since the code creates one for each registration.

**ConfigStore** - `Start` is `load`, with its order primary, backup, roaming,
quarantine, re-persist and warning; `Update` runs the closure on the memory and
`Write`/`WriteFails` are the atomic writes of one save, one target at a time.
Crashes come between any two.

**Toggle** - `toggle_integration` and `force_reinstall_integration` as calls that stop at every await: `PressOn`,
pre-checks, requirements, the wait for the gate's mutex (`rearming`, `Rearmed`:
`clear_blocked` and `rearm_docker_prerequisite`), Diiisco's early intent, install,
start, flag, save;
`Restart` is an exit of the app at any point and the next launch.

**Updater** - `prepare_for_update_install` and its two callers, one step per
await or file: `Check`, the MSI gate, `Release`, `BackUp`, `RecordCreated`,
`RecordWritten`, then the install, which on Windows ends the process (`HandsOff`)
and elsewhere returns (`Lands`). `Launch`, `Settle` and `Tidy` are
`check_update_outcome_on_launch`. `overlapped` is a history variable: a second
installer passed its gate while another was at work or had landed in the same
process. The gate's probe may always be inconclusive; `msi` says what the
registry really lists. The page's button, its mounting and its listeners are
modelled as far as they decide who may install and who hears of a failure.

**Spawning** - `supervisor/mod.rs`, `process.rs`, `start_failure.rs` and the job
object, for one partner. `call` is the holder of the supervisor's mutex;
`StartBegins` .. `Adopts` are the caller, `Created` .. `NobodyWaits` the spawn
thread, which offers the child through a channel without a buffer. `TimesOut` is
SPAWN_TIMEOUT; how long CreateProcess takes is not FEM's to say. `record` is the
start failure on the card, `newest` the attempt that may write it.

**NodeImage** and **Diiisco** - NodeImage is what keeping a locally built image
promises: a proved image becomes current, and the current one is never removed.
Diiisco is `diiisco.rs` with `diiisco_rebuild.rs`: `Install` and `Start` plan
under REBUILD_LOCK (`Acquire`, `PlanNothing`, `PlanRun`, `PlanBuild`), build, probe
and judge, promote, stamp, and tidy up or roll back; `StopAsked`/`StopDone` are a
stop, which bumps a generation and does not take the lock. `docker` is what the
engine holds (images, `latest`, an alias per target, the container), `disk` the
files of the deploy directory. Each Docker command may fail and each file write
may be lost, by the sets of worlds that `Rmis`, `Downs`, `Discards`, `Sweeps` etc.
return. Diiisco implements NodeImage under `current <- docker.latest`
(`Keeping`).

**PawnsConsent** - the switch and dialog of the page (`ToggleOn`,
`confirmConsent`, `ToggleOff` ..), the consent command, the two append-only logs
(`log` anchored, `legacy` under a custom root), the rotation of a launch in its
three steps, the container. Entries carry the wall clock, which may be set. The
rotation is a task of its own that nothing waits for: clicks, starts and stops come
between its steps. `ended` says whether the last line of `log` has its newline: a
line may be torn, or complete but for the newline, and what is appended behind it
makes one unreadable line of both. `decided` is history: the owner's last recorded
decision, or `"lost"` when the code has lost one (a swap over a newer line, an
append behind a missing newline); a later decision that is recorded ends that.

**DockerEngine** - finding a docker (`Command`, `Resolved`: the cached CLI, PATH,
the known places), probing it, deciding what to tell the caller, fetching the
installer and prompting for it, for two callers. `missed` is history.

**FryVpn** - `fryvpn.rs` with the port probe and the firewall rule: starts that
park instead of spawning, by the health loop (`loop`) or a toggle or launch (`other`),
and the health check from the rule over registry and funding to the port and the
process (`RuleGate` .. `Box`), by the health loop and by the reporting tick
(`reporter`), which overlap at every await and share the parks and the wallet watch
with its backoff. `TimesOut` is the 45 s after which the reporting tick drops its
check. The health loop's restart is in short (`Check`, `Restart`, `NoRestart`): it
relies on `HealthLoop!KeepsTrying`. `world` is what is outside.

**SpaceAcres**, **Olostep** - an app and a browser that FEM tracks by a child in a
slot and sees by image name. Each caller (toggle, restart, boot pass) has its
place `at`; a stop takes the child out of the slot, kills or asks, and gives up or
puts it back. `behind` and `overtaken` are history: starts that found nothing
running before another's child was stored, and the children whose place in the slot
such a start took. SpaceAcres has its farmer processes and the owner's instance,
Olostep its own updates and the consent in its configuration file.

**PinnedPartner** - check, quarantine, install (download to `.part`, rename,
verify, unpack, move), second check, spawn, by callers that overlap at every await.
`Damaged` comes at any moment. With `Archive` it is Titan's, else Mysterium's and
Iagon's. `raced` is history: the callers that have checked the files, are about to
spawn, and somebody has written to the files since (`Write`).

**TitanNode** - `health_check` of Titan in its two readers (health loop, PoC tick):
the supervisor's record, the listing of code-integrity blocks with its memo, the
node's own log, and the verdict. Ages are counted in ticks of the health loop.

**MystNode** - Mysterium's token: `start` looks it up with retries and remembers a
missing one; both checkers report that until it is old, look again, and say
"restart" when it is there.

**IntegrationsPage**, **RewardsPage**, **ReportingPage** - one page each: the hook's
fetches, polls, events and clicks, and as much of the backend as answers them.
Fetches overlap and answers arrive in any order (`fetches`, `fetching`).

Lifecycle and Updater share the suspension flag: Lifecycle asks what one partner's
starters do with it, Updater who raises and lowers it.
Lifecycle and Toggle look at the same command from two sides: Lifecycle at one
partner's process among the background tasks, Toggle at the configuration among
several cards. Their common part is the order "effects, flag, save".

**MCCards**, **MCSupervision**, **MCTasks**, **MCPartners**, **MCPages** put
modules that share no state behind one specification: a variable `part` is picked
at first and a behaviour is that of one module, the variables of the others being
`None` (of the module that is extended, in MCCards and MCTasks: unchanged). So a
run answers the questions of several small modules, each with the fairness its
own module states. Of MCTasks and of MCPartners there are two runs each, which
differ in the parts they admit (`Parts`, `Partners`).

## Runs and bounds

`pass` runs:

| run | what it shows | bounds, and why they suffice |
|---|---|---|
| `tasks` | entries are unique (`OneEntryPerSlot`); no slot of the running day leaves the backlog unsubmitted except behind a failed drain (`KeptUntilDischarged`); `BacklogDrains`; of the health loop `PauseKept`, `KeepsTrying` | three slots a day, four instants: one midnight, and a day that fills the queue. Capacity 3 = slots of a day, as 144 = 144 in the code; batch 2 < capacity, as 12 < 144; four documents, so one slot is reported twice and a fourth finds the queue full. The health loop with its real values 3, 6 and 10 and no other bound. 721k states |
| `fryvpn` | `FundedIsSeen`, `NodeComesUp` | both checkers, both starters; a backoff of two, so that it grows and is capped, and one change of the world or the user, beside the payments, readings and starts of the initial states: 4 * (MaxSkip + 1) = 12 verdicts is the bound that the proof gives for every backoff and any number of changes. 874k states, about two minutes |
| `lifecycle` | `LoopSpec`, `OffStaysOff`, `SelfHeals`, `OffIsShown` | budget, startup timeout and channel of one, re-arm of two: each counter reaches its limit and every task waits at least once. A longer channel or budget repeats the same cycle; the proofs drop these bounds for two of the properties. 537k states |
| `registration` | `SuccessSticks`, `NeverAnOlderToken`, `FreshTokenNotRotated`, `CompletesUndisturbed` | two keys, two wizards at once with all three hooks, one lost or failed answer, one crash, one deregistration. 49k states; the same with three presses agrees |
| `config` | `KeySurvivesLoss`, `AckedSurvives`, `NeverSilentlyOlder` | four updates (register, change, deregister, register), two losses, one failed write and one failed read. 313k states |
| `cards` | `NoCardIsPinned`, `LaunchAgrees`, `ExitKeepsTheIntent` (Toggle); `PromptsAreAsked` (ElevationGate) | the four ids the code treats differently (storj and space_acres exclude each other, diiisco writes early, aem reinstalls), two calls at once, three presses, one failed save, one exit; two callers, cards and targets of the gate, one gesture a card. Slots, callers, cards and targets are alike (symmetry). The proofs drop the bounds. 1.95M states |
| `updater` | `NeverStuckSuspended`, `SuspendedWhileReplacing`, `FallbackReady` | the background task and one command of the page, two versions (a first update, and one on top of it), three launches, one failed copy, write or removal, exits anywhere. 745k states; two commands, or two faults, agree; the proofs drop the bounds |
| `supervision` | `OnlyTheEngineStartWedges`; `LateChildEnds`; `FewRefusals`, `BlockExpires` (Titan); `BudgetIsKept`, `TokenIsPickedUp` (Mysterium) | all seven programs, one task each, the watcher's engine start among them (the proof covers any number of calls); three start attempts: one late, one current, one more; windows of one to three ticks, each shorter than the next as in the code, one failed listing, two failed lookups. 115k states |
| `partners` | `LatestIsProvedAndKept` (Diiisco); `OnlyOverlapsForget` (Space Acres, Olostep); `OnlyCheckedFilesRun` (Titan; Mysterium and Iagon) | two images, two keys, one release; by hand also two releases (5.9M states). Two callers of the apps, two spawns, so that one start can take the other's place in the slot, one event from outside; three callers of the pinned files, as many as the code has paths, damage without limit. Callers and node keys are alike (symmetry). 1.69M states, more than three minutes |
| `pawns` | `ConsentIsTheOwners`, `OnlyTheOwnerWithdraws`; `StaleCliHeals` (Docker) | two instants, so that a line grows stale and the clock can be set back; three lines, so that a stale one, a newest one and one that comes during the rotation are in the log together; one torn line. Two callers of Docker, one event from outside. 1.52M states, three minutes |
| `pages` | `CardIsTruthful`, `EstimateKeepsUp`, `PageIsTruthful` | two fetches under way, two attempts each, two clicks (or owner's changes), one lost call, one change of health: each race has its two sides. The liveness is about what comes after the bounded disturbances. 624k states |

One `violation` run, the finding below: `poc_kept`.

Where deadlock is not checked, the bounds on what the user does, on launches, or on
what happens from outside let the model come to rest.

Each module has a type invariant `TypeOK`; those of HealthLoop, PocReporting,
ElevationGate, Registration, ConfigStore and Updater are proved. The runs are kept
to questions that the code could get wrong, so they do not list it; adding
`INVARIANT TypeOK` to a configuration of the module checks it.

### Fairness

* PocReporting: weak fairness of the tick's steps. The task is an interval timer
  and each call has a timeout. The service healing and the device staying
  registered are premises of `BacklogDrains`.
* HealthLoop: weak fairness of check, decision and restart: a tokio task of its
  own, on timers.
* IntegrationLifecycle: the health task, the forwarder, toggles under way
  (bounded by timeouts), the startup pass and a watcher start under way. The
  user, the partner, Docker Desktop, the machine and an update owe nothing, and
  the watcher need not pick anything up: `SelfHeals` does not lean on it.
* Registration: the tick's completion and recovery gates come back as long as
  their conditions hold; the lock is tokio's mutex, which is fair, hence strong
  fairness of `Enter` for each waiting path; requests end. Migration runs at
  launches, which nobody promises, and has no fairness.
* Spawning: the caller goes on (its wait has a time-out), and the spawn thread once
  CreateProcess has returned. Nothing is assumed of CreateProcess.
* TitanNode, MystNode: both checkers go on, the loop's restart runs, and a start
  in progress ends (bounded retries). Time passes; in MystNode strongly so, since
  a lookup under way holds the tick back.
* FryVpn: the loop works off what it has begun, since each of its calls has a
  timeout; toggles, launches and the reporting tick may hang where they are.
  `Restart` is strongly fair: as `KeepsTrying` of the health loop says, a node that
  stays down is attempted again and again, though a status in between may hide it
  for a cycle.
* PawnsConsent: a rotation, a start and a revocation that have begun end.
* Pages: the timers fire, calls are answered or fail, events under way are
  delivered while the stream lives. `Answered` of IntegrationsPage is strongly
  fair: it waits for a free place among the bounded fetches, a limit of the model.
* The other modules claim no liveness. The elevated work a prompt starts has no
  time limit in the gate, so that the gate is released is not promised.

## Proofs

All of these hold for every value of the constants under the modules' named
assumptions (positive budgets and capacities, distinct model values). No proof
depends on a bound of the runs. Each inductive invariant was checked by TLC before
it was proved.

* **TaskProofs** (HealthLoop): `TypeCorrect`, `PauseInvariant`, `PauseIsKept`.
  The action property `PauseKept` is not inductive by itself; `PauseInv`, which
  ties `ticks_since_exhausted` and `restart_count` to the pause announced, is, and
  the property follows from it at the one step that enters the backoff. It uses
  `RearmTicks >= 2`, true of the code's 10: a re-arm length of 1 would never
  re-arm, as `Exhausted` compares only from the second check on.
* **TaskProofs** (Fry dVPN): `ParkIsOver` (`FundedIsSeen`), with both checkers and
  both starters at any place. `CountedDown` sets the verdicts that have found a park
  without its reason against what is left of the backoff (`Left`). Only a read that
  is due starts the backoff anew, and one that has begun since the payment ends a
  wait or the park (`NewsIsGood`); of the reads from before there is one per
  checker (`OneAtPark` says who may still write such a park). So the backoff is
  counted down four times at most: each of the two may have to count it twice, for
  the wait for the registry and for the park.
* **TaskProofs** (PocReporting): `OneSlotOneEntry` (`OneEntryPerSlot`) and
  `NothingIsLost` (`KeptUntilDischarged`), for every length of a day, batch size
  and capacity that holds a day (`RoomForADay`; 144 and 144 in the code). The
  inductive invariant (`ReportInv`) says that the backlog is in order (`Fine`): one
  entry per slot, dates that never fall, none after today, no document newer than
  the tick's. The order is kept by whatever only takes entries out (`Thinned`), and
  it is needed: when a push evicts the front of a full queue, either the front is
  of an earlier day, or all entries are of today, and then they are more than the
  day has slots (`DayFits`, by the pigeonhole principle). That the queue filters at
  every push is the one place where a proof needs what a recursion computes for
  every input: `Retain` is a recursive function of the prefix it has looked at, and
  `RetainFacts` proves it by induction (`Induction`, from the library's
  well-foundedness of < on the naturals).
* **IntegrationLifecycleProofs**: `LoopIsImplemented` (`Spec => LoopSpec`) maps
  each step to a HealthLoop step or a stutter; the toggle maps to `Toggled`.
  `TurningOffSticks` proves `OffStaysOff`. Both rest on `FlagInv`, that
  `restart_fn` is under way only in the backoff.
* **SupervisionProofs** (LockOrder): `OneInversion` (`OnlyTheEngineStartWedges`),
  for any number of calls, the watcher's engine start among the tasks. Two orders of
  the locks are used. `RegistryFirst` rises along every program but the engine
  start's, `HealthFirst` along every one but the reward summary's: in tasks that
  wait only for each other, the one that waits for the highest lock would wait
  behind a higher one, unless it is the exception. So a circular wait contains both,
  each at its inverted pair.
* **SupervisionProofs** (Spawning): `NoChildLeaks` (`NoLeak`), for any number of
  starts. The inductive invariant adds that the thread of a child that is held or
  being adopted is done (`HeldIsDone`), that a start is under way only when what is
  held is dead (`StartsWhenDead`) - or adopting would drop a live child from the
  map - and that attempts to come have no thread (`NotBegun`).
* **SupervisionProofs** (Titan): `RefusedNodesRest` (`FewRefusals`). `Accounted`
  adds to the respawns made those that may still come: of a restart that was
  decided, and of every tick for which the memo will hold a listing older than the
  block. It needs that a block in force is younger than the window
  (`BlockInDate`), that a listing says what the machine did (`ListedNow`) and that
  one restart is decided at a time (`LoopOnce`).
* **SupervisionProofs** (Mysterium): `TokenlessRestartsAreFew` (`BudgetIsKept`).
  What the budget has paid is set against what the loop is doing and what it will
  read (`Budgeted`); the loop waits for the restart it decided (`LoopWaits`,
  `LoopIdles`), and a restart leaves the memory of the missing token behind
  (`RestartHasEnded`).
* **CardProofs** (Toggle): `CardsHold`, and from it `NoMarkLeaks`
  (`NoCardIsPinned`), `LaunchesAgree` (`LaunchAgrees`) and `IntentsAreKept`
  (`ExitKeepsTheIntent`: from the early write on), for any number of cards, overlapping commands, presses,
  failing saves and exits. The invariant speaks card by card: every mark goes with
  an enable past its checks (`Marked`); a card whose commands never overlapped has
  one at most (`Alone`); while no save has failed, memory and disk agree, and the
  disk or - once Diiisco has written early - what the command remembers of it
  agrees with the flag (`Going`). The two properties about a card alone follow
  because the undo of an early write puts back exactly what was remembered. One
  lemma (`OneCard`) says what a step of a command must show about its own card;
  the other cards are its frame.
* **CardProofs** (ElevationGate): `GateHolds` (types, the holder of the gate is the
  one whose prompt is on screen, every prompt was paid for), and from it
  `PromptsAreSerialised` (`OneAtATime`) and `PromptsArePaidFor`
  (`PromptsAreAsked`).
* **RegistrationProofs**: `TypeCorrect`, `BindingSticks` (`SuccessSticks`). The
  inductive invariant adds to the types: what a path remembered was a token that
  had been minted (`SnapMinted`), a posting path has its key (`ArgGiven`), only
  the lock's holder is between POST and return (`LockHeld`), and while an attempt
  runs its snapshot holds the confirmed binding (`BindingKept`) - without the last
  a rollback could restore anything. `TokensOnlyRenewed` (`NeverAnOlderToken`) and
  `FreshTokensStay` (`FreshTokenNotRotated`) add `Tokens`: an answer under way is
  newer than what is stored (`ReplyNewer`), what an attempt would put back is not
  older than it (`TokenKept`), and a token that was rejected stays so
  (`StillRejected`).
* **ConfigStoreProofs**: `TypeCorrect`, `AcknowledgedSurvives` (`AckedSurvives`).
  The inductive invariant says that an undamaged primary is at least as new as
  what was acknowledged (`PrimaryCovers`) and that no file holds an update that
  was never made (`Written`). `RegistrationSurvivesLoss` (`KeySurvivesLoss`) and
  `FallbackWarns` (`NeverSilentlyOlder`) add `CopyInv`: what a save has left to
  write is a tail of the order (`TodoShape`), the primary is the newest of the
  files, and the copies that are neither behind nor damaged hold what the memory
  holds.
* **UpdaterProofs**: `TypeCorrect`, `NoStuckSuspension`, `SuspensionHolds`,
  `FallbackSaved`, `FailureFiles`. The inductive invariant adds to the types and
  to `NeverStuckSuspended`: without overlap one guard is alive at most, none
  beside an install that landed, and the flag is up as long (`OneOwner`) - the
  flag itself does not say whose it is; past its copy an installer has in `.prev`
  what is on disk (`Copied`); and an empty `.prev` means that no install is past
  its copy and no record disagrees with the disk (`Preserved`).
* **PartnersProofs** (Diiisco): `DiiiscoKeepsImages` (`Spec =>
  LatestIsProvedAndKept`), the refinement of the abstract image store, for any
  number of callers, images and keys. `DInv` says that one caller at most is past
  REBUILD_LOCK (`OneHolder`) and what the holder knows at each of its steps of the
  candidate and of `latest` (`HoldersKnow`). The step that promotes is then the
  abstract one, and every other step a stutter or a loss of other images.
* **PartnersProofs** (Pawns): `OwnersConsent` (`ConsentIsTheOwners`) and
  `ConsentStands` (`OnlyTheOwnerWithdraws`), with the rotation at any moment and
  torn lines. In `CInv` the newest readable line of the log is the owner's last
  decision, unless that is lost (`Recorded`), and a rotation that is under way
  keeps the last readable line of what it has read (`Rotating`), which the lemma
  `LastIsKept` shows of what is left when stale lines go. That a decision can be
  lost is the code's, and it is an exception in both properties: the rotation is
  started in setup, "before the UI can toggle anything" (`main.rs` 902-904), but as
  a task that nothing waits for, and an append (`pawns.rs` 409-419) does not look
  for a missing newline. See `NoDecisionIsLost` among the deviations.
* **PartnersProofs** (Docker): `DockerIsFound` (`StaleCliHeals`), for any finite
  number of callers. A caller's misses, the callers that may still write a wrong
  answer into the cache, and the wrong answer that is there, add up to the number
  of callers at most (`Counted`).
* **PartnersProofs** (the apps and the pinned files): `ForgottenByOverlap`
  (`OnlyOverlapsForget`, of SpaceAcres and of Olostep) and `CheckedFilesRun`
  (`OnlyCheckedFilesRun`), for any number of callers, with no assumption on how they
  overlap. The first keeps that who is between probe and store knows what was
  stored meanwhile; the second, that who is about to spawn has files that match, or
  somebody has written to them since.

Only model-checked: all liveness and ENABLED (TLAPS has no usable fairness
reasoning here), so what the pages promise, which is liveness throughout; and of the
deviations below, that the code has them.

## Findings

One statement of the code's own comments is refuted by a `violation` run with a
counterexample: a drain that fails in the middle of its batch drops the entries
behind the failure (`main.rs` 1096), against "keeping for next tick" (`poc_kept`).

## Known deviations outside the regular runs

Stated in the modules as properties, for which TLC finds a counterexample; kept
beside the regular runs because their order of events is narrower or their
statement more debatable. Where no configuration is named, take the constants
given, `SPECIFICATION Spec` (`LiveSpec` for the properties marked L) and
`CHECK_DEADLOCK FALSE`. "As in" means the configuration of that name.

| property (module) | configuration | what happens |
|---|---|---|
| `QueuedUnderOwnDay` (PocReporting) | as in `PocReporting_newest` | the day is read after the PUTs, so a slot built before midnight is queued under the next day (`main.rs` 1065; `retry_queue.rs` 8) |
| `ResubmittedOnOwnDay` (PocReporting) | the same | the batch is filtered by day once and sent over many PUTs (`retry_queue.rs` 9) |
| `CacheHoldsSubmitted` (PocReporting) | the same | slots are cached as submitted whatever the answer (`main.rs` 1058; `cache.rs` 11) |
| `NewestWins` (PocReporting) | `PocReporting_newest` | a drained older document overwrites the newer one of its slot (`retry_queue.rs` 19) |
| `RestartsOnlyEnabled` (IntegrationLifecycle) | as in `IntegrationLifecycle_double` | `restart_fn` does not read the flag again (`main.rs` 647) |
| `NoRestartDuringInstall`, `NoWatcherStartDuringInstall` (IntegrationLifecycle) | as in `IntegrationLifecycle`, `Spec` | the suspension is read once, before stop and start (`main.rs` 653), and once a cycle by the watcher (`docker_watcher.rs` 140) |
| `NeverDoubleStart` (IntegrationLifecycle) | `IntegrationLifecycle_double` | the guard named at `docker_watcher.rs` 19 does not exist |
| `TickNotWedged` (LockOrder) | `LockOrder_engine` | after an engine start the watcher takes health map, then registry (`docker_watcher.rs` 97); `get_reward_summary` takes them the other way round, and the reporting tick can end up behind both |
| `DeclineIsShown` (ElevationGate) | Purpose {aem}, Key {k1} | a late success report clears a later decline's message (`elevation_gate.rs` 186) |
| `ToldIsTrue` (Registration) | `Registration_reuse` | an exit between storing a key and its POST leaves the old install id and token beside the new key, and the next press is told "already registered" (`commands/device.rs` 362) |
| `OwnToken` (Registration) | `Registration_owntoken` | deregistration and the migration hook's key are outside the lock (`device.rs` 570) |
| `RejectionStillHolds` (Registration) | `Registration_rejection` | a 401 for a key only tried rotates the good token put back (`device.rs` 829) |
| `Completes` (Registration) | as in `Registration`, Attempt {a1}, MaxDeregisters 1 | a token stored after a deregistration leaves the next, interrupted registration without completion (`device.rs` 95); without deregistrations `CompletesUndisturbed` holds |
| `DeregisteredStaysGone` (ConfigStore) | as in `ConfigStore`, MaxLosses 0 | a deregistration is not written to the two copies (`config/store.rs` 220), and a launch that cannot read the primary brings the key back |
| `SuspendedAlways` (Updater) | `Updater_overlap` | of two installs in one process the one that fails lowers the flag of the other, also in the jitter before the restart (`updater_auto.rs` 202-215) |
| `NeverOverMsi` (Updater) | as in `Updater` | only the first registry entry is looked at (`updater_auto.rs` 441), against "only proceed when we can PROVE this install is not MSI-owned" (507) |
| `NoFalseAlarm` (Updater) | as in `Updater` | a failed download leaves the record, and the next ordinary launch says "restarted after an update" (`updater_auto.rs` 331) |
| `FailureIsShown` (Updater) | as in `Updater` | the failure is emitted in setup, before the page that listens is mounted (`main.rs` 449) |
| `ExitKeepsTheClick` (Toggle) | as in `Toggle_exclusive`, Id {"diiisco"}, MaxRestarts 1 | before the early write an accepted enable waits for the mutex of the elevation gate, which another card's unanswered prompt may hold (`commands/integration.rs` 532-538); an exit there loses the click, against "an app exit at any time after the click keeps it" (271-272) |
| `MutuallyExclusive` (Toggle) | `Toggle_exclusive` | two overlapping enables pass the check at the start (`commands/integration.rs` 436) |
| `MarkedWhileEnabling` (Toggle) | as in `MCCards`, Id {aem, diiisco}, MaxPresses 2, no faults, no restarts | two enables of one card share one pending entry (388) |
| `EnableIsKept` (Toggle) | the same, Id {diiisco} | the undo of the early intent compares values, not writes (249) |
| `LatestAttemptWins` (Spawning) | as in `MCSupervision` | is_current and the record are under two locks; a new attempt fits in between (`start_failure.rs` 127) |
| `NoOrphans` (Spawning) | the same | a child joins the job only after its hand-over; an exit before leaves it running (`process.rs` 408) |
| `StampTellsTruth` (Diiisco) | as in `MCPartners`, Pins {1, 2}, MaxImages 3; found within a minute when neither a stop nor a release interrupts a call | with an unreadable stamp a discarded candidate's alias goes back to `latest` and is marked, but the marker file holds one tag: a second discard, for another key, overwrites it, and the reuse of the first stamps the old source as the new one (`diiisco_rebuild.rs` 382, 1010) |
| `SharingEnds` L (PawnsConsent) | `Spec`, constants as in `MCPartners_pawns` | `rm -f` fails while Docker is down, and the engine brings the container back (`pawns.rs` 81) |
| `NoDecisionIsLost` (PawnsConsent) | as in `MCPartners_pawns` | the swap of a rotation that has read the log before takes a newer line away (`main.rs` 902-905, against "before the UI can toggle anything"), so that a withdrawn consent may count again or a given one be gone; a line appended behind one without its newline is unreadable with it (`pawns.rs` 409-419) |
| `InstalledOnce` (DockerEngine) | constants as in `MCPartners_pawns`, two callers | a click that waits at the gate is let in by the re-arm of another (`docker_manager.rs` 787) |
| `FundedInOneRound` (FryVpn) | as in `MCTasks_fryvpn` | the read that is due is the other task's, so this one goes on with the old verdict, and a park written by an overtaken check stands beside the wait for the registry (`fryvpn.rs` 602); `FundedIsSeen` holds |
| `OnlyLeftoversAreCleared` (FryVpn) | the same | another task starts frynode between the look at the process and at the port (`fryvpn.rs` 1477) |
| `OnlyPinnedFilesRun` (PinnedPartner) | Archive FALSE, one caller; with Archive TRUE, two | damage, another call's download or its move replaces a file between the check and the spawn (`mysterium.rs` 382-451; `titan.rs` 774), against "verified against its pin BEFORE EVERY SPAWN" (`iagon.rs` 229); `OnlyCheckedFilesRun` holds |
| `NeverInPart` (PinnedPartner) | Archive TRUE, two callers | one call moves the executable aside while the other starts it without its library (`titan.rs` 774) |
| `NothingForgotten` (SpaceAcres, Olostep) | constants as in `MCPartners`, two callers | two starts pass the probe before either has spawned; the second child takes the first one's place in the slot |
| `OneFarmer`, `StopEndsFarming`, `SetupIsSpared`, `OnlyClicksPrompt` (SpaceAcres) | the same | a start passes the probe while an app the owner opened comes up; a farmer whose app ended is not in the tree; the configuration is read before the kill; one caller's flag is another's click |
| `StopMeansStopped` (Olostep) | the same | the browser relaunches itself while it is asked to close; the tracked process is gone and the stop reports success (`aem.rs` 447-487) |
| `OptOutIsKept` (Olostep) | the same | an update of the browser wipes an opt-out with the file, and FEM restores an opt-in (`aem.rs` 323) |
| `FixedMachineHeals` L (TitanNode) | as in `MCSupervision` | a record that names the refusal is conclusive, and no step drops it without a start (`titan.rs` 915, against `code_integrity.rs` 141) |
| `UnregisteredEarnsNothing` (RewardsPage) | as in `MCPages` | the verified status of a deregistered key stays cached and is preferred (`commands/rewards.rs` 47, 191) |
| `EstimateIsShown` L (RewardsPage) | the same | a first fetch that fails arms no poll, and the poll gives up (`useRewards.ts` 69) |
| `HalfRegisteredIsTruthful` L (ReportingPage) | the same | a device without install id submits, but no event follows (`main.rs` 1115-1172) |
| `ErrorIsKept` (IntegrationsPage) | the same | a poll that began before a failed toggle clears its error (`useIntegrations.ts` 106); that later polls do is intended |
| `SpinnerStays` (IntegrationsPage) | the same | an answer from before the click shows the card off again while it installs (`commands/integration.rs` 335) |

## Not modelled, and why

* Logging and scrubbing, parsing and validation of keys and wallets, card texts,
  JSON: text without control the properties speak about.
* Machine setup, the other commands, Storj, filecoin_checker and sentinel: single
  calls of the operating system, of a service or of `docker compose`, with no
  state between them.
* Packaging and QA are not part of the running program.
* Scores, hardware gates and the table of multipliers: pure functions of one
  snapshot, with tables as their tests.
* Times of backoffs and timeouts: only their order and counts.
* In the modelled parts: the bearer token of the HTTP client and the wallet
  (Registration); the miner key of queued documents (PocReporting); the update
  lock of a card (Toggle); the names of temporary files (ConfigStore); the
  pre-update hardening, orphan processes and the updates of single integrations
  (Updater); resource limits and log pumps (Spawning); the file of the node key
  (Diiisco); the creation of the wallet (FryVpn); LAN checks (MystNode); poll
  backoff and engine-start count of the watcher; the exits of tray and window.
* Modules of one composite run do not interact in the model. In the code they
  share the elevation gate (modelled by itself, and inside DockerEngine as `gate`),
  the supervisor's mutex (Spawning) and the card's flag (Toggle).

## Plan

In this order, what would come next: the exits of tray and window against starts
under way (`main.rs` 187-268, 1296-1307); Registration with the client's bearer
token and with the key of queued documents; the watcher's backoff and limit; the
update lock and updates of single integrations.

Proofs worth having next: that the health loops FryVpn and TitanNode carry with
them behave as HealthLoop; that the reporting task implements an abstract ledger of
a day's slots; the safety that the pages' liveness rests on.
