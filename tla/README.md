# Lugh smart-building control: a TLA+ development

The repository holds a Django server (`find_device/`) that drives Beckhoff CX
controllers over ADS, one per apartment, and a Flutter app
(`flutter_application_plc/lib`) that polls it and sends commands. This directory
holds the specifications of the parts where threads, callbacks, retries and
failures meet, the TLC configurations that check them, and the proofs.

## 1. Inventory

**Server process model.** One synchronous Gunicorn worker serves requests one at a
time; Celery worker and beat are separate processes (or threads of the same one
with `LUGH_EMBEDDED_SCHEDULER=1`). `DeviceRegistry._apt_instances`, `EventBus` and
`DeviceValueCache` exist once per process. Inside a process run, besides the
request: reconnect threads, fade threads, flash-restore threads, notification
dispatch (and the automations it calls), lighting shows and SuperScans.

| Component | State | Operations | Interacts with | Hard part | What makes it correct |
|---|---|---|---|---|---|
| ADS client (`plc/ads_client.py`) | connection, connected flag, handle cache, reconnect thread, route-repair cooldown | connect, disconnect, read/write (single, batch, by handle), queries, reconnect loop, route repair | every device object; controller | I/O without the lock, thread hand-over, back-off, lost routes | one connecting thread; no command loses its connection; no stale handle; recovers |
| Modbus client (`plc/modbus_client.py`) | same shape, shorter delays | point reads and writes | registry, as a fallback | same | same |
| Device registry (`plc/registry.py`) | device dictionaries, fade generations, automation subscriptions | start, refresh, fades, flashes, automations, full-state read | views, tasks, notifications, client | background writers against commands; in-place refresh | the last command wins; nothing reads a half-filled dictionary |
| Devices (`plc/devices.py`) | none, or a mock level | three-write commit pulses, conversions, `fade_to` | client | pulses of two threads overlap; one of three writes fails | a committed level is the commanded one |
| Notifications (`plc/ads_notifications.py`) | subscriptions, ADS handles, queue, dispatch thread | subscribe, unsubscribe, restore, dispatch | client, automations | reconnect loses ADS notifications; rules edited while they fire | one callback per enabled rule; a handle exactly while somebody listens; a notification ends in its action |
| Event bus and SSE (`realtime/`) | client queues, connection counts, value cache | publish, register, unregister, stream, snapshot | tasks, app | full queues, streams never started, one bus per process | a slow client loses the oldest events, never the newest; updates arrive |
| Tasks (`tasks.py`) | `down_since` in the database, alarm state | poll, heartbeat, sunset override, alarms, housekeeping | registry, event bus | late and missed beats, two processes | one alert per outage and one per recovery |
| Lighting effects (`lighting_effects.py`) | show threads, database flag | start, stop, resume, chase step | registry, views | stop, start, resume and restart within one step | one show at a time; the lights settle as the override wants them |
| SuperScan (`superscan.py`) | scan row, device under test, capabilities | start, cancel, read, test, restore, deep pass | registry, `test_io`, flashes | cancel, lost link and crash mid-test; two writers on one output | one scan thread; undisturbed outputs restored; scans end |
| Endpoint pool (`config/runtime_config.dart`) | ordered endpoints, active index, version, circuit per endpoint | edit, report outcome, probe, fail over, reclaim | AppState, preferences | answers of old servers, probes that land late, back-off | sticky, versioned, converging failover |
| App state (`state/app_state.dart`) | shown values, device list, status, poll in flight, pending overlay | poll, refresh, rebuild, commands | endpoint pool, API | a rebuild inside the handler of an answer | only the current server is shown; never hangs |
| Accounts (`auth_views.py`, `user_management_views.py`, `permissions.py`, `models.py`) | users, refresh tokens, session rows, memberships, grants | login, rotation, revocation, disabling, deletion, assignment, selection, expiry | every request | long sequences of legal requests by several requesters; a session row that was not written | revoked and disabled stay out; a login never forks; one default; owners stay in their buildings |
| Rules, relabelling, commissioning (`automation_views.py`, `relabel_views.py`, `commissioning_views.py`) | rows | write the row, then tell the running registry | registry | the registry may not be running, may be mid-refresh, or the row may raise | what is saved is served |
| Map, discovery, screens | database rows, widgets | request/response | all | little | not modelled |

`PROJECT.json` lists every component with its status, and under `hazards` what is
hard to test, each at its line.

## 2. Modules

| Module | Models | Used by |
|---|---|---|
| `LinkSession` | the abstract promise of a PLC client's session: established only when none is open, ended only by a failed operation, closed before it is replaced | refined by `ADSClient` |
| `ADSClient` | `plc/ads_client.py`, and of `plc/registry.py` that `for_apartment` hands a client out only after `_start` | runs `ads_client`, `ads_reconnect` |
| `RuntimeConfig`, `MCRuntimeConfig` | `config/runtime_config.dart` and the traffic that feeds it | runs `runtime_config`, `config_overflow` |
| `AppState`, `MCAppState` | `state/app_state.dart` composed with `RuntimeConfig` (EXTENDS; a change of version is the notification) | run `app_state` |
| `DaliChannel` | one DALI channel and all its writers: `views.py`, `plc/registry.py`, `plc/devices.py` | runs `dali_channel`, `dali_last_command` |
| `LoginSessions` | the abstract promise of the token endpoints: a login has one accepted refresh token until it ends, each refresh replaces it by a new one, an ended login never comes back | refined by `Accounts` |
| `Accounts`, `MCAccounts` | `auth_views.py`, `user_management_views.py`, `permissions.py` and their models | run `accounts` |
| `DeviceRegistry`, `MCDeviceRegistry` | `plc/registry.py` with `plc/ads_notifications.py`, and the requests of `relabel_views.py`, `automation_views.py`, `superscan_views.py` that change it | runs `registry`, `listeners_restored` |
| `SuperScan` | `superscan.py`, `superscan_views.py`, `test_io` and the flashes of the registry | `MCJobs` |
| `LightingEffects` | `lighting_effects.py`, the override and resume of `tasks.py` and `embedded_scheduler.py`, the request that starts and stops a show | `MCJobs` |
| `EventStream` | `realtime/event_bus.py`, `realtime/views.py`, `poll_plc_state` | `MCJobs`, run `live_updates` |
| `MCJobs` | the three above side by side | run `jobs` |
| `ADSClientProofs`, `RuntimeConfigProofs`, `AppStateProofs`, `DaliChannelProofs`, `AccountsProofs`, `DeviceRegistryProofs`, `JobsProofs` (`SuperScan` and `LightingEffects`), `EventStreamProofs` | theorems | `tlapm` |

Operators marked "Mutant" are faulty variants of the definition that follows them;
no specification uses them. They document which mistake each property would catch.

### ADSClient

`conn`, `connected`, `handles`, `rthread`, `exc` and `cooling` are the fields of the
same meaning in the class; `pc[t]` is where a thread is inside `connect()` or
`_reconnect_loop`, `"dead"` meaning `is_alive()` is false. A request is two steps,
`Begin` (lock taken, command sent) and `Served` or `Failed` (lock released), because
the lock is held across the ADS call. `NoteBegin` and `NoteEnd` are the calls of
the notification manager, which go to the connection without that lock; `lost` says
that a command on the session has failed. `connect()` is several steps because it is
not: `Open` is the network part, `Publish` and `ConnectFailed` the locked tails,
`Repair` and `AddRoute` the route repair between. `Exit` is a step of its own: a
thread that has left its loop is still alive for a while, and that is where
reconnection can be missed. The controller (`PlcFault`, `PlcReturns`) is external:
up, up without our route, or down. A handle is "live" in the session it was
obtained in and would be "stale" in the next. Statistics, logging and mock mode are
left out; `stop_reconnect()` and `add_route()` have no callers.

### RuntimeConfig

An action is the Dart code between two awaits. `ep[u]` is the `_Endpoint` of a URL
(consecutive failures, clean answers in a row, openings, ticks left of the window,
probe running). Time is counted in ticks of `_baseBackoff`; a tie between windows
that end in the same tick may go either way. `Poll` is AppState's gated poll,
`OtherOutcome` any other reported outcome (commands are not gated, late answers
belong to old endpoints), `ProbeOne` the end of a probe, which always reports as a
backup, `ProbeOrphan` the end of a probe of a discarded endpoint. `setEndpoints` is
two actions around its await. Dart's integer `pow` wraps, so `Pow2` does, at
`IntBits`. A negative window has ended before it began; far enough below zero
`DateTime.add` throws instead, which leaves the circuit closed just the same.

### AppState

Requests in flight are records of their kind, server, whether they are the current
`_inFlightPoll`, and `fresh`: whether the version they captured is still the
current one (exactly what the guards compare). `Listening` adds to a step of
RuntimeConfig what the synchronous listener does with it: `ReqsAfter`,
`StatusAfter`, `ShownAfter`, `DevicesAfter` are the values `_rebuildForConfig`
leaves. `PollReply` is the whole rest of `_doPoll`: report, rebuild if the report
failed over, then apply. The values themselves are abstracted to the server they
came from.

### DaliChannel

`level`, `flag`, `actual` are the channel's three controller variables, `seen` the
edge detector of the controller's scan (external). A thread inside
`set_brightness()` passes `"level"`, `"set"`, `"hold"`, one ADS write each. The
generation token is represented by the fade that drew the newest one (`newest`):
`_fade_generation == my_gen` holds of exactly that thread. `pct_to_byte`,
`byte_to_pct`, the number of steps and the level of each step are computed as the
code does. `last` is what the newest command asked for and `owner` its thread while
nothing else can decide the outcome; both are history variables. Two facts about
time are assumed and stated at the head of the module: the scan misses no change of
the flag, and `set_brightness()` calls end in the order they began.

### Accounts

A request is one action, since one worker serves requests one at a time; what
interleaves is their order, with the clock and the sweep of expired grants. Its
writes are committed one by one, though, so a revocation takes two parameters: `done`,
the rows it finished, and `last`, the row it had flagged and not yet blacklisted when
it was cut short. `cut` remembers the latter and `spared` the accounts disabled
without a finished forced logout, by an interrupted request or in the Django admin. A refresh token is its number: `holder` is its OutstandingToken
row, `invalid` what `RefreshToken()` refuses, `session` its SessionInfo row. `Mint`
takes `recorded`, because `_record_session` swallows its errors. `root` (the login a
token descends from) and `unrecorded` are history variables. `users_in_scope` and
`apartments_in_scope` are the two scopes of `permissions.py`: a management request
looks a user or an apartment up in the one its view uses, and in no other.
`resolve_permissions` and `_registry_or_error` are what a user may do and where the
commands go. Only the newest grant of a user is kept. `AcceptedOf` maps the tables to
`LoginSessions`: the tokens of a login that `refresh_token` would exchange, which a
deleted holder's are not.

### DeviceRegistry

`web` is the request thread: the database write of a request and its call into the
registry are different steps, `"open"` being the start of a registry that is not
running. `_start`, `AddDevice`, `ClearDevices` and `_load_devices_from_db`,
`remove_automation` and `reload_automation` are the calls; `exec` is the dispatch
thread, which copies the callbacks (`Take`), calls each (`CallBack`, which reads its
rule again) and acts. The eleven dictionaries are one function from a device to the
label it was loaded with, so a row renamed behind the registry's back shows;
`Templated` are the devices whose row has an address scheme, which are in `_templated`
only, and `ByType` is the lookup by type, which does not find them. Only
`promote_capability` makes such rows. `Bad`
are the devices whose constructor raises: `add_*` logs it, `refresh_devices` and
`_start` do not survive it. A handle of a lost session is `"stale"`: still in
`_handles`, so the variable is not registered again. `leaked` are the notifications
the controller keeps after a delete that failed. `Restart` may hit any step.

### SuperScan

A ScanRun row and the thread that works on it are separate, so that a process can
die and leave a running row behind. `seen` stands for `last_seen_scan`. A test is
three steps (flash, restore, verify) with the link and other writers in between;
`pulse` counts, by the value they will write, the restore threads of `test_io` and
`flash_raw_*`: nothing keeps a second pulse from starting before the first has
restored (`MaxPulses` bounds how many of one output will write the same value). A
test that raises is recorded by the link it leaves: failed if up, unavailable if
down (`Fault`). `kind` tells apart
what the flash writes and what putting back means: a curtain is stopped, not put
back. `wanted` and `disturbed` are history variables, the second the outputs whose
test or pulse met another writer, a second pulse, an unreadable state, a write that
failed or a dying process.

### LightingEffects

`flag` is in the database and survives `ServerDies`; `active` (the registered stop
event), `halted` (set stop events) and the threads do not. A stop is two steps, the
pop under the lock and the signal outside it, which is where a new show can start
before the old one knows. `tick` is the scheduler: it reads the flag, then acts on
it. Which lamp a chase step lights is left open.

### EventStream

Everything a process holds once is indexed by the process. `PollProcess` is a
parameter: the web process when the poll runs there, a worker in the deployment of
the compose files. An event carries its sequence number instead of a value.

## 3. Runs

| Run | Result | Bounds |
|---|---|---|
| `ads_client` | pass, 22 638 states | 2 requests, 1 notification call, 2 reconnect threads, starter, 1 variable, 2 faults, back-off overflow after 1 attempt |
| `ads_reconnect` | violation of `ReconnectsAfterFailure` | same |
| `runtime_config` | pass, 80 304 states | pools over 2 URLs, 2 failures to open, 2 clean answers to reclaim, windows of 1-2 ticks plus jitter, 1 flip, 1 edit |
| `config_overflow` | violation of `Converges` | same, 3-bit integers, 4 openings told apart |
| `app_state` | pass, about 500 000 states | 2 URLs, 1 failure opens, 1 edit, 1 command and at most two device fetches in flight |
| `dali_channel` | pass, 2 054 917 states | web thread, 1 automation, 2 fades, 1 restorer, 3 commands, 1 failed call or wall-switch press |
| `dali_last_command` | violation of `LastCommandWins` | web thread and 1 fade, 2 commands |
| `accounts` | pass, 266 082 states | 1 resident, 1 staff member, 1 owner of 1 of 2 buildings, 2 apartments, 1 role, 2 tokens, clock 0-1 |
| `registry` | pass, 454 824 states | 1 switch, 1 lamp with 2 labels, 1 promoted lamp, 1 row that raises, 2 rules (constraint `SmallRules`: one acts on each lamp), 1 queued notification |
| `listeners_restored` | violation of `ListenersAreRestored` | 1 switch, 1 lamp, 1 rule |
| `jobs` | pass, 435 414 states | 2 scans, 1 output of any kind, at most 1 restore pending of each value, 1 symbol; 1 lamp, 2 chase threads, 1 request; 2 streams, 2 devices, queues of 2, 3 events |
| `live_updates` | violation of `ClientsReceiveUpdates` | same streams, poll in the worker |

*What the passing runs show.* `OneConnector`, `InFlightUndisturbed`,
`NoStaleHandle`: although `connect()` and its cleanup run unlocked, the liveness
test of the reconnect thread and the order of `_start` suffice; a notification call,
which takes no lock, can have its connection closed under it, but only after a
command on that session has failed. `SessionSpec`: the
client implements `LinkSession`. `Recovers`: with callers it reconnects whenever the
controller is back. `PriorityKept`, `Sticky`, `ChangeIsVersioned`, `Converges`: the
failover promises of the pool. `OwnServerOnly`, `CoalesceFresh`: answers of old
servers never reach the screen or a waiting caller. `BackoffHonoured`,
`ConnectingEnds`: the gate works and never leaves the app hanging. `Settles`: a
fade ends at its target whatever was in flight or failed when it took the token, and
a direct command or a flash on a quiet channel ends where it should and reads back
as the percentage asked for. `FadesNeverFight`: what the generation token is for. `RevokedNeverUsable`, `DisabledIsLoggedOut`: no order of rotation,
logout, revocation and disabling brings a token back, provided the session row was
written and no request was cut short between its two writes. `LoginSpec`: the token endpoints implement `LoginSessions`, so a login never
forks into two lines of tokens and a refresh changes no other login.
`DefaultIsUnique`: commands go to one apartment however the default is set.
`OwnerStaysInScope`: management of shared residents by two owners does not reach
into the other's building, the deletion of the account and the default apart.
`SubscriptionsMatchRules`, `HandlesFollowCallbacks`: editing rules while they fire,
failed registrations and restarts leave no old callback and no orphaned handle.
`EveryRowIsLoaded`, `LoadIsWhole`: what is saved is served. `MissOnlyMidRefresh`:
every way an automation can miss its device is known; the two that are not a row that
raises are the refresh itself, although the docstring of `refresh_devices` says a
reader never sees less than an old entry, and a device with an address scheme. `Reacts`: one failing action does not cost the next rule its turn.
`OneScanThread`, `TestsRestore`, `ScanEnds`: scans neither overlap nor hang, and
outputs come home. `OneLiveShow`, `LightsSettle`: one show, and an end to it.
`StreamKeepsNewest`: a full queue loses only its oldest events.

*What the violations show* is written in `PROJECT.json` under `findings`: a read
failure in the moment a reconnect thread ends is not followed by a reconnection; the
back-off exponent overflows after 64 openings; a direct DALI command loses to an
older fade; no notification is registered again after a reconnect, so automations go
deaf, although `restore_subscriptions` says it must be; the poll of the Celery worker reaches no stream of the web server.

*Why the bounds are enough.* Two requests and two reconnect threads give every
hand-over between an ending and a starting thread; more identities repeat it, and
the proofs cover them. Two endpoints give every failover and reclaim; what needs
three is stated below. Counters are capped where the code stops telling values
apart. In `DaliChannel` three commands let one writer be superseded while another
is in flight; the percentages 0 and 2 and the flash levels 20 and 80 give moving,
truncated and rounded steps. `CHECK_DEADLOCK FALSE` in the DALI configurations: with
its commands spent a quiet channel stays quiet. In `accounts` two tokens are a login
and its rotation, or two devices; two apartments in two buildings give a scope and
its outside; the run may stop when tokens, clock and accounts are used up, and so
may the streams of `jobs` and `live_updates` once their events are published. In
`registry` two rules on one switch are what separates removing a callback from
removing the last one; `SmallRules` only fixes which lamp each rule acts on and, for
the second, the trigger value; rules are written by the steps that begin a request,
which are under no fairness, so the bound cuts off nothing `Reacts` relies on. In `jobs` scans, shows and streams share no variable, so a
behaviour follows one of them, chosen at the start: the state space is the sum
instead of the product. Two chase threads are an ending and a starting one; with two
concurrent requests `LightingEffects` alone was also checked (361 000 states), and the
proof covers any number.

*Fairness.* `ADSClient`: started threads run, the cooldown ends, and somebody keeps
calling (the app polls every second). `RuntimeConfig`: timers fire, requests and
probes end (both have timeouts), preferences are written. `AppState`: only that the
poll in flight ends, by `_pollTimeout`. `DaliChannel`: none. `DeviceRegistry`: the request in progress and the dispatch thread
run; no request, notification or reconnection is promised. `SuperScan`: a scan
thread runs unless the process dies; failing is never required of it.
`LightingEffects`: chase threads, accepted requests and the scheduler run; neither
requests nor restarts are promised. `EventStream`: beat runs the task, the server
drains open streams, and polls that could read something do so again and again (the
one strong fairness: without it a controller that never answers explains the
silence).

*Known limits.* `Converges` holds for two endpoints and not for three: a probe
launched while an endpoint was a backup can land after its promotion, open its
circuit without a failover, and let two dead endpoints take turns while a third
answers. `Settles` says nothing of a command issued while a flash's restore sleeps
or after a failed write left the flag up: there the code does lose it.
`DisabledIsLoggedOut` excludes users with a login whose session row could not be
written: that token survives the forced logout. A revocation cut short between its
two writes leaves a row shown as revoked with a usable token; `_force_logout` skips
such rows, so only repeating `session_revoke` on it helps. An account disabled in the
Django admin, or by a `user_disable` that ends after its first write, keeps its
tokens until somebody forces a logout. `Sticky` and `PriorityKept` do not see a
circuit that opens without a failover: the active endpoint stays. `OwnerStaysInScope` is about what a
user may do: an assignment by one owner may move the user's default out of another's
building, and deleting an account shared with another building is allowed by the
code. `TestsRestore` excludes outputs another writer touched during a test: the
restore does overwrite a resident's command. It also excludes outputs with two pulses
at once: the second takes the flashed value for the original, and the output is left
flashed. A failed delete leaves a notification on the controller until the session
ends; it is dispatched to whatever callbacks the variable has then. A rule on a device
with an address scheme fires without effect. Rows edited in the Django admin (which
refreshes no registry, and can give an assigned device an address scheme) are outside
the model. A scan whose process died leaves its row
running, and the row blocks later scans; nothing in the repository clears it.

## 4. Proofs

All theorems hold for every value of the constants under the modules' named
assumptions (thread identities distinct, pools non-empty without repeats, tuning
constants positive, `Clients` finite so that streams can be counted).

* `ADSClientProofs`. The inductive invariant adds to the four invariants where each
  thread may be: a reconnect thread that is alive is the one `rthread` names, while
  the starter is inside `connect()` no request has been admitted and so no thread
  launched, a thread past `close` has found no connection and no handles left, and a
  request inside a command implies an established connection; `LostInv` adds that
  an open connection that does not count as connected has had a command fail on it,
  which is what `InFlightUndisturbed` says of the calls without the lock. From it:
  `TypeCorrect`, `OneConnectorHolds`, `InFlightHolds`, `HandlesFresh`,
  `SessionRefinement`, the refinement of `LinkSession`, and `NothingBlocksReconnect`,
  the safety half of `Recovers`: while a thread connects nobody holds the lock, and
  when `is_alive()` is false no reconnect thread is still running unreferenced.
* `RuntimeConfigProofs`. `IInv` is `TypeOK`, `PriorityKept` and that an endpoint with
  clean answers in a row has a closed circuit: without it a promotion could pass
  over a proven endpoint. Lemmas state what `PromoteTargets`, `Reclaimable`,
  `RecordSuccess` and `RecordFailure` return. From it: `TypeCorrect`,
  `PriorityHolds`, `StickyHolds`, `ChangesVersioned`.
* `AppStateProofs`. Adds that a fresh request was sent to the active server, that
  the current poll is fresh and single, and the shown data's origin. The lemma that
  carries it, `SuccessStays`: reporting a success of the active endpoint never fails
  over, which follows from `PriorityKept`; so the data applied after the report is
  still the current server's. From it: `AppTypeCorrect`, `OwnServer`, `Coalesces`,
  `AppPriority`. Lemmas that say what one report (`ReportCfg`) and one configuration
  step (`ConfigCfg`) do to the pool carry the pool's action properties into the
  composition (`AppSticky`, `AppVersioned`). `BackoffKept` goes through every place a
  poll can start, the rebuild inside a reply included. `ConnectingHasPoll` is the
  safety half of `ConnectingEnds`: the status "connecting" always stands for a poll in
  flight, which the timeout then ends.
* `DaliChannelProofs`. `TokenInv` says a superseded fade is inside
  `set_brightness()` only while its successor makes its first step, and leaves
  before it. `OwnerInv` follows the thread that decides the outcome: a one-pulse
  command is alone on the channel and its level is on the way to the controller; a
  flash is alone until its restore; a fade holds the token, has nobody beside it
  from its second step on, and its last step is the target (`LastStep`). With the
  round trip of percent and byte (`RoundTrip`) a quiet channel has arrived. From it:
  `TypeCorrect`, `NoFight`, `CommandSettles`. Because a fade makes at least two
  steps (`StepCountRange`), the step that commits the target is never its first.
  `FadesGoOneWay`: a fade never turns back and never passes its target. `CourseInv`
  says that a fade that steps has somewhere to go and that the level it last sent is
  one its count gives; `StepBetween` and `StepMonotone` are the arithmetic, that two
  roundings to the nearest percent are off by less than one step and one percent.
* `AccountsProofs`. `SessionInv` adds to the three token invariants that tokens are
  minted in order, that a token's root is itself or older, that a token's holder
  once existed, and that a missing session row of an undeleted user is accounted
  for in `unrecorded`: a disabled account is logged out only because every usable
  token has a live row. `LoginsRefined` is the refinement of `LoginSessions`, request
  by request: what only makes tokens invalid is an `End` (`FewerIsEnd`), a login a
  `Begin`, and a refresh a `Rotate` because the token it exchanges was the only
  accepted one (`RotationNeverForks`). `OneDefault` (at most one default row per user) carries
  `DefaultDecides`; the action theorem `OwnersStayInScope` goes through the requests
  one by one.
* `DeviceRegistryProofs`. `HandleInv` is inductive by itself and gives
  `NoHandleLeaks`; a registration fails without a link, and nothing is registered
  before the registry starts. `SubsInv` says, for each phase of a
  request, which rule may be out of step: only the one the request is about, and
  while a registry loads only those still to do. `LoadInv` does the same for the
  dictionaries: rows only ever gain labels, what has been loaded so far has its
  row's label, and an action being executed names a device with a row.
* `JobsProofs`. Scans: `ScanInv`, a thread has a running row and at most one row is
  running; `TestInv`, of each undisturbed output, where it stands relative to what
  the residents wanted, in each phase of a test or a pulse; the lemmas on `pulse` say
  that an undisturbed output has at most one restore thread, whose value is the
  original. From them:
  `ScansNeverOverlap`, `OutputsComeHome`. `ScansDescend` and `ScansNeverStick` are
  the safety half of `ScanEnds`: phase, capabilities left and part of the test in
  progress form a measure that every step of a thread lowers, and what is left always
  fits the phase it is in. Shows: `OneShowAtATime` adds to `OneLiveShow` that a
  request holds an event only between the pop and the signal, and none while the
  process is down.
* `EventStreamProofs`. `StreamInv` adds to `StreamKeepsNewest` (the queue is a run of
  consecutive events that ends at the newest, all newer than what was sent) the types
  and that an unregistered stream has an empty queue; a full queue drops its head and
  so stays a run (`PushKeepsNewest`). From it:
  `NewestKept`, `InOrder`. `ConnectionsCounted`: the counter compared with the cap is
  the number of streams that are counted, in whatever order they open and close.
  `OtherProcessIsSilent`: with the poll in another process than the streams no
  stream is ever sent anything, so the violation `live_updates` finds does not
  depend on a schedule.

Only model-checked: the six liveness properties (`Recovers`, `Converges`,
`ConnectingEnds`, `Reacts`, `ScanEnds`, `LightsSettle`), because
liveness under fairness is beyond this prover. Every other property of a passing run
is a theorem. The invariants and action properties defined in the proof modules
(`ConnectingIsPolled`, `CourseInv`, `FadeGoesOneWay`, `TodoFitsPhase`,
`ScanDescends`) were model-checked on small instances before they were proved.

## 5. What is left

1. The outage heartbeat of `tasks.py` with missed and late beats, and the alarm task.
2. The optimistic overlay of the app: pending values of a device against polls,
   failing and reordered commands and other writers.
3. The Modbus client as a second refinement of `LinkSession`.
4. The safety halves of `Reacts` and `LightsSettle`: measures that their
   threads lower, as for scans.

### Not modelled

* Modbus client: its reconnect loop repeats the ADS client's with other delays; its
  use as a fallback is in `DaliChannel`.
* The optimistic overlay: it needs device values, which `AppState` abstracts to the
  server they came from.
* Heartbeat, alarms, backups: wall-clock windows of single tasks.
* Map, device CRUD, discovery and diagnostics views: request/response over the
  database or the network, without state that outlives the request.
* Access tokens, password rules, audit log; the log-in screens of the app.
* Screens and widgets (presentation), migrations, the mock PLC server.
