# ffos-user in TLA+

`ffos-user` is the software of an FF1 art computer: a Go daemon that takes
commands from controllers and drives a Chromium kiosk (`feral-controld`), a
watchdog that restarts the kiosk and reboots the machine (`feral-watchdog`), a
monitor of sensors and connectivity (`feral-sys-monitord`), and the systemd
units and scripts that hold them together. This directory holds TLA+ models of
its parts, the TLC runs that check them on small instances, and TLAPS proofs
for all instances. Paths below are relative to `src/`; `C` stands for
`components/feral-controld`, `W` for `components/feral-watchdog`, `M` for
`components/feral-sys-monitord`.

## 1. The system

### Components, state, operations

| component | state | operations | what makes it correct |
|---|---|---|---|
| control authority, `C/control/admit.go` | invitation, pending requests, denies | open an envelope; commands; approve, register, revoke, release; enroll; requestAccess | a signed command runs at most once; authority comes from an invitation or an owner and ends by an owner's command; the ceremonies agree with the state |
| grant store, `C/control/store.go`, `fs.go`, `replay.go` | records with a replay window each; memory and disk; lock | create, load, update, retire | memory, disk and reply agree whatever write fails, and wherever power goes |
| Chromium ladder, `W/chromium.go`, `commands.go`, `update_gate.go`, `fallback_state.go` | timers, restart history, fallback hold, reboot count | a check every 5 s; restart, show the error screen, reboot | a budget is never run against a start it did not see; a bounded number of reboots; it neither gives up nor loops |
| CDP health reporter, `C/cdphealth/cdphealth.go` | episode and report timers | poll, emit over D-Bus | a long absence is heard of, however the bus fails; a short one is not |
| watchdog resource handlers, `W/ram.go`, `disk.go`, `gpu.go` | a timer, cooldowns | restart the kiosk, clean up, reboot | no reboot after a recovery, none during an update |
| system monitor, `M/connectivity.go`, `event.go`, `mediator.go` | connectivity generations, journal, channels | watch, probe, send | a stop sticks; no verdict of an old generation |
| claim flow and factory reset, `C/devicectl/executor.go`, `device_name.go` | claim, invitation and its timer, name, staged latch | the automatic claim, connect, release, rename, reset | a redeemable invitation is watched; nothing written after the reset staged itself survives it |
| setup screens, `C/setupui`, `C/overlay` | the narration, one current overlay, deliveries | show, hide, sweep, resync | the screen is what was decided last |
| OTA gate, `C/otagate` and its callers | flight, retry ladder, failure latch | check, install | one flight; a round blames no older failure |
| schedules, `C/sleepschedule`, `C/devicectl/sleep_schedule.go` | the record on disk, what the player was told, the panel | tick, override, retry | the device ends in the state the schedule asks for |
| provisioning, `C/provisioning` | set-up access point, claim session | raise, drop, claim | an event of one raise does not reach the next; the radio is given back |
| player session, `C/playersession`, `C/cdp`, `C/status` | page generations, navigation slot | navigate, await, reconcile | a reply belongs to the document it is given for |
| offline cache, `C/offlinecache/service.go` | queue, records, blobs, clear epochs | save, capture, evict, clear, GC | a clear is final; a record has its bytes |
| offline replay, `C/offlinecache/replay.go`, `kioskreplay.go`, `kiosktargets.go` | scope, targets, paused requests | attach, enable, answer, retire | every paused request is let go; nothing is failed after the strict scope |
| mint pairing, `C/mintpairing` | pairings, workers, sessions | start, join, confirm, revoke | a reset leaves no session behind |
| relayer and mediator, `C/relayer`, `C/mediator` | socket generation, retired latch, connectivity cache | connect, reconnect, close | one socket; no action on behalf of a closed one |
| relay v2 bindings, `C/controlgate/relay_v2.go`, `C/relayer/device_session.go` | peers, bindings, snapshots | admit, bind, seal, unbind | a binding ends with its peer and its grant |
| others | | | listed in `PROJECT.json` with the reason they are left out |

### How they interact

* An envelope comes from the relayer or from the LAN hub through the mediator or
  `controlgate` to the control authority. The authority answers ceremonies
  itself; it passes an admitted command to the command router only after its
  counter is durably spent.
* The command router calls the executor, which drives the player session, the
  cache, the schedules, and on a factory reset the authority's `Retire` and the
  mint pairing's session cleanup.
* Setup, pairing and notices share one screen through the overlay controller: a
  current overlay and a bounded queue of deliveries to the page.
* The kiosk is one systemd unit with four users: the Chromium ladder, the RAM
  and the GPU handlers of the watchdog, and the operator. The first three share
  `CommandHandler`, its in-flight flag and its refusal under the error screen.
* `feral-controld` sees the page target, which the watchdog cannot see; it says
  `EVENT_CDP_STUCK` over D-Bus. `feral-watchdog` sees `/json/version`, and is
  the only one to act. `feral-sys-monitord` says what it sees of the network and
  of the GPU; the mediator and the watchdog listen.
* The updater is a script with a lock file; the watchdog reads it before a
  restart or a reboot and the updater does not read anything of the watchdog.

### What is hard

Mutexes are held for short stretches and much is read outside them: the claim
clock before `Authority.mu`, the display, the console and the updater before
`ChromiumMonitor.mu`, a playlist's members before the cache's lock. Durable
writes have three outcomes (done, renamed but not synced, failed). The
watchdog's memory is gone after every restart and every reboot it orders, one
number excepted. Signals over D-Bus are edge-triggered, lost when a send fails
or a listener is down, and handled on a goroutine each. Workers outlive the
request that started them: what they hold when they finish may belong to a page,
a topic, a socket or a clear that is gone. `PROJECT.json` lists each hazard at
its line with the properties that cover it.

## 2. How the project is laid out

One module per component, in the order of the damage a mistake would do; a
module `MC...` gathers one or more components in SCENES, small instances chosen
by a variable `scene` that never changes, so that their state spaces add up
instead of multiplying. A property stated in a component's module is checked as
it stands wherever the component's base instance is the one of the `.cfg`:
`MCControl`, `MCKiosk`, `MCNet`, `MCDevice`, `MCHealth`, `MCFrame`, `MCSetup` and `MCOfflineCache` EXTEND the
component whose theorems are proved and give its constants in the `.cfg`; the other scenes
are `INSTANCE`s with other constants. Names marked `mutant` in the modules are
forms of a definition with a plausible mistake in it, used to see that a run
would notice; no specification uses them.

| module | models | checked by | proved in |
|---|---|---|---|
| `ReplayWindow`, `ControlAuthority` | `C/control` | `control_replay` (`MCControlAuthority`), `control` (`MCControl`) | `ControlAuthorityProofs` |
| `KioskLadder` | `W/chromium.go` and what it shares | `kiosk` (`MCKiosk`), `health` | `KioskProofs` |
| `CdpHealth` | `C/cdphealth` | `health` (`MCHealth`), `kiosk_watch` | `HealthProofs` |
| `KioskWatch` | ladder and reporter around one kiosk | `kiosk_watch` | `KioskProofs` |
| `Connectivity` | `M/connectivity.go` | `health` | `HealthProofs` |
| `GpuMonitor`, `Resources`, `RebootChain` | `M/event.go`; `W/ram.go`, `disk.go`, `gpu.go` | `health`, `ram_unrestarted` | `HealthProofs` |
| `MintPairing`, `Overlay` | `C/mintpairing`, `C/overlay` | `device` (`MCDevice`) | `MintPairingProofs` |
| `PlayerSession` | `C/playersession`, `C/cdp/cdp.go`, `C/status`, `C/mediator` | `device` | `PageProofs` |
| `RelayV2` | `C/controlgate`, `C/relayer/device_session.go` | `net` (`MCRelayV2`, `MCNet`) | `NetProofs` |
| `Relayer` | `C/relayer/relayer.go`, `v2.go`, `C/mediator` | `net` | `NetProofs` |
| `OfflineCache` | `C/offlinecache/service.go` | `offline_cache` (`MCOfflineCache`) | `OfflineCacheProofs` |
| `Replay` | `C/offlinecache/replay.go`, `kioskreplay.go`, `kiosktargets.go`, `cdpsession.go` | `replay` (`MCReplay`) | `PageProofs` |
| `Provisioning` | `C/provisioning` | `setup` (`MCSetup`) | `FrameProofs` |
| `ClaimScreen`, `OtaGate` | `C/devicectl`, `C/otagate` | `frame` (`MCFrame`) | `FrameProofs` |
| `Narration`, `SleepSchedule` | `C/setupui`, `C/sleepschedule` | `frame` | |

## 3. The modules

### `ReplayWindow` - `C/control/replay.go`

The 64-bit word and its high-water mark are a set of offsets below `hi`; a shift
of the word is a shift of the set that drops what leaves it (`ShiftLeft`). The
width is the constant `WindowSize`. `CheckCtr`, `Accept` and `ValidWindow` are
`Check`, `Accept` and `valid`.

### `ControlAuthority` - `C/control/admit.go`, `store.go`, `fs.go`, `claims.go`, `tiers.go`

| variable | code |
|---|---|
| `grants`, `lock` | `Store.grants`, `Store.lockErr` and whether a process runs |
| `disk` | what `LoadStore` would read: directory, tombstone, identity, records |
| `maybe` | every `disk` a power cut may leave: the renames since the last fsync |
| `inv`, `issued` | `Authority.inv` and the invitations there have been |
| `pending`, `denied`, `lastNew` | the fields of these names |
| `now` | the wall clock |
| `runs`, `refused`, `claimed` | history: executions and refusals of one watched envelope, and whether a first owner was told so |

Every handler holds `Authority.mu` and is one action. Its durable write has the
outcome `wr`: `"ok"`; `"unconfirmed"`, which is `ErrDurability`: the rename
happened and its directory was not synced; `"fail"`. What a handler does in each
case is what the code does: some answers treat `ErrDurability` as success
(`refuse`), a command is executed only on `"ok"`, a first owner whose write is
unconfirmed has spent the invitation all the same. `prunePending` is part of
every action that goes through `OpenFrom`. A signer may use any counter and any
`iat`, and every envelope is delivered any number of times in any order.

`authenticate` reads the clock before the lock is taken, so `InTime` compares
with a clock up to `OpenLag` seconds old; `cap` of the run `control` lets it lag. `Create` is `InitDir`, with an identity
per creation; `Retire` and `RetireUnconfirmed` are the tombstone and the deletion
of a factory reset; `Restart`, `PowerCut` and `Load` are the process. A power cut
takes any disk of `maybe`. The model is POSIX's: a rename may be lost until its
directory is synced, and syncing the control directory does not sync its parent.

Left out: the cryptography (an envelope has the signer it has), failures of the
random source, notifications, the display grants and the LAN switch.

`MCControlAuthority` adds the watched envelope, symmetry sets, a specification
with a clock that steps back (`SteppedClockSpec`), and one with fewer steps for
long histories at the record cap (`CapSpec`): one owner signs in order, everybody
else sends the watched command. `CapSpec` allows a subset of `Spec`'s steps.

### `KioskLadder` - `W/chromium.go`, `commands.go`, `update_gate.go`, `fallback_state.go`, `display.go`

| variable | code |
|---|---|
| `mon` | the fields of `ChromiumMonitor`; a `time.Time` is an age, saturated one above the budget it meets |
| `pc`, `loc`, `due` | where the check is, what it has read, and whether this interval's check is still to run |
| `op`, `shown` | `CommandHandler.kioskOpInFlight`, `fallbackShown` |
| `gate` | `updateGate`: the holder it is timing, and for how long |
| `file` | the reboot count on disk |
| `kiosk`, `screen`, `display`, `vt`, `updater` | the machine |
| `seen` | history: since when the ladder last restarted the kiosk (or the machine booted, or a gate was closed), whether it answered, hold reboots since a word of health |

A check is a sequence of actions because `check` releases `m.mu` and reads the
display, the console and the updater outside it; between any two actions the
machine, the RAM and GPU handlers, the operator and controld's reports take
steps. `MonitorLocked` names the stretches under `m.mu`. Time passes only
between checks: a check is assumed to take less than its five-second interval,
and the ages are in intervals. `Events` selects what the machine does in an
instance, so that a property may say under which events it holds.

Left out: logging, metrics, the wording of the error screen. A write of the
count that fails keeps the file as it was. `"disk"` makes a watchdog restart find
the file unreadable (which the code reads as zero). Reboots ordered by others
(RAM, GPU, an operator) are `PowerCut`. How often `systemctl is-active` meets a
crash-looping unit in its restart delay is real time; `KioskReturns` may take as
long as it likes. A second updater that takes the lock over is in no instance
(`Pids` has one member); the theorems hold for any `Pids`.

### `CdpHealth` - `C/cdphealth/cdphealth.go`

`since`, `reported`, `lastReported`, `everConfirmed`, `lastConfirmed` are the
fields of `Monitor`. `Interval` and `Poll` are the ticker; `TickHealthy` and
`TickUnhealthy` are `tick` with either answer of `Initialized`, with a send that
succeeds or fails. `wire` counts the signals under way per word; the watchdog
handles each on a goroutine of its own, so `Deliver` takes any of them. A
listener that restarts forgets; so does controld, and `page` stays. `apart` is
history: polls since the target was last seen.

### `KioskWatch`

Ladder and reporter around one kiosk: `KioskLadder` extended, `CdpHealth`
instantiated. A kiosk that stops answering takes its page target with it; a
delivered word is `SetCDPStuck`; a machine that boots starts both daemons over.
`proven` counts hold reboots since a POLL, not a report, last saw the target.

### `Resources`, `GpuMonitor`, `RebootChain`, `Connectivity`

`Resources` is the three resource handlers of the watchdog over the commands
they share: `ram`, `disk`, `timer` are `MemoryHandler`, `DiskHandler` and
`GPUHandler`; `gate` and `cmd` the update gate and the reboots on their way; ages
count metrics. `GpuMonitor` is the journal watcher of `feral-sys-monitord`: what the
journal says (`log`), how much of it was read, and the events handed to a goroutine
each (`told`), which sends them in any order or fails to (`lost`). `bus` has the
signals; each is handled on a goroutine of its own, so `Resources` takes any of them
and remembers the last and the newest line it handled. `RebootChain` runs the two daemons around that bus: all that may end in a reboot.
`Connectivity` is the watcher that replaces itself by a new generation whenever
its verdict changes: a channel per generation (`gen`, `closed`), a goroutine per
channel it captured (`watch`), and the notifications under way (`notes`), each
with the channel that may void it. The first probe of all is dropped when the context
has been canceled, a later one only when its channel was closed, so a watcher of a
daemon that ends may still commit a tick. A send may fail; `online.missed` remembers
it until the next one succeeds. That a notification is over before the next check,
seconds later, and before the restart, 200 ms later, is assumed (`Told`).

### `MintPairing`, `Overlay`, `PlayerSession`

A pairing `pr[p]` is the record of its handler and worker: where it is (`pc`),
whether it is registered as starting (`guard`), its context, its relayer session.
Handlers take turns under `startMu` (`lock`); `topic` is `TopicGeneration`, and
`reset` walks through the cleanup of a factory reset and its reboot. The relayer
commits a session on its own (`RelayerCommits`), before or after the device has given
up the answer: `made` says whether and whether it was too late for the sweep, `lost`
that the device does not know. The reset waits for the creates it found (`InCreates`)
or until its budget is spent. The overlay controller's
fields are `ov`; `Overlay` has its operators (`Enqueue`, `Show`, `HideOwned`,
`Taken`, `Painted`), with the bounded queue and the delivery that replaces one of
its kind. `screen` and `painted` are what the page shows.

`PlayerSession` has the document that Chromium shows (`doc`), the CDP link, the
generations the session counts (`gens`), a readiness worker each, the navigation
slot (`nav`), a status round (`poll`) and the mediator's connectivity cache and
push worker (`conn`). Chromium may restart, and others may replace the page.

### `RelayV2`, `Relayer`

`RelayV2` has the session and its peers (`sock`), the disconnect callbacks still
to run (`gone`), the requests in their handlers (`asks`), the bindings with their
queues (`bound`), senders of dropped bindings (`spares`), the grants with the
controllers other routes have still to unbind (`grants`), and what was published
and received. `Relayer` is one relay socket and everyone who may dial, read, ping
or close it, for the legacy carrier and the device-ID one (`V2`).

### `OfflineCache`, `Replay`

`OfflineCache` steps are the critical sections of `s.mu`, `playlistRecordMu` and
`captureMu` and what lies between two of them: downloads and clears read, unlock,
probe and come back, so each command is a record with a `pc` and what it has read.
`owed`, `plOwed` and `promised` are histories: what a clear and an accepted
download promised. `playing`, `ready`, `barrier` and `stale` are the session of the
playback cache: the list on screen, whether the player has reported it, the clear that
was the newest when it came, and whether it changed since the worker took its copy. A
source cleared since is refused (`ClearedSinceBarrier`), before the probe and after it.
The queue is a set of jobs, each with the sources queued `ahead` of it, so
that the first admitted job is the one with no admitted source ahead. `Replay` numbers the connections; `armed` is where Chromium's
Fetch is on, `scope` what the session believes, `req` the paused requests.

### `Provisioning`

The machine drains connectivity, portal and user events and ticks; a handler is a
function of the machine's fields `m` and the device it finds, `dev`, written as
operators that are composed as the code calls them. A tick is `CheckInterval`. What is
done to NetworkManager's autoconnect is a call by itself each time: done, failed and
lost, or failed and applied (`Flips`); a recheck blink joins, finds nobody, or cannot
look (`Blinks`). The other kinds of command fail by a switch per kind (`dev.broken`),
which the environment turns between handlers, not inside one.

### `ClaimScreen`, `Narration`, `OtaGate`, `SleepSchedule`

The panel of a frame, four times: who may claim it (a process per goroutine of
`executor.go`, with the invitation, its timer and the name); what setup narrates
(decisions, deliveries, and the player whose bundle is replaced under the
daemon); updates (the shared check, the ladder, the unit and its log, the latch,
its three callers); sleep (the record, its evaluation over a day of `Day` ticks, the
loop, the commands, player and panel). They share the page in `MCFrame`. A refresh of the claim URL
looks, builds the URL without the lock, and commits if the claim QR is still current
(`RefreshURL`, `BuildsURL`, `CommitsURL`).

## 4. The runs

| run | what it shows | scenes and bounds |
|---|---|---|
| `control_replay` | types; a command executes at most once; a confirmed owner survives every failed write and power cut until it is released, or leaves a tombstone; memory is what a restart reads; ownership ends only by `releaseOwnership` and begins only by an invitation | 2 controllers, 2 counters on a window of one, all write outcomes, resets that complete or are interrupted; `CreateOutcomes` without `unconfirmed` (section 7) |
| `control` | the pending table keeps its caps, its denies and its agreement with the state; a revocation is undone only by an owner or an invitation and an unowned device has nobody with authority; no envelope runs twice or is executed after it was refused | `pending`: an owner and two requesters, table of 2, 1 per LAN host, known and unknown sources. `revoke`: expiring grants and a clock that steps back, 2 invitations so that a signer can return. `cap`: 4 controllers, 3 records, 8 counters, clock to 5 with a claim clock that may be a second old: register, execute, revoke, wait, evict, register again |
| `kiosk` | error screen up under every armed hold; at most one hold reboot per word of health; the ladder cuts no cold start short, its own or one after a gate opened | `hold`: every event but the operator, the display, the console, an update and a lost count. `busy`: an updater over hangs, reports, refusals, restarts and power cuts. `grace`: displays, consoles, updates, watchdog restarts. The grace is checked in all three. Budgets of 2 restarts in 3 intervals, hold of 4, one reboot |
| `kiosk_watch` | the reboot cap against what the polls saw; a kiosk that answers without a page target does not stay so | threshold of 2, one signal on the bus, restarts of both daemons |
| `health` | one connectivity watcher speaks and its last word is heard unless its send failed; no reboot of a recovered GPU but by a lost or late signal, during an update, or for memory or a disk that did not come back; stuck is said only of a target away for the threshold; a listener hears; a silent kiosk is parked and an answering one forgiven | `net`, `chain` (a GPU hang from journal to reboot), `strain` (memory, disk, an update, failing reboots), `deferred`, `ladder` (an updater that may never let go), `report` (threshold 3, two signals on the bus) |
| `device` | of the sessions of a pairing a factory reset leaves only those committed after its sweep or refused by the relayer, and none in a worker's hands if the creates had drained; the overlay belongs to a live pairing and the screen follows it; a verified navigation is of the new document and is answered once; turns and workers end; a page that stays is told content, policy and connectivity | nine scenes: a start against a join, joins with display grants, two painters, the screen with another owner; the page with connectivity, with content, with lost, two and three navigations |
| `net` | one reader and one pinger per socket, no tight redial; bindings end with peer and grant; a new binding gets the newest status and none goes back; an answering relay is connected in the end | `retire`, `odd`, `device` sockets; `revoke`, `snapshot`, `crowd`, `mint` peers |
| `offline_cache` | what was cleared stays cleared; records have their bytes, nobody is stranded on a job that is gone, an accepted download ends in a report; hot software does not starve media | two downloads against a clear; a playlist download against a full clear; the playback cache; Stop and restarts; heat |
| `replay` | every paused request is let go, by its answer, its refused answer's interception or its connection; nothing is failed outside a strict scope or left armed; replay comes back | iframes; requests of each kind; a burst that fills both admissions; lost connections, 2 to 4 dialed, one fault |
| `setup` | the screen tells the truth; a hotspot is owned or its teardown owed, no raise drops a link seen inside its window; a frame without network offers setup, goes on blinking, and joins one that returns once its commands work | eight scenes of faults, link flaps, people and restarts; windows of 1 or 2 ticks |
| `frame` | an invitation is watched, one name everywhere, a reset forgets it; one boot update; a wake recomputes the playlist; what setup decided is shown and no refresh takes the screen; everything settles | four scenes of claims, three of narration, two of updates, three of sleep |
| `ram_unrestarted` (violated) | memory reboots a device whose kiosk restart was refused (section 7) | one scene of `Resources` |

The budgets keep the order of the code's: the hang budget below the grace, the
grace below the window, the window below the hold, the hold below the updater's
maximum. Ages saturate above the budget they are compared with, so nothing is cut
off by a bound on time. Constants named `Max...` are bounds; a scene that uses one
up goes on without that event, or stops where its run has `CHECK_DEADLOCK FALSE`.
Each property is checked to fail when a definition it depends on is replaced by
a mutant (`PROJECT.json`).

Fairness. `KioskLadder`: the ticker fires and a started check goes on
(`WF(Tick)`, `WF(Check)`), which are `Monitor.Start`'s loop and the synchronous
code under it; nothing is assumed of the machine. `CdpHealth`: its ticker, its
poll, the handling of each word (`WF`), and that not every send fails for ever
(`SF(Send)`): without the last there is nothing to be heard. `KioskWatch`: both.
Everywhere else `WF` is on goroutines that run by themselves (workers, loops,
timers that were armed, signals on the bus) and never on people, faults, the
network or the arrival of requests. `replay` has `SF` on the re-dial and on the
retirement, which wait for a lock that others take and leave; `setup` asks that a
ticker ticks and the loop takes its turn, and in one scene that a station in reach
of its network associates. The liveness properties name what the environment must
do at last: the daemons are not restarted for ever, the updater's holder settles,
the kiosk stays silent (or stays up), the captures stay.

## 5. What is proved

`ControlAuthorityProofs` begins with the window, for every width: a counter accepted is
refused from then on (`AcceptSpends`), a counter refused stays refused
(`SpentStays`), no other counter is lost that the window still reaches
(`OthersStayFresh`), and `Accept` keeps what the store validates (`AcceptValid`).

The authority, for any controllers, caps, clocks and outcomes:
`TypeCorrect`, `MemoryFollowsDisk`, and `AtMostOnce` under
`Retention >= Skew + Lifetime + Grace`, which is what the code chose. It says two
things: with a claim clock that does not lag a command runs at most once, and however
much it lags, a second run is of an envelope that had run out when the lock was taken
(`RerunsAreLate`). `runs <= 1` is not inductive: one must know WHERE the spent counter
is remembered. The invariant says that once the watched command ran, every disk in
`maybe`, hence whatever a restart or a power cut finds, either belongs to another
identity, or the envelope is past its lifetime (`Over`), or the signer's record is
there with the counter spent (`Kept`). `Kept` also bounds the envelope's `iat` by the
record's revocation and expiry, so that when the record becomes expendable the
envelope is over: this is the place where the retention is used. Each handler is
shown to be a spend followed by an amendment of records that keeps windows
(`Amends`), so one lemma (`SpendingStep`) covers all commands.

The ceremonies have an invariant of their own (`OwnerInv`, `CeremonyInv`): every
disk a restart may find has an active owner or revoked records only, and
invitation, requests and denies exist only in the state they belong to. Each
request is one of three answers (`Answers`): it keeps ownership, takes it by a
live invitation, or releases it. From it follow `OwnerSurvives` (if the rename
that creates the control directory is never left unconfirmed; with it the
property fails, see section 7), `ByReleaseOrInvitation`, `RevokedForGood`, and,
with the table's caps (`RequestsInv`: every step but one only takes entries away),
`RequestsBounded`.

`KioskProofs`, for all budgets: `LadderTypes`; `HoldKeepsScreen`, if no
operator starts the kiosk: the invariant follows the fallback sequence step by
step, and rests on the in-flight flag that keeps the RAM and GPU handlers out;
`CapHolds`, if the count is never lost: the invariant relates the reboots there
have been to the count in memory and on disk at each step between the end of a
hold, the write and the reboot.

`ColdStartsHaveGrace` is about the budget of a start. The code keeps it by clearing
`ever` and restamping `start` wherever a start may be cold again, and a latch or a hold
defers that clearing to a later check; so the invariant (`TimedFromBefore`) has a
disjunct per place where the debt may stand. The one path without a restamp is a hold
that ended in a reboot that did not come: that it finds the grace over is
`HoldIsYounger`, and needs the hold (15 min) to be longer than the grace (90 s), which
is the hypothesis; TLC refutes the theorem without it.

In the same module `CapIsEarned`, the same cap against what the polls saw rather
than what was said. The ladder forgives on a word from the other daemon, and that
word takes time: `WatchInv` says that such a word, on the bus or heard, is younger
than every reboot that counts, because a reboot empties the bus and both
processes with it.

`HealthProofs`. The reporter, for every threshold: `HealthTypes`, and
`StuckSustained`, because an episode is never older than the absence it reports.
The connectivity watcher, for any number of generations: `OneIsHeard`. A generation
starts the next one as its last act, so the open one is the only one that acts
(`Generations`); and a restart waits for the pause that lets the notification of
its change start, so at most one is under way, it carries the last verdict, and
its channel is open while the daemon lives (`News`). So what the bus has is the last
verdict, or the send of it failed. The reboots, for all limits, windows and journals:
`RebootsAreEarned`. A handler counts metrics, the property counts what happened:
`RamCounts` and `DiskCounts` say that the stamps of the handlers agree with the
restarts and cleanups of the machine, and that the monitored time is never longer
than the memory has been high. For the GPU the invariant follows the last line of the journal
through any order (`Foretold`): it is unread, at a sender, on the bus, or its send
failed, or it is the newest line the watchdog has handled (`Whereabouts`); and while
it is a recovery and the last line handled too, no timer is armed. The hypothesis
`"fallback" \notin Levels` (no restart is refused) is needed: without it
`RamRebootEarned` is false (`ram_unrestarted`, section 7).

`MintPairingProofs`, for any pairings, faults and queue bound, if pairings and the
other overlay have different names: `ResetIsFinal` and `OverlayFollows`. Whoever
waits for the broker or the painter is registered as starting or has been
cancelled (`Turns`), so the reset finds everyone; a session that the sweep came
too early for was committed after it, and is in the hands of a worker that takes it
back, behind an answer that was lost, or abandoned by the reboot (`Sessions`); when
the creates had drained there is no such worker (`GateIsEnough`); the
overlay belongs to a pairing between its show and its deferred hide (`Owns`); and
the last delivery queued says what is current (`Follows`). Both theorems are about
the relations, not the data: no assumption is made on which faults occur.

`PageProofs`: `PageKnown`, for any navigations, generations, documents and
faults. A verdict must not come from the page that is being left, and three parts keep
them apart (`Barrier`): the page that was marked keeps the nonce as long as it is the
page, the generation that waits for the next one has that nonce, and so its worker has
found nobody (`Waits`) until the page is another one. `Slots` says that whoever is at
work or waits in the slot has no answer yet and that they are two. `LevelIsTold` is
about the race of the cold probe with the signals: the last signal on the bus, or else
the cache, is the level there is, and a probe that was outrun has a signal behind it.

In the same module `ScopeHolds`, for any iframes, requests, connections, admissions and
faults, from `ScopeInv`. Its heart is where Chromium's Fetch may be on: only on targets of
the installed root's connection, and nowhere without a scope (`ArmedForScope`), so
retiring that root ends every interceptor at once and lets go of what is stuck (`Held`). A
clear is safe because a disable that has reached the root without an error left nothing
armed elsewhere (`Disabling`); a resume, because an enable that reported no error has armed
every iframe still paused (`Enabling`, `ResumedAreArmed`) - which needs that an event of a
living connection is of an iframe it has seen (`Due`, `TargetsAreMet`), since attach,
resume and detach run on goroutines of their own.

`NetProofs`: `EachRelaySocketHasOneOfEach`, for any callers, read loops and tries. A
socket has an owner at every moment: the dialer that made it until it has started
the read loop, then that loop until it has torn the socket down (`OneOwner`). So
nobody else redials while a loop is on its way to, and a new ping channel is always
made after the last one was closed (`PingersInv`). The third part is arithmetic: a
dial of the device-ID relay, a wake not yet taken and a turn without a wait are each
covered by what stable sessions, edges and waits have paid in (`CreditInv`), which
needs that only main's retry dials that relay (`LineAssumption`, `main.go:1016`); the
mediator's guard is taken while a caller of its works (`Guarded`). And, for any peers,
controllers, slots and bounds, `BindingsEnd`: a step either leaves the bindings of a
controller alone, takes some away, or adds one for a live peer and an active grant
(`Fewer`, `Bind`); and whoever revokes remembers it until it has unbound (`AsksInv`).

`OfflineCacheProofs`, for any sources, playlists, commands, budget and queue:
`ClearedStaysClearedHolds` and `CacheAgreesHolds`, from one invariant (`IInv`) with a
part per concern. For the first, a clear that is owed must be safe from everything that
was under way when it came, so `Unrevived` says of a cleared source that it is neither
queued nor captured, and that every download and every probe of the worker that has
sampled its epoch holds an older one; `Epochs` says that a clear's number is above all
samples, which is why the next bump cannot meet one. For the second, a promise must be
followed through the hands that hold it: `Promises` says that an accepted source is
`Serving` (a job, or the worker at a stage that will report), that a source an observer
takes for live is serving or will be spoken of by a clear (`ToldSoon`), and that a
download which has not yet told of its job has the barrier somebody waits at
(`Barriers`). `Autos` is what makes a join safe: the speculative job is the only one and
`automaticKey` names it. A stopped service is exempt, as in the code: its drain settles
silently.

`FrameProofs`: `OneNameForAll` and `InvitationIsWatched`, for any number of runs
of every flow, invitations, names and other narrators. Nine flows move through the
same steps, so the invariant speaks only of where each one is (`Pc`). An invitation
whose watch is stopped is in somebody's hands (`OnIt`): whoever is about to void it,
the watch itself while it looks, or the reset before it retires the authority; and
only a frame without owner has one (`Owners`), so the watch that finds an owner may
give up. Disk, network and QR have one name but for two moments (`OneName`): a rename
that has saved and not told, which holds the lock, and a reset that has cleared the
name and not drawn its panel; that this reset is latched and nobody else saves then
is `Stages`. No rename is lost to the reset because it asks the latch again under the
lock. `InvitationIsWatched` supposes that retiring the authority does not fail: if it
does, the latch is released with the watch stopped (section 7), and TLC finds the
invitation that is left; `OneNameForAll` supposes nothing, and speaks of frames whose
name can be cleared, as its properties say. In the same module `UpdatesAreEarned`,
for any callers of the gate, retries and outcomes. A boot check that is past the
in-flight flag is alone (`Alone`), and a flight of its own has it waiting
(`Launched`), so a ladder it sprang is either running, or has landed with it, or has
made the check done (`OneLadder`), and none begins then; that it reads `done` again
under the flag is what closes the race of two edges. For the cadence, a latch younger
than the round is remembered with it, whoever's ladder set it (`Cadence`).


And, in the same module, what a user of the setup hotspot sees and what the frame
borrows for it: `ScreenTellsTheTruth` and `RadioIsBorrowed`, for any people, faults,
links, hotspot configurations and windows. Every handler is a long composition of
operators on the machine, and none of them keeps what the screen says at every step:
a transition lowers the hotspot before it repaints (`Blank`), so a machine in the
middle of a handler is `Fair` and only one that a handler has left is `Good`
(`Fit` and `Kept`); each operator has a lemma that says which of the two it takes and
gives back, and what of the place, the radio, the phone, the screen, the clock and the
debt it leaves alone (`Mild`, `Sheds`, `Carries`, `Stays`, `Reaches`). The screen may
show the address of the portal only for a phone of this raise, and what tells of a phone
waits in the channel while the hotspot may go and come back; so `Queued` follows every
message with the number of the raise it was queued under. Numbers
are taken from three and reused; a message of an earlier raise is marked as past when
the number moves on (`Aging`), as the code's ever growing counter does. That a raise for a lost network comes of a whole window without a link needs
`Patient`: time without a profile is never longer than time without a link, until a window of it
is full. `Debt` says that autoconnect that is off is still owed back, whichever of the calls
failed and whether or not it was applied: the deferred restore runs whatever the
suppression returned, a failed one latches, and a new process begins with the latch. `StaleLatch` is the one excuse, and
needs a panic of the loop (section 7); the run's scenes without panics check the strict
form.

Assumptions are the named `ASSUME`s of the modules and those in the statements,
no more.

Only model-checked, and why:

* all liveness (`BlindSpotClosed`, `NewsArrives`, `LadderSettles`, `TurnsEnd`,
  `PageIsServed`, `LineSettles`, `DeferredLetsPass`, `ReplayServes`, `SetupEnds`,
  `FrameSettles`): fairness and ENABLED are beyond the prover;
* `StatusInOrder` orders the elements of queues, and `NarrationAgrees` and
  `WakesAreTold` are about composed or recursive operators: facts of that kind need an
  induction the prover cannot instantiate;
* `EnvelopeSpentForGood` under a clock that steps back, and its half about refused
  envelopes: `AtMostOnce` is proved for `Spec`, whose clock does not step back.

## 6. Not modelled

Display grants and the LAN policy, boot recovery, the command router, the LAN hub,
the persisted settings, OOM recovery and the playlist schedule are state machines
still to be modelled. Documents and their signatures (`dp1`), the CDP protocol of
capture, drivers of monitors, NetworkManager and hostapd, metrics, logs and the
static page stay out: they are I/O or data without a history. The reasons are in
`PROJECT.json`, component by component, with what each modelled module leaves out.

## 7. Known divergences

Found while modelling. One is a run that TLC must find violated:

* `ram_unrestarted`: `W/README.md:137` promises a reboot when memory is above its limit
  again after a restart. `checkMemoryUsage` stamps the restart even if
  `restartKiosk` refused it because the error screen shows, and reboots 15 s later
  though nothing was restarted.

Met in the models, without a run of their own.

Control:
* `InitDir` renames the new directory into place, and then fails to sync the
  parent; the store is locked, as `store.go:198` promises. The next start finds the
  directory, serves it, and never syncs the parent: a power cut may still take
  the identity and its owner. `IdentityDurable` of `ControlAuthority` states it;
  it and `AcknowledgedOwnerSurvives` fail with `"unconfirmed" \in CreateOutcomes`.
* `docs/ff1-control-v1.md:138` says that a captured refused envelope never becomes
  live. It does if its record is evicted (`admit.go:1105`), 450 s after the
  revocation, and its signer registered again within the lifetime of an envelope
  signed since.
* `recordRetention` allows nothing for the time between the claim clock and the
  lock (`admit.go:594`): at the record cap a command whose claims were checked in time
  and that waited for the lock until its record was evicted runs again. With
  `OpenLag = 1` `ExecutedAtMostOnce` fails in `cap`; `RerunsAreLate` is what is left.
* An expired grant that was never revoked is in force again when the wall clock steps
  back; `NothingRevives` is about revocations.
* The first-owner enrolment takes no part in eviction: at the record cap its
  write is rejected, where `docs/ff1-control-v1.md:432` promises room.

Watchdog:
* A kiosk restart of the RAM or GPU handler does not put the ladder back to
  pre-connect, so the 20 s budget meets a cold start (`chromium.go:30` says that
  it must not); `GraceGiven` therefore times a cold start from the ladder's own restart.
* The hold's end counts and stores its reboot before the update gate is asked; a
  deferred or refused reboot is counted, and the device parks without one
  (`chromium.go:107`).
* An updater that takes its lock between the gate and `systemctl reboot` is
  rebooted (`chromium.go:101`).
* After a hold reboot an ordinary healthy check does not clear the count
  (`chromium.go:62` says the first one does); a confirmation by controld does.
* A connectivity or GPU signal whose send fails is logged and never repeated
  (`M/mediator.go:70-98`): the listeners keep the old verdict until the next change, a
  hang of which every line was lost is never answered, and a lost recovery leaves the
  reboot of a healthy GPU armed. So does a recovery that is sent or handled before the
  hang it ends (`event.go:66`). `OneVoice`, `RecoveredIsSpared` and `HangIsAnswered`
  except these cases and say that there are no others.
* A connectivity watcher whose context was canceled commits a failed dial as "down"
  before it ends (`connectivity.go:283`); its notification is dropped.
* A report that arrives just after a restarted kiosk first answers restarts it
  again, since the reporter's timer ran on across the restart (`cdphealth.go:32`).

Relay, cache and replay:
* `releaseAfterReply` (`relay_v2.go:278`) seals the snapshots and queues them in
  front of the notices sealed and held before, so a new peer gets a higher `seq`
  and then a lower one; `docs/ff1-control-v1.md:1085` has controllers keep the highest
  and ignore older ones (`EveryCopyIsHeard` of `RelayV2`).
* `automaticIntent` outlives the job it describes: the next explicit download of
  the source is hidden from Status (`InFlightReported` of `OfflineCache`,
  `service.go:3368`).
* A Fetch call that is refused is only logged (`replay.go:1435`, `1491`, `1512`): its
  request stays paused until the interception ends. `ReplayServes` excepts it.
* A detach of an iframe that overtakes its attach leaves a dead session among the
  targets, and a Disable reports a failure (`GoneIsForgotten` of `Replay`).

Setup:
* A panic restart of the loop sweeps the hotspot without `clearAPReleaseFailures`
  (`provisioning.go:1109`), so the error latch of a failing release outlives it. If the next raise
  paints its QR over the latch and the loop panics again, the QR stays on the screen with no
  hotspot behind it: `ScreenTruth` fails without `StaleLatch`.

* A recheck blink that cannot look (a failed scan, a failed listing, a spent budget)
  raises the hotspot again without lengthening the wait, so such a world churns
  without bound, as `session.go:929` says; `HomeComesBack` asks that what fails stops
  failing, `BlinksGoOn` that the frame keeps trying meanwhile.

Pairing:
* A session that the relayer commits behind a lost answer is unknown to the device
  (`mintpairing/service.go:2190`): a factory reset takes it only if it was committed
  before the sweep. One that a worker still holds when the reset's budget is spent may
  be left by the reboot.

Claim, narration and updates:
* The automatic claim reads the claim state before it paints, not while:
  a claim that settles in between is painted over (`executor.go:1151` says it must
  not). A connect admitted before a factory reset was staged lands after it. A
  `Retire` that fails releases the latch with the invitation's watch stopped
  (`executor.go:1167`). An automatic run in flight repaints over the reset's screen
  (`executor.go:1330`). A failed save in `SetConnectedDevice` leaves the memory
  claimed. The timer of a voided invitation may void the one painted after it. A
  topic edge that comes while the run gives up is not seen.
* Two refreshes of the claim URL may commit in the wrong order: `RefreshClaimQRURL`
  (`setupui.go:717`) asks whether the claim QR is current, not whether a newer URL is,
  as line 690 does for the name (`NewestIsShown` of `Narration`).
* A mint overlay whose show and hide both fail to paint leaves a setup overlay on
  the page that is no longer current (`Narration`).
* `Failure()` is read after the gate has returned; an attempt of somebody else in
  between is taken for this one's (`OtaGate`).

One behaviour that no text promises or excludes shaped `ParksInTheEnd`: an operator
who starts the kiosk during a hold takes the error screen down with it
(`ExecStartPre` of `chromium-kiosk.service`); if that kiosk never answers, the hold
goes on and parks, and nothing shows the screen again. The property therefore
asks for the screen only over a kiosk that the ladder stopped, and
`HoldKeepsScreen` names the operator in its hypothesis.

## 8. Plan

Models, next: display
grants and the LAN switch over `ControlAuthority`'s records, boot recovery over `PlayerSession`, the command
router's budget over the mediator, the playlist schedule, the playlist refresher,
OOM recovery.
