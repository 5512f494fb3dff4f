# A verification project for the HALs of the Xiaomi "violet" device tree

This directory holds TLA+ specifications of the parts of this repository that have
behaviour of their own: the GNSS HAL (`src/gps`) and the interaction boost of the power
HAL (`src/power-libperfmgr`). They are checked by TLC on small instances and, for the
properties listed below, proved by TLAPS for every value of the constants.

Most of the repository is a device configuration: build files, init scripts, SELinux
policies, overlays, audio and media tables. They have no behaviour to model. What runs is
about 65,000 lines of C++, C and Java, nearly all of it in `src/gps`, and most of that formats or fans out
reports. The logic is in a few state machines that several threads drive through message
queues. These are what the project is about.

## 1. Inventory

| Component | Source | State | Operations | What makes it hard | Status |
|---|---|---|---|---|---|
| GNSS tracking sessions | `gps/gnss/GnssAdapter.cpp` 2420-3330 | two session maps (time and distance based), power state, capabilities, N-Hz flags, pending messages | start, update, stop, remove client, restart after a reset, change of configuration | one engine session serves all time based sessions; each command and its answers are handled apart; restarts come in between | `GnssTracking` |
| Adapter base, LocApi base, LocationAPI | `gps/core/LocAdapterBase.cpp`, `LocApiBase.cpp`, `gps/location/LocationAPI.cpp` | clients, session id counter, adapters of the LocApi | create, destroy, engine up and down, LocApiResponse | hand-over between two queues; client removal | the part sessions need, in `GnssTracking` |
| AGPS data connections | `gps/gnss/Agps.cpp` and `GnssAdapter.cpp` 4752-5035, 5400-5500 | per connection type a state and a list of subscribers | ATL request and release, open, failed, closed | losses, grants and releases cross; one connection shared by many handles | `Agps` |
| Interaction boost | `power-libperfmgr/disp-power/InteractionHandler.cpp` | state, length and start of the boost, event descriptor | Acquire, Exit, and a thread of its own | callers race the end of the wait; the clock | `InteractionHandler`, `Boost` |
| Network initiated requests | `GnssAdapter.cpp` 3348-3450, 4177-4453 | two NI sessions with a timeout thread each | request, response, timeout | a timeout thread races the answer; an emergency goes before the rest | `NiRequests` |
| ODCPI | `GnssAdapter.cpp` 4536-4721 | request, its flag, timer | request, stop, timer expiry, restart of the modem | emergency replaces non-emergency; timer races stop | `Odcpi` |
| Control and configuration | `GnssAdapter.cpp` 880-1400, 3452-3554, 5496-5529, `ContextBase.cpp`, control client of `LocationAPIClientBase.cpp` | the location switch, the GPS lock and its scheme, the client's request queue | enable, disable, update of the configuration, control of network access, restart of the modem | three parties set one lock; part of the decision is made on the caller's thread | the switch and the lock, in `GpsLock` |
| Reports | `GnssAdapter.cpp`, `loc_nmea.cpp` | last report | fan-out, NMEA text | formatting | not modelled |
| Batching | `gps/batching/BatchingAdapter.cpp` | batching sessions, trips, the batch they share, event registration | start, update, stop, trip completion, restart | trips share one batch of the engine; answers cross | `Batching`, `BatchingClient` |
| Geofences | `gps/geofence/GeofenceAdapter.cpp` | fences by client and id, and by hardware id | add, remove, modify, pause, resume, breach, restart | two maps kept in step by answers of the modem; batches | `Geofences` |
| LocationAPIClientBase | `gps/location/LocationAPIClientBase.cpp` | a request queue per kind, id dictionary | wraps every client call | responses are matched by queue order | geofences in `Geofences`, batching sessions in `BatchingClient`, the control client in `GpsLock` |
| Xtra and OS observers | `gps/gnss/XtraSystemStatusObserver.cpp`, `gps/core/SystemStatusOsObserver.cpp`, `GnssAdapter.cpp` 6416-6567 | subscriptions by client and by item, last values; the source of corrections and what it depends on | subscribe, request, unsubscribe, notify; status requests of the daemon; enable and disable of the source | two indexes of one relation; the framework, the clients and a daemon come in any order, and the daemon may die | `OsObserver`, `Xtra` |
| Message queue and threads | `gps/utils/msg_q.c`, `MsgTask.cpp`, `LocThread.cpp` | queue, thread handle | send, receive, unblock, destroy | shutdown | used as a FIFO |
| Timers | `gps/utils/LocTimer.cpp`, `LocHeap.cpp` | a heap of timers, a file descriptor, two threads | start, stop, expire | stop races expire; the descriptor is armed and disarmed by different threads | `Timers`, `LocHeap` |
| HIDL services, battery listener, power HAL front end, fingerprint, lights, doze, stubs | see `PROJECT.json` | little | translation of calls | - | batching calls in `BatchingClient`, the rest not modelled |

How they interact. A framework call reaches a HIDL service, which calls `LocationAPI`. That
posts a message on the queue of an adapter (GNSS, batching or geofence); the thread of the
adapter (all three share one) handles messages one by one and owns the adapter's state. What
needs the engine is posted on the queue of the LocApi thread, which calls the vendor's engine
library and posts the answer back, as a lambda that runs on the adapter's thread. So a command
is a chain of handlers, and handlers of other chains run in between: this is where the hazards
of `PROJECT.json` come from. The interaction boost stands by itself: binder threads and one
worker thread share an object under a mutex.

What must hold, in short: every command is answered once; what runs on the engine is what the
sessions of the moment ask for; nothing stays behind when a client or the modem goes away; a
data connection is there exactly while somebody uses it; a boost lasts as long as the longest
request and no longer than its bound; no timer is forgotten or run twice; the user's answer to a
network request is given to that request alone; the fences and batches the modem runs are those
the adapter keeps for its clients; the modem's lock follows the location switch and those who may
restrict it; an observer ends up with the present value of what it watches.

## 2. Modules

### GnssTracking

One specification of three kinds of threads. Clients (`ClientStep`) post messages on `msgQ`;
the adapter thread (`AdapterStep`) takes them in order, edits `sessions` and posts requests on
`apiQ`; the LocApi thread (`LocApiStep`) serves them, which changes `engine` and `engineDist`,
and posts each answer back on `msgQ`. `ModemReset` takes the link down, and `OpenLink` brings
it up again and has the adapter restart everything (`EngineUp`).

A message is a record: `k` names the `LocMsg` subclass or the lambda, the other fields are what
it captured. A handler is one action, from the receipt of its message to its end, and so are
the branches of a long one (`StartWithoutCallbacks`, `StartDistanceBased`, `StartTimeBased` are
the three ways through `MsgStartTracking::proc` once capabilities are known). Only
the handlers that loop over sessions and may post several requests are split into one action
per turn (`sweep`), since the LocApi thread serves requests meanwhile. No client message is
handled in the middle of such a loop, because the adapter thread is busy; `Receive` says so.

The multiplexing arithmetic of `startTimeBasedTrackingMultiplex`, `updateTrackingMultiplex`,
`stopTrackingMultiplex` and `restartSessions` is in the `*Plans` operators: a plan is the
list of calls to the engine, the value of `mSPEAlreadyRunningAtHighestInterval` and who
answers the client. `MuxPowers` and `RestartPowers` return sets, because the
code iterates over an `unordered_map`: which of several sessions with the same interval gives
the power mode depends on the iteration order.

Session ids run from 1, `NoOptions` stands for "not in the map". The two maps are the fields
`time` and `dist` of `sessions`; `SetSessions` is what `saveTrackingSession` and
`eraseTrackingSession` have in common, the update of the power state. `owed`, `unheard` and
`stopAnswered` are history variables: commands not answered yet, how many of them have ended and will
never be (`Silence`), and ids whose stop has been answered.

Assumptions about what is not in the tree: an engine request that fails changes nothing, and
none succeeds while the link is down. `MayFail` lets the engine refuse at will as well.

Left out: hub notifications, NMEA, DGNSS, position mode, options of size 0 and the fallback of
the time between measurements (both only rewrite the options on entry).

### Agps

`AdapterStep` are the commands the adapter thread takes from its queue: `Create` builds the
machines, `Request*` are the branches of `requestATL`, `Release*` those of `releaseATL`, and
`Granted`, `Denied` and `Closed` what `reportAtl*` does with each machine. The modem
(`Ask`, `GiveBack`, `ModemReset`) and the framework (`Obey*`, `Connect`, `Lose`, `BadApn`, ...)
are the environment. A modem state per handle records what it was told, the framework carries
the orders of a machine out one after the other.

Left out: APN, bearer and type of a connection; inactive subscribers and the state RELEASING,
which `releaseATL` cannot reach since every subscriber is made with
`mWaitForCloseComplete` false (`TypeCorrect` is about the three other states); and
`handleModemSSR`, which nothing calls.

### InteractionHandler and Boost

`Acquire`, `Exit` and `Release` hold `mLock` throughout and are one step each (`Covered` is the
early return of `Acquire`, `Boost(final)` the rest). The thread is one step per stretch between
two blocking calls: it wakes (`Wake`), calls `WaitForIdle` with `mDurationMs` as it is then
(`CallWaitForIdle`), goes through its two polls (`Settled`, `NotIdle`, `TimedOut`, `Aborted`,
`CutShort`) and releases. `CutShort` is an idle display or a failing call, which the code treats
alike; a `pread` that fails leaves the buffer uninitialised, so it may take either way.

Time is discrete and there is no clock variable: `age` counts from `mLastTimespec` and
saturates, `left` is what a poll still has to wait. A poll may return later than its timeout,
never earlier.

`Boost` is the promise to the callers: a request for `d` extends the boost to `d` from now, or
changes nothing if that much is left; a boost ends when its time is up or the display has been
seen idle since. `BoostKept` says that the handler implements it, with `due` computed from
`mDurationMs` and `age`, and `excused` from the way the last wait ended. The lengths of requests
(`asked`, a history variable) and their number are visible in both, so that an Acquire that
wrongly does nothing is caught.

### Geofences

The client base (`LocationAPIClientBase`) and `GeofenceAdapter` in one module, because they share
the order of answers. A command names a batch of fences; the client base translates their ids
through `dict` (`mGeofenceBiDict`), appends a request object to `requests` and posts the command.
The adapter sends one turn per fence through the LocApi queue (`StartBatch`), looks each fence up
when its turn comes back (`AddTurn`, `FoundTurn`, `UnknownTurn`), asks the modem, and edits its
two maps as the modem answers (`AddDone` to `ModifyDone`). The last fence of a batch answers
the whole batch and frees its arrays, also while others are still with the modem: writes that
come later are lost (`Written`), and options read later are any (`Options`). `batches` records all commands with
their arrays; `told`, `heard` and `delivered` are history.

The modem gives a new fence a hardware id that is free, one it has used before or a new one (`ModemAdds`), and
sends breaches of the fences it has. A breach carries only hardware ids; `BreachReported` compares the owner of
what the map has under the id with each client (`Deliver`), and the client base looks the fence id up in its dictionary,
with its breach types (`Knows`). `delivered` records who was told, under which id, and
which fence the modem had meant when it sent the breach.

Fences are their breach types and whether they are paused. Left out: place, radius, dwell,
null arrays, `locAPIRemoveAllGeofences` (nothing calls it), event masks.

### Timers, LocHeap and Odcpi

`Timers` is the service behind every `LocTimer`: `StartTimer` and `StopTimer` run in the thread of
the user, under the lock of the timer; `MsgTask` keeps the heap and the file descriptor `fd`; the poll thread waits for it, disarms it
and posts the expiry (`Wakes`, `Disarms`, `PostsExpire`). An expiry is a step per lock it
takes: it pops a delegate and reads its client (`PopsSoonest`), stops that client
(`StopsClient`), and calls it back (`CallsBack`), so a stop or a restart by the user fits in
anywhere. Time is relative: each delegate and the `fd` count what is left.

The heap is a parameter of `Timers`: a set of heaps (`Heaps`) with what they hold (`Members`), when they are in
order (`InOrder`), and push, pop and remove. `HeapAssumption` says what the service needs of them: the top
has the least time left, each operation gains or loses its one delegate and keeps the order, and a heap stays
in order while the order of its times does (as they all run down). The runs give `Timers` the binary tree of
`LocHeap.cpp`, node by node (`LocHeap`), and TLC then evaluates the assumption on every tree.

`Odcpi` is a user of that service: the adapter's handlers (`RequestStart`, `RequestStop`,
`OdcpiTimerExpire`, `EngineUp`), with `restart()` in two steps, since the timer's lock is free
between its stop and its start. Other users start and stop timers of their own.

### NiRequests

Two sessions, each a record that the adapter's thread and a thread per request share under the
session's lock. The adapter looks at `rawRequest` without the lock and sets the response with
it (`UserResponse`, `SetsResponse`); the thread takes request and response out under the lock and
clears `reqID` after it (`ThreadTakes`, `ThreadEnds`). The data of a request is an object handed
from message to session to thread; `ended` counts how often it is given back or freed. `dropped` are the
requests that find no client with the NI callback: `requestNiNotify` returns `false`, nobody looks at it, and the
data is neither given back nor freed (`NotifyNoClient`; `GnssAdapter.cpp` 4381-4398, 4237-4241).

### Batching

Commands and lambdas as in `GnssTracking`. Sessions that are not trips have a batch of the engine each
(`plain`); trips share one (`trip`): the first starts it, the others ask how far it has come
and restart it if they need to be told earlier (`StartTrip`, `Joins`), a trip that goes has the rest
planned anew (`AskAgain`, `Replan`, `Replanned`). Distances are unsigned numbers modulo `Width`.
`batchFull` is the registration for the batch full event, taken and given up in seven places.
`astray` and `unserved` are history: the two kinds of behaviour the properties exclude (section 5).

### BatchingClient

The batching HAL on top of `Batching`: `GnssBatching` keeps one session through the client base.
The calls of the framework (`StartSession`, `StopSession`, `FlushBatchedLocations`, `DestroyClient`)
look at the dictionary (`session`), queue a request object and post the adapter's command. Where the
adapter answers, `Respond` takes the oldest object if the session is in the dictionary; `OnResponse`
is a step of its own, since it runs without the client's mutex, and decides whether the session
leaves the dictionary. The adapter's actions are those of `Batching`, with their answers added;
`StopAsked`, `GetSetAside`, `GetBatchedLocations` and `Got` are what only a client sees. `lost` is
history: sessions with a command that was not answered, or was when they had left the dictionary.

### GpsLock

The lock says whether the modem refuses requests of the device (MO) or of the network (NI).
`LocAPIEnable`, `LocAPIDisable` and `LocAPIGnssUpdateConfig` are the calls of the control client,
each under its mutex; `NfwControlCommand` reads `mSupportNfwControl` and posts in one step on its
caller's thread. The adapter's handlers decide the lock (`MsgEnableGnss` and so on) and post it
on the queue of the LocApi's thread (`SetGpsLockSync`), which drops it while the modem is down.
The modem keeps its lock in non-volatile memory; `OpenModem` brings it back and has the adapter
repeat the lock by `Promised` (`GnssAdapter.cpp` 897-914). `setConfig` and
`gnssUpdateConfigCommand` post their call of `setGpsLockSync` like the others do.

`nfwControlCommand` may be called while a `setGpsLock` is still on the adapter's queue. The first
`setGpsLock` then changes the scheme, and the message behind it, posted under the old one, sends the old
lock, MO and NI (`GnssAdapter.cpp` 5511-5519), although location is on and the new scheme locks nothing
then (the comment at 897-907, case a). `overtaken` is history: the lock last sent is such a one. It stays so
until the next disable, restart or control; `LockFollows` and the modem's half of `SwitchSettles` except it.

Not in the model: the queue of configuration requests (`LocationAPIClientBase.cpp` 156), which is
never given a session array and so never matches an answer.

### OsObserver and Xtra

`OsObserver` is the two maps with their operators (`Added`, `Trimmed`, ... of
`LocUnorderedSetMap.h`) and the messages on them; the framework reports an item when it is
subscribed to, requested, or changes. `Xtra` adds one client, the XTRA observer, on the same
queue, the daemon it informs, and the source of corrections: `CheckUpdate` and `Stop` are
`checkUpdateDgnssNtrip` and `stopDgnssNtrip`, called from the handlers of enable, disable,
sessions and positions. The daemon is a process that dies and starts; a datagram to one that is
not there is lost, and one that starts asks for the status (`RequestStatus`).

History: `updaters` are clients that called `updateSubscription`, whose set operations do not do
what their interface says (`LocUnorderedSetMap.h` 64 and 186; nothing in the tree calls it);
`requested` are items first asked for with `requestData`, which the framework is not asked to
keep reporting; `superseded` and `orphaned` are section 5's. Also read but not in the model:
`respondStatus` leaves out the throttle, and `GnssAdapter.cpp` 6454 compares a field with itself
(so parameters that differ in it only count as the same, which the model has).

The `MC*` modules give the constants their values for TLC. Operators
whose name ends in an underscore and a word (`Begin_eager`) are slips one could make in the code; each
property is broken by one of them, which shows that it depends on what the code does there.

## 3. Runs

| Run | Instance | Shows |
|---|---|---|
| `tracking_failures` | one client with or without tracking callbacks, which may change once; two sessions, time based with crossing interval and power or distance based, before and after the capabilities are known; 3 commands, engine may refuse, power state callback | `PowerMatchesSessions`, `AnswersMatchCommands`, `CommandsAnswered` |
| `tracking_reset` | two clients (symmetric), two sessions, 3 commands, one modem reset, tracking callbacks added later | `SessionsAreServed`, `EngineOffWhenIdle`, `StoppedStaysStopped`, `RemovedLeavesNothing` |
| `tracking_switching` | one client that waits for answers, two sessions, time and distance based options, one configuration change, one N-Hz change | `NoDistanceBeforeCapabilities`, `EngineServesDistance` (with each session in one map) |
| `tracking_power` | three sessions | violates `EnginePowerServesSessions` |
| `tracking_stop_race` | one session, distance based requests, a client that does not wait | violates `StoppedStaysStopped` |
| `agps` | two handles, two machines, 3 requests, one loss, refused close, bad APN, modem reset | `SubscribersMatchState`, `GrantsMatchState`, `AcquiredMeansConnected`, `RequestsAnswered`, `ReleasesAnswered` |
| `interaction` | slack 1, wait 1, bounds 2 and 4 (ms stand for ticks), requests below, between and above the bounds, 4 requests | `NoStaleAbort`, `HintMatchesState`, `BoostKept`, `BoostEnds`, `ExitReturns` |
| `geofences` | two clients (symmetric), two fences, batches of up to two, 3 commands, and one of: a restart with breaches; a refusal with a client that leaves; hardware ids handed out again with breaches and a client that leaves | `FencesMirrored`, `AnsweredOnce`, `BreachesReachOwner`, `AnswersHold`, `AnswersReachRequests` |
| `requests` | ODCPI with its timer, another user of timers, 3 modem events (or 2 and a start of the other timer); or 2 NI requests of three kinds, one client, with and without a locked NFW | `DelegatesAccounted`, `SoonestArmed`, `ActiveIsTimed`, `ActiveRenewed`, `EmergencyHeard`, `NiDataOwned`, `AnswerIsUsers`, `NiSettled` |
| `batching` | one client, two sessions, two plain modes and two trips with crossing distance and interval, 3 commands; or the HAL with 5 calls and three sessions in a row; one refusal, one restart | `BatchFullRegistered`, `SessionsBatched`, `RunningCanBeStopped` |
| `batching_answers` | the HAL with 3 calls and two sessions, nothing goes wrong | violates `ResponsesMatchCommands` |
| `control` | one control client with 4 calls and one modem restart; or the XTRA observer and another watcher with 3 calls on two items and two changes, one death of the daemon, 2 status requests; or two sources, one of which needs a position, with 6 commands and events | `LockFollows`, `SwitchSettles`, `SubscriptionsMirrored`, `ObserversInformed`, `SourceFollows` |

Type invariants are in no run: those of `GnssTracking`, `Agps`, `InteractionHandler`, `Batching`, `GpsLock`
and `NiRequests` are proved, and the others held in these instances when they were checked along.

The three violations (`tracking_power`, `tracking_stop_race`, `batching_answers`) are findings;
`PROJECT.json` quotes what the code's own documentation says.

Why the bounds are enough. Multiplexing decides by the minimum interval and a power mode, so two
sessions, each leading in one of the two, already meet every branch of it; the third session of
`tracking_power` is needed for a minimum that moves twice. Three commands cover start, start or
update, stop (four, where a session is switched and stopped), with every interleaving of their answers. `MaxQueue` only stops
clients from posting when the adapter lags, and the queues may grow beyond it by answers; at one
or two, commands of two clients and answers still mix. One reset, one loss or one refusal is
enough for each to meet any state of the rest, two in a row meet the state the first one leaves,
which the other runs start from. In `agps` two handles are what sharing needs and a third
would act as the second. In `interaction` time passes the longest boost, and four requests let
one be covered, one extend, and one come after the end.

In `geofences` a batch of two is the smallest with a fence that is not its last. `Scenarios` says what may
go wrong together in one behaviour; not every pair is there, only those that touch the same fence:
a breach and the restart that adds its fence again, a refused removal and the client that has left,
a breach and the fence that takes over its hardware id, of the other client too. Restarts with refusals
or with ids handed out again are not checked; the proofs do not depend on `Scenarios`. In `requests` the two halves share the adapter's thread and no state, so a behaviour
follows one of them (`concern`). Three delegates let a timer be stopped, started
again and still be in the heap; with delays of one and two ticks either timer may be the
earlier one; and the `ASSUME` of `MCRequests` checks the heap by itself for all orders of up to five
timers. Two NI requests fill both sessions or follow each other in one; three were checked once by hand (2.9 million states).
In `batching` three commands are start, start and stop or update, which together with a refusal and a
restart meets each pair of handlers in either order. Both trips are longer or more frequent than the
other in one respect, so that a join may restart the batch or not. The HAL needs five calls: start, stop
and flush in any order, and a start and a stop that meet what those left behind.

In `control` the lock, the watchers, the daemon and the corrections share no state that one of
them changes under another, so a behaviour follows one of them (`concern`). Four calls are enable, disable, a
configuration and control of network access in any order, with a restart anywhere. Two items, one subscribed
to and one requested, and two watchers give each map operation a key that stays and one that goes.
Six events of the corrections are enable, a session, a position, another source, disable, and the end of
a session.

Deadlock checking is off for the GNSS runs: when all commands are spent and the queues are
empty, these systems rest. In `interaction` the clock always ticks.

### Fairness

- `GnssTracking`: weak fairness of the adapter thread and of the LocApi thread. Both are
  loops over a blocking queue (`MsgTask::run`); a handler posts and returns. Clients,
  configuration changes and the modem's resets are not fair.
- `Agps`: weak fairness of the adapter thread, and of the framework for each machine: it
  carries out an order and reports the connection it tries to open. No one needs to ask, give back or
  lose anything.
- `InteractionHandler`: weak fairness of the thread and of time. The display need never be idle
  and `CutShort` is not fair.

- `requests`: weak fairness of the adapter's thread, of the two threads of the timer service with the
  callbacks they make, and of the clock; of the NI threads, whose waits are bounded by a
  timeout. The modem, the user, the client and the other users of timers are not fair.
- `Geofences`, `Batching`, `BatchingClient`, `GpsLock`, `OsObserver` and `Xtra` have safety properties only:
  `AnsweredOnce`, `FencesMirrored`, `SessionsBatched`, `LockFollows`, `SwitchSettles` and
  `ObserversInformed` say at rest what should have come about.

Liveness is checked only where commands are bounded, which cannot help it: an answer that is due
would have to come from the adapter or the engine, which have no bounds.

## 4. Proofs

All hold for any constants that meet the assumptions of their module, with one more where it is said.

- `GnssTracking_proof`: `TypeCorrect` (`TypeOK` is inductive; the lemmas
  follow the queues, plans and sweeps) and `PowerFollowsSessions`
  (`PowerMatchesSessions` is inductive given the types, since every change of `sessions` goes
  through `SetSessions`; `SessionsChange` is the case analysis that shows it).
  `DistanceWaits`: `NoDistanceBeforeCapabilities` is not inductive,
  a distance based session could also come from an answer on its way, or from a request whose
  answer would bring it, or from a restart half way through. `Quiet` says that before the
  capabilities are known none of these is there: queues hold only `SafeMessages` and `SafeCalls`,
  no session is distance based, also no time based one whose options ask for distance (an update
  would restore it), and no loop has sessions left (`Calm`).
  `NoUnaskedAnswers`: a command of session `id` is in one of three places until it is answered, as
  itself or as the answer it waits for (in `msgQ`, in `pending`, within a request of `apiQ`).
  `Balanced` says that what is in these places (`InFlight`) never exceeds what is `owed`, for a client that stays;
  it is kept because each plan either answers at once and asks nothing of the engine that answers, or
  asks exactly one such request (`Honest`, `HonestCost`). `Entitlement` says
  that what travels on behalf of a command names a client that was handed the session.
  `Count` and the lemmas on it (`CountAppend`, `CountConcat`, `CountTail`) are the
  cardinalities of the positions of a queue.
  `ServedSessions`, assuming an engine that refuses nothing while it is up (`~MayFail`)
  and knows distance based tracking (`DistanceSupported`). Both are needed: a refused
  restart is answered by nobody and leaves the engine off; without the support TLC finds a switch to distance that
  stops the engine (`GnssAdapter.cpp` 3097) and files the session as time based after all
  (`saveTrackingSession`, 2749). The property is about rest; `Runs` says of every moment that when the requests on their way
  are served (`RunsAt`) the engine runs at least as often as each session asked, and at the shortest
  interval when `mSPEAlreadyRunningAtHighestInterval` is set. `Keeps`, `Starting` and `Ending` are
  the three ways in which a plan preserves this. After a reset it need not hold, but then the open
  or the engine's message is on its way (`Restarting`), behind every refused update
  (`Redeemed`), and its handler starts the engine for all sessions.
  `IdleEngineIsOff`, `StopsAreFinal` and `NoOrphans`, assuming `~MayFail` and that no client asks for
  distance (`TimeOnly`), follow from `Steady`: until a reset nothing fails or is
  postponed (`Timely`); without sessions the last request that drives the engine stops it
  (`Resting`); a session whose stop was handled, answered or not, is over, and no start of it is behind the stop (`Ordered`); and
  sessions are saved only for clients the adapter knows (`Owned`). Distance based requests are left out
  because the code breaks the properties with them: an answer that comes after
  the stop saves the session again (`tracking_stop_race`).
- `Agps_proof`: `TypeCorrect`; `MachinesHaveSubscribers` (inductive given types);
  `GrantedAreSubscribed` (inductive together with it). `AcquiredIsConnected`: the property
  is about rest; `Believes` says of every moment that good news which no loss follows is true
  (`NewsIsTrue`), whether on its way or taken in, and that a machine that waits has its order, the attempt or the
  outcome on its way (`WaitsForNews`).
- `Requests_proof`, of the timer service and ODCPI: `OdcpiTypeCorrect`, `DelegatesAreAccounted`,
  `SoonestIsArmed` and `ActiveRequestsAreTimed`, for any heap as `HeapAssumption` has it. `TimersStep` is a step of the
  service, or of some client that starts or stops a timer; every step of ODCPI is one, and `TimersInv` is inductive
  for it. A timer and its delegate know each other (`DelegatesSound`); the queue has of a delegate at most a push
  and, after it, a removal, and only of one that is not deleted (`MsgsSound`); one that nobody runs has its
  removal queued (`NothingLost`); and what an expiry has popped is not deleted under it, although its client may have
  left it (`PoppedSound`). `Armed`, inductive given these, says that the fd is set for the soonest timer while no
  expiry is on its way; the push is the case that needs the order of the heap, since the fd is only moved when the
  new top outranks the old. `TimedInv` splits `ActiveIsTimed` at `restart()`: what is active has its timer, or
  is between the stop and the start, and a timer the adapter believes in runs, calls back, or has its expiry queued.
- `Requests_proof`, of NI: `NiTypeCorrect`; `NiDataIsOwned`, by `DataInv`: a message, a
  session, a thread's hands and the end exclude one another, and a request that was dropped is in none (`InOnePlace`), and the thread of a request is started
  when it leaves the queue and takes none but its own (`ThreadFollows`); and `AnswerIsOfUser`, by
  `AnswerInv`: prompts have different ids, an open session has the id of its request unless a
  late thread cleared it (`PromptsOwn`), and each message, set response and response in a thread's hands says what
  the user said of the request it is for.
- `InteractionHandler_proof`: `TypeCorrect`, `AbortsAreCleared`, `HintFollowsState` from one
  inductive invariant `IInv`. `Places` ties the thread's place to the state: a
  request that comes while the thread is busy is `INTERACTION`, and only then can an abort be pending.
  `Waits` says that while a wait counts, the poll's remaining time reaches the end of the
  boost; it is what makes `BoostIsKept`, the refinement of `Boost`, go through in `ReleaseEnds`.
  `AcquireAsks` is the arithmetic of the early return.
- `Batching_proof`: `TypeCorrect`, `FullRegistered`, `SessionsAreBatched` and `SessionsCanBeStopped`. `BatchFullRegistered` alone is not
  inductive: a stop that the engine refuses saves its session again, after the event may have been
  given up. `RefusedStops` says that such an answer is on its way only once the run counts as `unserved`, and
  each of the seven places that give the event up is then shown to look at what is saved. It needs no
  other fact about the queues than their types.
  `SessionsAreBatched` needs many. The property is about rest; `Tidy` says of every moment what will be so
  once the calls on their way are served and answered. What the engine will run then (`WillRun`, `WillBatch`) is
  saved in the mode it runs in, and no session is asked for twice without a stop in between (`Running`,
  `Fresh`); the other way round (`Serves`), what is saved will run, or its refused start is on its way
  and will erase it, and a batch is or will be there for the trips. This holds only while the engine that
  came up last has been heard of (`Up`), since its message starts everything again. Both rest on the order
  of messages: `Clash` names the pairs that are never the wrong way round in the queue, the calls and
  the commands set aside (`Ordered`, `Idle`), such as a command to a session behind which the answer to
  its start is still to come, or a second stop of the batch; `Fits` says what each message that is on
  its way finds in the tables when it is handled. `Aside` covers the time before the capabilities are known.
  `SessionsCanBeStopped` is about the HAL's specification (`BatchingClient`), which has no trips; its
  invariant is in `BatchingSessions`. `Kept` holds in any
  case: messages and requests are about sessions that were handed out, a client's dictionary names one of
  its own, and a sweep erases what belongs to the client that has gone. `Good` holds until an answer is lost and
  counts, per session, the commands, calls and answers under way (`Number`, and how the handlers move
  them: `CalledOpen`, `DoneOpen`, `PostedOpen`, `UpOpen`). A session has one start and one stop under way at
  most (`Once`), and before the capabilities are known its start is still ahead of everything else
  (`Prompt`). For a client that lives, either an answer is bound to be lost (`Lossy`: a session it
  has dropped still has something under way, or a stop is ahead of its start), or its requests are the
  commands of its session one for one (`Tracked`): as many as are under way, the first may be the start,
  the last may be the stop. The answer that erases the dictionary entry, a stop's success or a start's failure, then
  belongs to the last command of a session the adapter no longer has. `Tracked` alone is not inductive: of two
  stops in a row the first forgets the session while the second, which is lost later, is under way.

- `GpsLock_proof`: `LockTypeCorrect`, and `LockIsFollowed` and `SwitchIsObeyed`, without an assumption of
  their own. `LockFollows` speaks of rest; `LockInv`
  says of every moment what is on its way: the last lock among the modem's and those queued for it
  is the one promised, unless it is `overtaken`, or the modem is about to come up and be given
  the one promised (`LockOnItsWay`, `DownReopens`). `SwitchInv` follows the pairs of enable and disable on the
  queue: they alternate (`Ordered`), the last is the client's (`Recent`), and each disable finds
  the enable it ends served (`OnIsServed`, `OnEnds`, `OffHasOn`), so no command is refused;
  `RequestsWait` counts a request for each command of the last session that is still queued.
- `Xtra_proof`: `MapsMirrored` and `MapsMirroredWithXtra` (`SubscriptionsMirrored` is inductive by
  itself, for `OsObserver` alone and within `Xtra`) and `SourceIsFollowed`: what is saved for
  restarts is the source that was started (`SavedIsStarted`), one runs when it is wanted
  (`StartedIsWanted`, `WantedIsStarted`), and an informed daemon runs what is saved (`RunsSaved`).
  `WatchersAreInformed` and `ObserversAreInformed`: the properties are about rest; `InformedInv` says
  of every moment what the messages on their way will leave behind (`Leaves`). An item with clients
  is one the framework reports, unless it was only requested (`ItemsAsked`); the last notice of such an item, or
  the cache if there is none, has its present value unless the framework has yet to report it (`CacheFollows`);
  and the last message to a client, or what it has taken in, has what is in the cache (`ClientsFollow`). The
  maps must mirror each other for this, or a change would miss a client. A daemon that
  had the status knows what the observer has taken in (`DaemonFollows`). `SetToSeqRange` says that the
  messages of one notice are all posted, which is why there are finitely many clients.

- `Geofences_proof`: `TypeCorrect`, by `Typed`: what is on a queue names a batch and an item that exist
  (`Proper`, `ProperCall`), which is what `TypeOK` needs to survive the handlers that look them up; the sweeps and the
  restart walk through a map in order (`AscendingFacts`). `BreachesReachOwners`, for every modem, however
  often it hands out the same hardware id. A breach carries a hardware id and is looked up when it is handled.
  `BreachesFollow` says that what the map has under that id by then is the fence meant or nothing: the answer
  that adds a fence comes before any breach of it, and the answer that adds the next fence under its id behind
  it, because the queue keeps the order in which the modem sent them (`Meant`, `Led`). So a breach may come
  too late, for a fence that is gone, but never under another's name.
  `CommandsAnsweredOnce`, `AnswersFindRequests` and `MapsMirrorModem` are about the time until an id is
  handed out again (`NoReuse`, a condition of the properties), because a removal queued for the old fence can then
  reach the new one (section 5). For the first, an item of a batch is pending while anything on a
  queue stands for it (`Pending`), and items never overtake each other (`Ordered`): the two queues are
  first in, first out, and an item moves from one to the other in the order of the batches and, within
  one, of the items. So the end of the last item is the end of the batch, and a batch is unanswered
  exactly as long as its last item is pending (`Answered`). The exception is a resume the modem refuses,
  which the adapter forgets; it takes a refusal or a restart (`CalmRun`: without these, what the adapter
  resumes is in the modem. This follows a fence from its add to its removal, and needs that no command on
  a fence comes before its add or after its removal, `Sensible`, and that the adapter finds under a
  hardware id the fence it looked for, `Handed`).
  `AnswersFindRequests` adds to this that the requests of a client are for commands of its own, in
  the order of the commands (`InLine`), and that the unanswered ones are what it waits for (`Waiting`). An
  answer of the modem for the last item then belongs to the oldest unanswered batch (`OldestAnswers`).
  `MapsMirrorModem`: the property is about rest, the
  invariant about what the messages on their way will do to the maps. For each hardware id, a fence the
  modem has lost is one the adapter will be told to forget, or that goes with the restart that is announced
  (`Gone`); a fence the modem has is in the map or will be, and nothing that comes will erase it (`Held`);
  and the last message on its mask, or on whether it is paused, says what the modem has (`Settled`). The
  erasing goes by the two maps at once, so a fence must be findable by its id as long as its client is
  there (`FencesFound`), for which a fence id must be in one place only, although a restart adds the fences of
  the map again while others are still being added (`OnePlace`). A modify that reads freed options was cut
  short (`FreedShort`), and pauses that are given again are silent, but only after a restart (`OneRestart`).

Only model-checked: the liveness properties and what is stated under fairness (TLAPS has no proof of
them here), `EngineServesDistance` and `AnswersHold`. So is `LocHeap`: its operators
recurse like the code, and what they compute for every tree is an induction over data. That it meets `HeapAssumption`
is therefore checked for every tree of up to three delegates, and `HeapKeepsOrder` for every order of up to five.

## 5. Where the properties are restricted

- `SessionsAreServed` is checked with an engine that refuses only while the link is down: a
  second session that joins a running one is answered at once, and a later refusal of the first
  start leaves nothing running (`GnssAdapter.cpp` 2912).
- `EngineOffWhenIdle`, `StoppedStaysStopped`, `RemovedLeavesNothing` and `EngineServesDistance`
  are about the time before the first reset, since a reset refuses what it finds in the queue. A refused update saves the
  old options again, even when the session was stopped or its client removed meanwhile
  (`GnssAdapter.cpp` 3036), and a restart also starts distance sessions whose stop is queued (2589).
- `StoppedStaysStopped` fails for distance based sessions when the client does not wait, see
  `tracking_stop_race`.
- `CommandsAnswered` leaves out the commands that the code ends without an answer (`unheard`). A start without
  tracking callbacks computes an error that is never reported (`GnssAdapter.cpp` 2878-2881), although
  `LocationAPI.h` 71-72 promises it to the response callback; and a distance based update whose stop the engine
  refuses just ends (3146). Options of size 0 end the same way (2880) and are not in the model.
- `NiDataOwned` and `NiSettled` leave out requests that are no emergency and find no client with the NI callback
  (`dropped`): their data leaks, and the modem is never told (`GnssAdapter.cpp` 4381-4398, 4237-4241).
- `AnswersReachRequests` holds as long as every fence is known when its turn comes and no resume is
  refused: answers to unknown fences overtake those the modem still owes. `ResponsesMatchCommands`
  fails, see `batching_answers`; `RunningCanBeStopped` asks for less, that the dictionary ends up right,
  and ends when an answer was lost (`lost`): a stop of an unknown session is not answered
  (`BatchingAdapter.cpp` 481), so a second stop leaves a request object that takes the next start's
  success, and the session runs and cannot be stopped. `AnswersHold` is for commands on single
  fences when the modem refuses or restarts (not both), since a batch cut short is answered before
  its end; `FencesMirrored` compares pauses up to the first restart, since the adapter saves a
  fence it pauses again as one that runs; `AnsweredOnce` leaves out resumes the modem refused,
  which are never answered. All geofence properties but
  `BreachesReachOwner` end when the modem hands a hardware id out again (`NoReuse`): a client that leaves while a
  removal of its own is under way has the fence removed twice (`GeofenceAdapter.cpp` 60), and the second removal takes
  whatever fence has got the hardware id meanwhile, also another client's. The adapter and the modem then differ,
  and a resume of that fence is refused and forgotten (which takes four commands, one more than the run has).
- `requests` has threads that are not late (`MaxLate` is 0: the clock waits for the service, but
  steps within a tick come in any order), one container of timers, and ODCPI callbacks of one
  priority. `AnswerIsUsers` ends when a response was set in a session that had just ended
  (`late`): the flag it leaves answers the session's next request.
- The properties of `Batching` end when the engine refuses something the adapter does not make up
  for (`unserved`: a refused stop restores the session with other options, a refused restart of
  the batch is forgotten) or a trip goes `astray`: it is stopped twice, or joins a batch that is gone or
  whose start or stop is not answered yet. In the last case the answer counts on `mTripWithOngoingTBFDropped` and
  its twin to tell that the batch must be started again (`BatchingAdapter.cpp` 892), and the trip that
  joined may have changed what they are compared with: it is saved, and nothing is batched. No property compares the distances with the way travelled (`restartSessions` resets what
  trips have accumulated in copies of their records, `BatchingAdapter.cpp` 233).
- After a modem restart the machines of `Agps` keep the subscribers of the modem's former life, and
  the connection, since nothing calls `handleModemSSR` (`Agps.cpp` 664); a handle that asks again is
  served by them. The properties hold all the same and say nothing of such leftovers.
- `LockFollows` and the modem's half of `SwitchSettles` except a control of network access that a
  `setGpsLock` overtook (`overtaken`, section 2).
- `SourceFollows` ends for a source that was replaced by one that waits for a position
  (`superseded`: it runs on, and a disable sends no stop, `GnssAdapter.cpp` 6469), and for one stopped
  with a session while others go on (`orphaned`, 2782: it starts again with the next session or position).
- `SubscriptionsMirrored` and `ObserversInformed` leave out clients of `updateSubscription`, and
  `ObserversInformed` items that were first requested.

## 6. Plan

1. Done: all modules above, their runs and theorems.
2. The rest of `LocationAPIClientBase`: tracking requests on top of `GnssTracking`, and updates and
   trips of its sessions.
3. Abstract specifications: a session service that `GnssTracking` implements for patient clients, and a
   shared connection (open while it has users) that `Agps` implements.
4. Theorems: `EngineServesDistance` for patient clients, and `AnswersHold`.
5. The control client's collective responses.

## 7. Not modelled

Reports, NMEA and configuration parsing (pure data); HIDL translation but for the batching calls; LocIpc, LogBuffer and the
containers; lights, fingerprint, doze and the stubs (thin wrappers); device configuration; of the configuration
all values but the lock (they are copied to the modem); the backhaul and technology switches of the
OS observer (their other side is outside the tree); the shutdown of queues and threads (they live
as long as the process).

Of about 64,000 lines of code, most are headers that declare the vendor's
data (`gps_extended_c.h`, `loc_gps.h`, `LocationDataTypes.h` and the like), conversions between
such types (`src/gps/android`, `LocApiBase.h`), text (`loc_nmea.cpp`, `loc_cfg.cpp`) and code of
other packages. They keep no state and take no decisions, and a model of them could only repeat them. The
code that does decide, in adapters, timers and the boost handler, is a tenth of it, and the
larger part of that is modelled.

Data races of the C++ code are modelled only where an action says so: `BadApn` runs on the
framework's thread as one step, `CallWaitForIdle` reads `mDurationMs` without the lock, `PopsSoonest`
reads the client of a timer without it, and the NI handlers look at a session before they lock it. A
restart of the boost handler after `Exit` is left out: only the destructor calls `Exit`.
