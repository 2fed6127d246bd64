# BluFizz in TLA+

Formal models of BluFizz: a command-line program that listens to BlueZ for the
Bluetooth devices around, fetches the profile of each one and records it in an SQLite
file. The models are checked with TLC; the theorems are proved with TLAPS for every
value of the constants. Paths below are relative to the repository (`src/X.cpp`).

## 1. Inventory

### Threads

| Thread | What it runs |
|---|---|
| main | sets the parts up, waits in `run()` for SIGINT, removes connected devices, destroys its locals in reverse order |
| D-Bus event loop | started by `enterEventLoopAsync`; calls `ObjectManager::onInterfacesAdded`, which ends in `TaskManager::push` |
| worker | `TaskManager::worker_`, a `std::jthread`: takes one task at a time and handles it |
| signal handler | `signalHandler`, on whichever thread the kernel chooses |

### Components

**Task manager** (`TaskManager.{h,cpp}`). State: `mutex_`, `cv_`, `tasks_`, the stop token of
`worker_`. Operations: the constructor, `push`, `run`, `handle`, the destructor. Called by the event
loop (`push`) and main (constructor, destructor); calls the registry, the device client and the database. Hard:
a push between the worker's test and its wait, a stop request from any point, an exception
that nothing catches; the thread starts before the members it uses are bound. Correct when: no task is lost, duplicated or reordered; the worker never
sleeps through work or a stop; the destructor returns; after a stop at most one more task starts.

**Registry** (`DevicesManager.{h,cpp}`). State: `devices_`, the device objects of the session by
address. Operations: `insert` (worker, under `mutex_`), `devices` (main, under no lock).
Correct when: it holds the object registered last for each address. Hard: the iteration of main
while the worker inserts; an object that replaces another.

**Database** (`Database.{h,cpp}`). State: the tables `radio_devices`, `bluetooth_details`,
`radio_observations` in a file that outlives the process; the `id_` of the device in hand.
Operations: the constructor (schema), `updateDevice` and the statements it is made of. Hard:
there is no transaction, so an error or a crash separates the statements of one call; `id_` is
an uninitialised member. Correct when: the tables refer to each other's rows, and what they say
of the past is never rewritten.

**Main, signal handler, tear-down** (`main.cpp`, `BluFizz.{h,cpp}`). State: `exit`, `exitMutex`,
`cv`, which locals still exist. Hard: SIGINT between main's test and its wait, or on main itself
while it holds `exitMutex`; parts destroyed while the event loop and the worker go on. Correct
when: Ctrl-C ends the program, connected devices are removed, nobody uses a destroyed part.

**BlueZ object manager listener** (`Bluez_ObjectManager.{h,cpp}`). State: a subscription on a
proxy that it does not own. Operation: `onInterfacesAdded`. Hard: it may be called at any time,
also after its object is gone; the test of the optional RSSI is inverted, so an announcement
without one reads `properties.end()`.

**Adapter manager and controller** (`Bluez_Adapter*.{h,cpp}`). State: the controllers by path.
Operations: `get`, `enable`, `disable`, `startScan`, `stopScan`, `removeDevice`, as D-Bus calls
that throw, return -1 or are logged. Correct when: a failure reaches whoever must know.

**Device client and connector** (`Bluez_DeviceClient.{h,cpp}`, `Bluez_DeviceConnector.{h,cpp}`).
State: `mutex_`. Operations: `fetchProfile` (some twenty property reads, then, for a connected
device, a wait for its services and `GetManagedObjects`), `connect` and `disconnect` (never
called). Hard: the device may vanish between two reads, and any read may fail without that; the wait has a deadline and its
result is ignored. Correct when: a device that is there and answers is stored under its own identity, with all its services.

**Device object** (`Device.{h,cpp}`). Attributes of one announcement; the stable identifier
"address/type"; `id_`.

**GPS client** (`GpsdClient.{h,cpp}`). State: `available_`, the gpsd stream. Operations: `init`,
`read` (up to ten rounds, each waiting up to two seconds), called by the worker in the midst of
`updateDevice`. Hard: gpsd may be absent, silent, or send reports of which a part is missing; a stop
request waits for the rounds. Correct when: a fix is reported whole, from one report, or not at all,
and the rounds end.

**Tools, D-Bus names, GATT records** (`Tools.{h,cpp}`, `Bluez_Dbus.h`, `Bluez_Gatt.h`).
Formatting, constants, plain records.

### Interaction

    BlueZ --InterfacesAdded--> event loop --push--> tasks_ --> worker --insert--> registry
                                                                 |--fetchProfile--> BlueZ
                                                                 '--updateDevice--> SQLite, gpsd
    SIGINT --> signalHandler --exit, cv--> main --reads--> registry, --removeDevice--> BlueZ
                                             '--destroys--> every part, joining the worker

## 2. Modules

| Module | What it is |
|---|---|
| `DeviceFeed` | abstract specification: what the task manager promises, without threads |
| `TaskManager` | pushers, worker, destructor, `mutex_`, `cv_`, stop token; the registry's `insert` |
| `TaskManager_proofs` | theorems about `TaskManager` |
| `Database` | the constructor and `updateDevice` statement by statement, errors, crashes, restarts |
| `Database_proofs` | theorems about `Database` |
| `DeviceClient` | `fetchProfile` read by read, against a BlueZ that changes |
| `DeviceClient_proofs` | theorems about `DeviceClient` |
| `GpsdClient` | `init` and `read`, report by report, against a gpsd that sends anything or nothing |
| `GpsdClient_proofs` | a theorem about `GpsdClient`, with the step lemma `Pipeline_proofs` uses |
| `Logbook` | abstract specification: what the program promises of its file, over any number of runs |
| `Pipeline` | `TaskManager`, `Database` and `GpsdClient` composed, over runs that stop, crash and restart |
| `Pipeline_proofs` | theorems about `Pipeline`, among them the refinement of `Logbook` |
| `Session` | main, signal handler, clean-up and tear-down, composed with `TaskManager` |
| `Session_proofs` | theorems about `Session` |
| `MCTaskManager`, `MCDatabase`, `MCDeviceClient`, `MCPipeline`, `MCSession` | constants of the instances |

Names ending a comment "Defect" are plausible bugs: no specification uses them; each one, put in
the place of the definition after it, breaks one of the properties.

### TaskManager

One action per region between two synchronisation points.

| Action | Code |
|---|---|
| `Construct` | the constructor returns; the worker's thread has been running since its `worker_` was initialised |
| `PushLock`, `PushAppend`, `PushNotify` | `push`: take `mutex_`; append and release; `notify_one` |
| `RunLoop`, `RunLock`, `RunTake`, `RunEmpty`, `RunSleep` | `run`: test of the stop token; `mutex_`; the predicate true, false; the wait itself |
| `SpuriousWake` | a wake-up of `cv_` nobody asked for |
| `HandleLock`, `HandleInsert`, `HandleFetch`, `HandleUpdate` | `handle`: `mutex_`; `devicesManager_.insert`; `fetchProfile`; `updateDevice` |
| `HandleThrow` | either of the last two throws: `std::terminate` |
| `RequestStop`, `StopCallback`, `Join` | `~jthread`: `request_stop`, its callback `notify_all`, `join` |

`cv_.wait(lock, stopToken, pred)` evaluates the predicate under `mutex_`, and then, atomically with
respect to every notification (`condition_variable_any` has a mutex of its own), either returns
because a stop was requested or releases `mutex_` and blocks. `RunEmpty` and `RunSleep` are these
two steps. `pushed` and `stored` are history variables; nothing reads them but properties, and
`PushLock`, which uses `pushed` to say that an object is pushed once (`make_shared` makes a new one
for each announcement). The number of device objects therefore bounds a behaviour.

`owner` is the owning thread, main: "constructing" until `Construct`. The worker's own steps do not
look at it: `worker_` is declared before the reference members, so its thread may be anywhere in
`run` while they are unbound. What keeps it from using them is that a task can only come from
somebody who has the finished object (`PushLock`).

### DeviceFeed

The comment of `TaskManager.h` ("FIFO device task manager") made precise: devices are recorded one at
a time in the order they were accepted, and a stop allows at most one more to start. The refinement
mapping is `FeedPhase`: between the stop request and the end of the wait the worker is in, the feed is
in phase "last" (the wait returns the predicate's value, so a queued task is taken even though a stop
was requested), elsewhere "closed".

### Database

An action is one statement with the test of its result. `Die` is an SQLite error or the end of the
process before any step; both end the program, because nothing catches the exception the code makes of
an error. `Restart` is the next run on the same file; it goes through the constructor again.

| Action | Code |
|---|---|
| `Create`, `Opened` | one `exec` of `initializeSchema`; the constructor returns |
| `UpdateDevice`, `FindRadioDeviceId` | the call; the `SELECT` (refused while a table is missing) |
| `UpdateLastSeen`, `InsertReference` | the two ends of `updateDeviceReference` |
| `UpdateDeviceDetails` | the upsert |
| `ReadGps`, `InsertObservation` | the local `gpsFix` and `gpsReading`; the `INSERT` that binds them |

`schema` counts the statements of `Schema` the file has seen (they are executed in order, so a count
is enough), `made` those this run's constructor has executed. Abstractions:

* A row's id is its index: the key is `AUTOINCREMENT` and nothing is deleted. A statement takes effect
  as a whole or not at all, which is SQLite's own guarantee.
* A time stamp (`Stamp`) is the number of the call that wrote it and that of the reading within the call: `currentUtcTime()` is read for
  the reference row (1), for the details (2) and, after the wait for gpsd, for the observation (3). `NotAfter` is the order in which a
  clock that is never set back numbers them. So an observation is later than the last_seen of its own call, as it is in the file.
  The code's stamps are in milliseconds; two that coincide are still told apart here, and no property calls two stamps different.
  A clock that is set back is outside the model.
* `id_` before `setId` is any value of `Junk`, a different one for every device object. Junk may be the
  id of another row; foreign keys are not enforced (`PRAGMA foreign_keys` is never set), so no statement
  is refused for it.
* `bluetooth_details` has two columns: `updated` for those that `DO UPDATE SET` lists, `icon` for the three
  it leaves out. The payload is not modelled.
* One process works on the file. Two of them are not modelled.

### DeviceClient

| Action | Code |
|---|---|
| `FetchProfile`, `ReadProperty`, `ReadConnected` | the call; `getPropertyUnsafe` and the setter of one property; `Connected` and the `if` |
| `ReadFails`, `ConnectedFails`, `PollFails` | BlueZ has the answer and the call fails all the same: `nullopt`, or the `catch (...)` of the wait |
| `Poll`, `PollEnd` | a round of `waitForServicesResolved` that sleeps; its return, which `fetchProfile` ignores |
| `GetManagedObjects`, `ObjectsThrow` | the call returns a snapshot; it throws, and the exception ends the process |
| `CollectService`, `ServicesEnd`, `CollectCharacteristic`, `CharacteristicsEnd` | the two loops, an object at a time |
| `Return` | the local profile is destroyed |
| `Vanish`, `Appear`, `Publish`, `Connect`, `Disconnect`, `Resolve` | BlueZ (external) |

A call that BlueZ cannot answer, since it lacks the object or the property, is an ordinary read or end of the wait. A call that fails
although it can (its timeout, for instance; `CallFails`) does the same to the device, and counts as a disturbance of the fetch in
hand, as do a removal and a disconnection: `disturbed` is the history that the properties are conditioned on.

The nineteen reads have three forms: `value_or("N/A")` (mandatory or optional in BlueZ), a test of `has_value` that keeps what
the object had, and `Connected`. `Reads` has at least one of each. The maps are iterated in an arbitrary order, which includes
the order by path. Services and characteristics without the properties the loops ask for are those not in the snapshot. A
snapshot has everything of a device whose services are resolved: that is what BlueZ's `ServicesResolved` says. `mutex_` is left
out: `connect` and `disconnect` have no caller, so the worker is alone. The path of a device is never empty (it comes from the
signal), so the early return for an empty one is not taken.

### Session

`main` goes through "setup", "enable", "scan", the wait ("lock", "test", "block", "waiting"), "cleanup" and
"teardown"; `down` counts the locals already destroyed and `Teardown` is their order. The model starts inside
the constructor of the task manager; `Setup` ends it and constructs the rest. What precedes it is in `Pipeline` as
far as it has state (the file, the GPS).
`TaskManager` is instantiated with the event loop as its only pusher, and its destructor is part of the
tear-down.

* `signalHandler` runs on a thread of `SignalTarget`, which stands still until it returns. Its hold of
  `exitMutex` is one step. One handler runs at a time.
* The loop over `devices()` takes no lock. The addresses still to be visited are `toVisit`. An object that replaces another of its
  address leaves the map's nodes where they are. A new address may make the map rehash under the loop, which relinks every node: what the
  loop still comes across is then any set of the registered addresses, some of them again, some of them never (`Insert`). `grown` is the
  history of that. Either insertion may also end the process, since the loop and the worker race.
* `Announce` is the whole of `onInterfacesAdded` where it changes state. A path with "service" in it returns at
  once. The RSSI given to the device is always 0, because the test is inverted; no property is about it.
* `startScan` and `stopScan` log a failure and return -1, which nobody reads: both outcomes are one step.
* `AnnounceWithoutRssi` is the dereference of `properties.end()`: it may end the process at any moment, or go well,
  which is then an `Announce`.
* sdbus-c++ is external: it swallows or reports an exception thrown by a signal handler (a `Device1` interface or an
  `Address` missing in the signal makes `at` throw and nothing else happen), and the destruction of the proxy waits for
  a callback under way.
* `DispatchOvertaken` is a `push` whose task manager was destroyed meanwhile. It runs on destroyed members: it ends the process, or it
  returns, having written to what nobody reads any more. The behaviour is undefined, so no property builds on it: `NoStaleCallback` is what it violates.
* BlueZ may find a device connected or not (`Fetch`); nothing in the program connects one.

### GpsdClient

| Action | Code |
|---|---|
| `GpsInit` | the constructor and `init`: with a stream or without |
| `Read` | `read` is called |
| `GiveUp` | `waiting(READ_TIMEOUT)` is false, or the stream's `read` returns null |
| `Receive` | a round that has a report: `Another` is the loop's condition, `IsUsable` the tests after it, `Filled` the assignments to the fix |
| `Return` | the caller has the result |

A report is which flags of `set` are up, the mode, and which coordinates are finite numbers; a coordinate of the fix is
"unset" (never written), "measured" (from a report) or "zero" (the altitude of a fix that has none). Reports that
accumulated while nobody read are not told apart from fresh ones.

### Logbook

The promise of the whole data path: a log that only grows; the devices announced in a run are added one at a time and
in order; a stop finishes the device in hand and may begin one more; a crash loses the device in hand and the queue,
and nothing of the log; the next run starts on the same log.

### Pipeline

The three components joined where the code joins them:

| Action | Code |
|---|---|
| `OpenDatabase`, `StartWorker` | `Database`'s constructor; then that of the task manager |
| `Announce`, `Dispatch`, `Work`, `SpuriousWake`, `Destroy` | the task manager's own actions, while the process is up |
| `FetchAndUpdate` | `fetchProfile` ends, with the device's address and type, one of them or none, and `handle` calls `updateDevice` |
| `Statement` | a statement of `updateDevice` |
| `StartRead`, `AwaitReport`, `EndRead`, `SkipRead` | `gps_.available()` and `gps_.read(gpsFix)` in `updateDeviceObservations` |
| `UpdateEnd` | `updateDevice` returns to `handle` |
| `Crash`, `Restart` | the process ends; main starts again: `FreshMemory`, on the tables of the file |

`Crash` has the exceptions of the worker too: `std::terminate` and a power failure differ in nothing that outlives the process. `caller`
and `late` are history. An identity (`Identity`) is an address, `Unknown` when
it was not read, and whether the type was: the two are separate D-Bus reads.

Refinement. `ImplementsLogbook`: the log is
the device object of the call that wrote each observation (`Logged`), the device in hand is the worker's until its
observation is in the file (`Unlogged`), the phases are `TaskManager`'s `FeedPhase` between the constructor and the end.

## 3. Runs

| Run | Module, cfg | Shows |
|---|---|---|
| `taskmanager` | `MCTaskManager` | 6 invariants, the refinement of `DeviceFeed`, 2 liveness properties |
| `database` | `MCDatabase` | 6 invariants and `HistoryKept`, through errors, crashes and restarts |
| `session` | `MCSession` | 6 invariants and `InterruptExits`, when SIGINT does not interrupt main |
| `deviceclient` | `MCDeviceClient` | 3 invariants and `FetchEnds`, while BlueZ changes and calls fail |
| `pipeline` | `MCPipeline` | 5 invariants, the refinement of `Logbook`, `AnnouncedIsObserved` |
| `deviceclient_identifier` | `MCDeviceClientIdentifier` | violated: two devices that could not be read share an identifier |
| `database_reseen` | `MCDatabaseReseen` | violated: a known device's observation is filed under a junk id |
| `database_details` | `MCDatabaseDetails` | violated: icon, class, appearance stay those of the first call |
| `database_coordinates` | `MCDatabaseCoordinates` | violated: coordinates are stored without a fix |
| `session_connected` | `MCSessionConnected` | violated: a connected device survives the clean-up |
| `session_stale` | `MCSessionStale` | violated: the event loop calls a destroyed `ObjectManager` |
| `session_interrupt` | `MCSessionInterrupt` | violated: SIGINT on main, inside `run()`, deadlocks |

### Properties

* `NoLostWakeup`: a worker blocked with a task queued has a notification still to come, and so has one blocked after a
  stop request. `PushedIsStored` and `DestructorReturns` are what follows from it in time.
* `FifoConservation`: what was pushed is what was stored, then the task in hand, then the queue. It relates the queue,
  the worker and history in every interleaving.
* `LockDiscipline`: who holds `mutex_` and who is in a region it protects are the same.
* `ReferencesAreBound`: the worker is in a region that uses a reference member only once the constructor has bound it.
* `RegistryIsNewest`: for every address, the object registered last.
* `NeverRefused`: no missing table, no `UNIQUE` violation and no "No radio_devices row updated": the schema is completed after a
  crash in its midst, and the lookup stays true until it is used.
* `LastSeenCovers`, `DetailsCover`: an observation never precedes, in the file, the reference row and the details that go
  with it: there is a row of its device whose first_seen is not after it and whose last_seen is of its call or a later one. This is
  what the order of the statements in `updateDevice` gives in the absence of a transaction. That the observation lies before
  last_seen is not claimed, and is false of the newest one.
* `FirstObservationIsLinked`: the call that inserts a device files its observation under the new row.
* `RowsAreOwn`: one row for an identifier, and both its time stamps are of calls made for that identifier.
* `HistoryKept`: an action property: identity and first_seen never change, last_seen only advances, observations are
  only added.
* `ResidentIsIdentified`: a device that is never removed or disconnected during its fetch, and about which no call fails, is stored under
  its own identity, which is also its key in the registry: whatever optional properties it has or gains, and whatever becomes of the others.
* `ServicesAreComplete`: if such a device is connected and the wait did not run into its deadline, its GATT profile has all its
  services with all their characteristics, and nothing of another device.
* `FetchEnds`: the deadline ends a wait for services that BlueZ never resolves.
* `ReadIsAllOrNothing`: a fix is filled whole from one usable report or left untouched.
* `StopWaitsForOneRead`: after a stop request the worker waits for gpsd at most as often as one `read` does, wherever
  the request found it: in a read, before one, or about to take the one task a stop may still let through.
* `StatusTellsTheFix`: when an observation is about to be made, its status is true exactly if the position beside it is that of a
  report. (What is stored when it is false is the subject of `CoordinatesAreOptional`.)
* `RowsAreOfTheirDevices`: through the queue, the fetch, the statements, crashes and restarts, an observation whose device had an address and both
  time stamps of the row that `LastSeenCovers` speaks of are of device objects with the row's address. It is what `ObservationOfItsDevice`, violated, leaves of the
  link between a row and the device that was seen.
* `ImplementsLogbook`: the refinement above, across crashes and restarts.
* `AnnouncedIsObserved`: a queued device gets its observation, whatever gpsd does, unless a stop or the end of the process
  intervenes. (It is false if a read could go on for ever.)
* `NoLostInterrupt`, `InterruptExits`: main does not sleep through SIGINT, and Ctrl-C ends the program.
* `OnlyInterruptEnds`: removal, stop request, destructors and stale callbacks come after a Ctrl-C, never after a spurious wake-up.
* `OnlyMainWaitsForItself`: `WaitsFor` is who waits for whom: for the holder of a mutex, for the thread joined, for the callback the end of the proxy
  waits for. No set of threads waits in a circle, but main alone in the deadlock of `session_interrupt`: nothing else in the program has to be mended for it.
* `WorkerUsesLiveParts`: the order of main's declarations keeps alive what the worker uses by reference.
* `KnownConnectedAreRemoved`: a device registered and connected when the clean-up begins has been removed when it ends,
  unless a newer object of its address replaced it, or the worker added an address to the map under the loop (`grown`): then the
  loop may pass over any device.

### Bounds

* `MCTaskManager`: two pushers, so that two `push` calls overlap; three devices, two with one address, so that an object
  is replaced and a queue has two elements while a third is in hand; a stop and an exception are possible from everywhere.
  The program has one pusher; two make the claim stronger.
* `MCDatabase`: two identifiers, four calls: enough for a device to be seen, another one in between, and the first again
  after a crash at any statement, and to crash again. `Junk` = {0, 1, 2} has no row's id, and the ids of rows that do or do
  not exist yet. The identifiers are symmetric (`HistoryKept` is a safety property, which symmetry preserves). The
  violation runs need three calls.
* `MCDeviceClient`: two devices fetched once each, three changes of BlueZ or failed calls in any places, which is enough for an object to vanish
  and come back during a fetch and to change once more; a deadline of two rounds, so that a wait ends in the first, in the
  second, or late; two services of one device and one of the other.
* `MCPipeline`: two device objects in a run, of different addresses, two calls of `updateDevice` over all runs, at most two
  rounds of a read, seven reports (each test of `read` fails in one of them). Two calls are enough for a device to be logged and the next one to be
  cut short by a crash or a stop, for the same device to be seen again in a later run, and for a second one to be begun after a
  stop. Three calls make the instance too large to check quickly; the theorems have no such bound.
* `MCSession`: three devices, two with one address; one Ctrl-C (two in `session_interrupt`): `exit` never goes back to
  false, so that a later Ctrl-C repeats the first one's steps.
* Deadlock is checked in every run; a finished behaviour stutters through
  `Terminated` or `Ended`. `MCDatabase` and `MCPipeline` never stop: after the last call they may still die and restart.

### Fairness

`TaskManager!FairSpec`: weak fairness of the worker (its D-Bus calls end by an answer or by their timeout, its SQLite calls
return, `GpsdClient::read` takes at most ten rounds of two seconds), of a `push` that has begun, and of a destructor
that has begun. Nothing forces a push, a stop request, an exception or a spurious wake-up.

`DeviceClient!FairSpec`: weak fairness of `fetchProfile` (its D-Bus calls end); BlueZ never has to do anything.

`Pipeline!FairSpec`: weak fairness of the worker's steps, a wait for gpsd included (it ends by its timeout), and of a `push` that
has begun. gpsd never has to send anything, and nothing forces a stop, a crash or a restart.

`Session!FairSpec`: weak fairness of main, of a callback that has begun, of the worker and of the handler's notification.
`HandlerSet` is strongly fair: main could wake up spuriously for ever and be found holding `exitMutex` each time the handler
tries, although it releases the mutex again and again; a mutex that never serves a waiting thread is not what the library
provides.

## 4. Proofs

All theorems are about the specifications without fairness and hold for every value of the constants under the named
assumptions: `ThreadAssumption` (the worker is no pusher, nobody is `NoThread`), `DeviceAssumption` (`NoDevice` is no device, each
device has an address), `JunkAssumption` (`Junk` is a nonempty set of integers), `BoundAssumption` (`MaxUpdates` is a
natural number). The bound on the number of calls is arbitrary, so it bounds nothing.

`TaskManager_proofs`:

* `TypeCorrect`: `TypeOK` is inductive: it includes the correspondence between positions and things in hand.
* `LockDisciplineHolds`: inductive with `TypeOK`.
* `NoWakeupIsLost`: `NoLostWakeup` is not inductive: the step that blocks the worker needs to know that the queue is empty.
  `WakeupInv` adds `SleepsOnEmpty` (between the failed test and the wait the queue stays empty), which holds because
  `push` needs `mutex_`, by `LockDiscipline`.
* `FifoConservationHolds`: inductive with `TypeOK`; the lemmas `AppendToConcat` and `ConsHead` are about concatenation.
* `ReferencesAreBoundHolds`: `EmptyUntilConstructed`: until the constructor has returned the queue is empty and the worker in its wait loop.
* `RegistryIsNewestHolds`: `RegisteredStep` says that the registry and the sequence of the devices registered change together, in one step of `handle`.
* `ImplementsFeed`: `Spec => ImplementsDeviceFeed`: one step of the proof per action, each to a step of `DeviceFeed` or a stutter.
  `FrontIsNext` turns `FifoConservation` into "the front of `tasks_` is the device accepted after those already recorded";
  `StopOnce` (no stop before the destructor asks for it) makes the phases' transitions possible only once.

Each invariant has an `...Init` and an `...Step` lemma of its own, about a state and about one step. `TaskInv` is their conjunction; `TaskInvInit` and
`TaskInvStep` are what the compositions use.

`Database_proofs`:

* `TypeCorrect`.
* `ReferenceNeverRefused`, `LastSeenCoversHolds`, both from the inductive invariant `ReferenceInv`: `LookupIsCurrent` (what the
  lookup found is still so when the statement that relies on it runs), `CallIsCovered` (once that statement has run, the
  call in progress has its reference row) and the two properties. `CallsGrow` and `CoverKept` say that no step shortens the history of
  calls or uncovers a call.
  `SchemaReady`: all four statements of the schema have been executed once the constructor has returned.
* `HistoryIsKept`: from `TypeOK`, with `RowsKept` (what no statement changes in a row) and `ObservationAppended`.
* `DetailsCoverHolds`: `DetailsInv` adds that between the upsert and the observation the details under the device's id are this call's.
* `FirstObservationIsLinkedHolds`: `LinkInv` adds that a call in progress has no observation yet, and no row before its `INSERT`; afterwards the
  device holds the id of its row.

* `RowsAreOwnHolds`: inductive with `ReferenceInv`, whose `LookupIsCurrent` says that a row is stamped only for the identifier it was looked up by,
  and that an inserted identifier has no row yet. `RowAppended` is about the table after the `INSERT`.

`DeviceClient_proofs` (under `ClientAssumption`, `GattAssumption`, `RoundsAssumption`):

* `TypeCorrect`.
* `ServicesAreCompleteHolds`: `ServicesInv` follows the two loops over the snapshot. A wait that an exception cuts short counts as disturbed.
* `ResidentIsIdentifiedHolds`: `IdentityInv` adds `ReadSoFar` (while the fetch is undisturbed its object is exported, and the part of the
  identity that has been read is right; `ReadIdentity` has a failed read disturb it) and `ReadsAreDone` (no step past the reads before they are made; a device is fetched once).

`GpsdClient_proofs` (under `GpsAssumption`): `ReadIsSound`, with `GpsInvStep`, the same for one step.

`Pipeline_proofs` and `Session_proofs` compose. They take the proof modules of the components by `INSTANCE` with the constants of the
composition (`TMP`, `DBP`), show that a step of the composition is a step of the component, a stutter, or one of the few that only the
composition has (`TaskStep`, `DatabaseStep`), and apply the component's step lemmas (`TypeStep`, `GpsInvStep`, those of `Database_proofs`) to the former.

`Pipeline_proofs` (under `PipelineAssumption`, `GpsAssumption`):

* `TablesAreSound`: every step maps to a step of `Database` or a stutter (`DatabaseStep`, `PartIsDatabase`), which takes
  `NeverRefused`, `LastSeenCovers`, `DetailsCover`, `FirstObservationIsLinked` and `RowsAreOwn` over from there.
* `TasksAreSoundInEveryRun`: `TaskInv` over all runs. A step is one of the task manager (`TaskInvStep`), or makes its memory anew, and the invariant holds of
  fresh memory (`TaskInvAfresh`).
* `ReadsAreSound`: `GpsInv`, which a crash and a restart establish again.
* `StopWaitsForOneReadHolds`: `LateInv`: until the worker has begun a read after the stop, `late` is 0; during one it counts at
  most its rounds; afterwards the worker can only leave.
* `StatusTellsTheFixHolds`: by `GpsInv`, a read that ended well has filled the fix and any other has not; by `LateInv`, no read is under way once the
  observation is about to be made.
* `RowsAreOfTheirDevicesHolds`: from `LastSeenCovers` and `RowsAreOwn` of the composed tables, and `SeenIsOfCaller` (a call is made for the address
  of its device object or for no known address), which needs that the worker has a device in hand when it fetches.
* `ImplementsLogbookHolds`: `CallerInv` (each call of `updateDevice` has its caller) and `RunInv` (what the position of the worker says of that of
  `updateDevice`) give `LogStep`: one step of the proof per action.
* `TypeCorrect`, from the types of the three components.

`Session_proofs` (under the assumptions of `Session`: the three threads differ, the target of SIGINT is one of them, any number of Ctrl-C's):

* `TypeCorrect`: `TaskTypes` for the task manager's variables, also when its destructor overtakes a `push`, `SessionTypes` for the rest.
* `NoLostInterruptHolds`: `WaitInv` adds that main holds `exitMutex` between the test and the wait, so that `exit` is still false when it blocks.
* `WorkerUsesLivePartsHolds`: `JoinInv`: past the third destructor the task manager is destroyed, and then the worker is done.
* `KnownConnectedAreRemovedHolds`: `CleanupInv` says what the loop has still to do while the map has not grown under it. It needs that an object already connected is never registered again:
  `QueueInv` (an object passes the queue once and only its own fetch connects it).
* `OnlyInterruptEndsHolds`: `EndInv`: `exit` and a running handler are due to an interrupt, and each of clean-up, tear-down, destroyed part, stop request, removal
  and stale callback has `exit` before it.
* `OnlyMainWaitsForItselfHolds`: from `LockDiscipline` and `HolderInv` (main holds `exitMutex` in `run()` only): each thread's possible successors in a circle
  leave none. Which threads SIGINT may interrupt is not restricted.

Only model-checked: liveness, which the prover cannot do: `PushedIsStored`, `DestructorReturns`, `FetchEnds`, `AnnouncedIsObserved`, `InterruptExits`. Every
invariant, action property and refinement that a run checks is proved.

## 5. Disagreements between the code and its documentation

Each is a run that TLC finds violated; `PROJECT.json` has the lines.

1. `updateDeviceReference` returns without `setId` when the row exists: from the second sighting on, details and
   observations of a device go to an arbitrary `device_id`. This also makes `LastSeenCovers` the strongest link that holds: it
   goes through the call that wrote the observation, not through `device_id`.
2. The `DO UPDATE SET` of `bluetooth_details` forgets icon, class and appearance.
3. `gpsFix` is bound although nothing has set it when `gps_.read()` failed or was not called.
4. The clean-up reads `connected()` while the worker still fetches: a device found connected after its visit is left so.
5. The handler subscribed on the proxy captures an object destroyed long before the proxy.
6. A device that vanished before it was fetched has the stable identifier "N/A/N/A", and one whose address could not be read has "N/A/type", whatever device
   it is.
7. SIGINT delivered to main while `run()` holds `exitMutex`: the handler locks it again.

Noticed, with no run: `Bluez_ObjectManager.h` speaks of removed devices but only `InterfacesAdded` is subscribed to; the README's "continuous
BR/EDR + LE discovery" and "Connect to each discovered device" against a discovery filter and a commented-out `connect`; `fetchProfile`
writes the modalias into the alias; `hasAltitude` is never read, so that the altitude of a 2D fix is stored as 0.0; gpsd's reports
are buffered while nobody reads, and a read may take an old one; `bindValue(int16_t)` stores a company id of -1 as 1; `CREATE_BLUETOOTH_DETAILS_INDEX` is never executed; the result
of `startScan` is ignored; `display_name` is never updated; the `observed_at_utc` of the newest observation is later than the `last_seen_utc` of its row, by the wait for gpsd; a missing name is stored as "N/A", which `COALESCE` takes for a name; the README's "GATT services" among what is stored, while the GATT profile is printed and dropped.

## 6. Not modelled

* `connect` and `disconnect` of `BluezDeviceClient` and `BluezDeviceConnector`, `disable` of the controller, `find` of the manager: they
  have no caller, so that there is no behaviour of the program to be faithful to.
* The adapter's own state in BlueZ; of the controller only the outcomes main depends on are in `Session`. Nothing in the program reads
  the adapter's state but `isEnabled`.
* The attributes' contents, JSON, hex and time formatting, and the D-Bus names: data without control.
* The construction of the D-Bus connection, its proxies, the client and the connector, whose failures end the program before
  anything is shared.
* The age of gpsd's reports: it depends on buffers outside this code.
* Memory exhaustion: queue, registry and observations grow without a bound in the code.
* `Session` and `Pipeline` in one module: they share the task manager, and each has the whole of its interface to it. Their product is
  out of TLC's reach, and no property relates main's wait or the clean-up with the tables.

## 7. Plan

Written in this order, the most important behaviour first: `DeviceFeed`, `TaskManager` and their proofs; `Database` and its proofs;
`Session`; `DeviceClient` and its proofs; `GpsdClient`; `Logbook` and `Pipeline`; the proofs of these and of `Session`. Next:

1. The name and its `COALESCE` in `Database`, fed by what `DeviceClient` reads, so that "N/A" and NULL can be told apart.
2. `connect` and `disconnect` with `mutex_`, once the program calls them.
3. Two processes on one file: `SELECT` and `INSERT` of different processes interleaved, where `UNIQUE` may refuse.
