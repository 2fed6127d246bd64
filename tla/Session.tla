-------------------------------- MODULE Session --------------------------------
(***************************************************************************)
(* One run of the program, src/main.cpp: the main thread sets the parts    *)
(* up, waits for SIGINT, removes the connected devices and destroys the    *)
(* parts in the reverse order of their declarations, while the D-Bus event *)
(* loop goes on calling ObjectManager's handler and the worker goes on     *)
(* handling tasks.  TaskManager gives push(), the worker and ~TaskManager. *)
(*                                                                         *)
(* The model starts inside TaskManager's constructor: the worker's thread  *)
(* runs, the parts declared before the task manager exist.                 *)
(***************************************************************************)
EXTENDS Naturals, Sequences

CONSTANTS
  Main,           \* the main thread
  Dispatcher,     \* the thread of the D-Bus event loop
  Worker,         \* the thread of TaskManager::worker_
  NoThread,
  Device, NoDevice, Address, AddressOf,
  SignalTarget,   \* threads the kernel may deliver SIGINT to
  MaxInterrupts   \* bound: how often Ctrl-C is pressed

ASSUME SignalAssumption == SignalTarget \subseteq {Main, Dispatcher, Worker}
                           /\ MaxInterrupts \in Nat
ASSUME ThreadAssumption == /\ Dispatcher # Worker
                           /\ Main \notin {Dispatcher, Worker}
                           /\ NoThread \notin {Main, Dispatcher, Worker}
ASSUME DeviceAssumption == NoDevice \notin Device /\ AddressOf \in [Device -> Address]

VARIABLES mutex, tasks, wpc, current, ppc, arg, stop, owner, devices, pushed, stored

TM == INSTANCE TaskManager WITH Pusher <- {Dispatcher}

VARIABLES
  main,        \* where the main thread is
  down,        \* how many parts have been destroyed
  exit,        \* the flag of signalHandler
  exitMutex,   \* Main while run() holds it, or NoThread (signalHandler's hold is one step)
  handler,     \* where signalHandler is: "idle", "enter", "notify"
  target,      \* the thread it runs on
  interrupts,  \* Ctrl-C's so far
  connected,   \* devices whose connected() is true
  toVisit,     \* addresses the clean-up loop has still to visit
  due,         \* history: devices registered and connected when that loop began
  removed,     \* devices RemoveDevice was called for
  grown,       \* history: the worker inserted a new address while that loop was running
  stale        \* a callback ran on a destroyed object

taskVars == <<mutex, tasks, wpc, current, ppc, arg, stop, owner, devices, pushed, stored>>
runVars == <<exit, exitMutex, handler, target, interrupts>>
cleanupVars == <<connected, toVisit, due, removed, grown>>
vars == <<taskVars, main, down, runVars, cleanupVars, stale>>

\* Defect, for the mutant runs: the database is declared after the task manager.
TeardownDatabaseFirst ==
  <<"blufizz", "manager", "database", "taskManager", "devicesManager", "gps",
    "deviceConnector", "deviceClient", "proxy", "connection">>

\* main's locals in the order of their destruction.
Teardown == <<"blufizz", "manager", "taskManager", "database", "devicesManager", "gps",
              "deviceConnector", "deviceClient", "proxy", "connection">>

IsLive(part) == \E i \in (down + 1)..Len(Teardown) : Teardown[i] = part

\* What main destroys next, once it is done with its clean-up.
IsNext(part) == main = "teardown" /\ down < Len(Teardown) /\ Teardown[down + 1] = part

\* ObjectManager has subscribed and the proxy still calls its handler.
Subscribed == main # "setup" /\ IsLive("proxy")

\* No uncaught exception has ended the process.
Running == main # "aborted" /\ wpc # "aborted"

\* SIGINT interrupts a thread wherever it is; it goes on when the handler returns.
Runs(thread) == Running /\ ~(target = thread /\ handler # "idle")

Init == /\ TM!Init
        /\ main = "setup"
        /\ down = 0
        /\ exit = FALSE
        /\ exitMutex = NoThread
        /\ handler = "idle"
        /\ target = NoThread
        /\ interrupts = 0
        /\ connected = {}
        /\ toVisit = {}
        /\ due = {}
        /\ removed = {}
        /\ grown = FALSE
        /\ stale = FALSE

-------------------------------------------------------------------------------
(* main: set-up, and the wait of run(). *)

GoTo(from, to) ==
  /\ Runs(Main)
  /\ main = from
  /\ main' = to
  /\ UNCHANGED <<taskVars, down, exit, handler, target, interrupts, cleanupVars, stale>>

\* The task manager is constructed, then BluezAdapterManager and its ObjectManager, which
\* subscribe; get() makes the controller.
Setup ==
  /\ Runs(Main)
  /\ main = "setup"
  /\ TM!Construct
  /\ main' = "enable"
  /\ UNCHANGED <<down, runVars, cleanupVars, stale>>

\* adapter.enable() throws when BlueZ refuses, and main catches nothing.
Enable == \E to \in {"scan", "aborted"} : GoTo("enable", to) /\ UNCHANGED exitMutex

\* blufizz.run() ignores the result of startScan().
StartScan == GoTo("scan", "lock") /\ UNCHANGED exitMutex

\* The lock of run(), and the one cv.wait takes when it returns.
RunLock == exitMutex = NoThread /\ GoTo("lock", "test") /\ exitMutex' = Main

\* Defect: cv.wait without its predicate.
LeavesWhenAwake == TRUE

\* The predicate of cv.wait.
ExitWanted == exit

RunStay == ~ExitWanted /\ GoTo("test", "block") /\ UNCHANGED exitMutex

RunBlock == GoTo("block", "waiting") /\ exitMutex' = NoThread

RunSpurious == GoTo("waiting", "lock") /\ UNCHANGED exitMutex

\* run() returns and the loop over devicesManager.devices() begins.
RunLeave ==
  /\ Runs(Main)
  /\ main = "test"
  /\ ExitWanted
  /\ exitMutex' = NoThread
  /\ main' = "cleanup"
  /\ toVisit' = {a \in Address : devices[a] # NoDevice}
  /\ due' = {d \in connected : devices[AddressOf[d]] = d}
  /\ UNCHANGED <<taskVars, down, exit, handler, target, interrupts, connected, removed, grown,
                 stale>>

-------------------------------------------------------------------------------
(* signalHandler *)

Interrupt ==
  /\ Running
  /\ main # "exited"
  /\ handler = "idle"
  /\ interrupts < MaxInterrupts
  /\ interrupts' = interrupts + 1
  /\ target' \in SignalTarget
  /\ handler' = "enter"
  /\ UNCHANGED <<taskVars, main, down, exit, exitMutex, cleanupVars, stale>>

\* Defect: the flag is set without exitMutex.
EntersWithoutLock == TRUE

\* std::lock_guard lock(exitMutex) returns.
CanEnter == exitMutex = NoThread

HandlerSet ==
  /\ Running
  /\ handler = "enter"
  /\ CanEnter
  /\ exit' = TRUE
  /\ handler' = "notify"
  /\ UNCHANGED <<taskVars, main, down, exitMutex, target, interrupts, cleanupVars, stale>>

\* Defect: the handler does not notify.
StaysAsleep == main

\* cv.notify_one()
Awakened == IF main = "waiting" THEN "lock" ELSE main

HandlerNotify ==
  /\ Running
  /\ handler = "notify"
  /\ main' = Awakened
  /\ handler' = "idle"
  /\ UNCHANGED <<taskVars, down, exit, exitMutex, target, interrupts, cleanupVars, stale>>

-------------------------------------------------------------------------------
(* main: the clean-up loop and the destructors. *)

\* Defect: the test is negated.
IsToBeKept(d) == d \notin connected

IsToBeRemoved(d) == d \in connected

\* adapter.removeDevice(device->objectPath()), whose failure is only logged.
RemoveDevice(d) == removed \union {d}

\* One iteration.
Visit(a) ==
  /\ Runs(Main)
  /\ main = "cleanup"
  /\ a \in toVisit
  /\ toVisit' = toVisit \ {a}
  /\ removed' = IF IsToBeRemoved(devices[a]) THEN RemoveDevice(devices[a]) ELSE removed
  /\ UNCHANGED <<taskVars, main, down, runVars, connected, due, grown, stale>>

\* Defect: the loop is left early.
CleanupBreak == GoTo("cleanup", "teardown") /\ UNCHANGED exitMutex

CleanupEnd == toVisit = {} /\ GoTo("cleanup", "teardown") /\ UNCHANGED exitMutex

\* The destructor of every part but the task manager; ~BluFizz stops the scan, the end of
\* the proxy ends the subscription and waits for a callback under way.
Destroy(part) ==
  /\ Runs(Main)
  /\ part # "taskManager"
  /\ IsNext(part)
  /\ part = "proxy" => ppc[Dispatcher] = "idle"
  /\ down' = down + 1
  /\ main' = IF down' = Len(Teardown) THEN "exited" ELSE main
  /\ UNCHANGED <<taskVars, runVars, cleanupVars, stale>>

DestroyTaskManager ==
  /\ Runs(Main)
  /\ IsNext("taskManager")
  /\ \/ (TM!RequestStop \/ TM!StopCallback) /\ down' = down
     \/ TM!Join /\ down' = down + 1
  /\ UNCHANGED <<main, runVars, cleanupVars, stale>>

-------------------------------------------------------------------------------
(* The event loop and the worker. *)

\* InterfacesAdded for a device: onInterfacesAdded makes the object and pushes it.
Announce(d) ==
  /\ Runs(Dispatcher)
  /\ Subscribed
  /\ IF IsLive("manager")
       THEN TM!PushLock(Dispatcher, d) /\ stale' = stale
       ELSE stale' = TRUE /\ UNCHANGED taskVars
  /\ UNCHANGED <<main, down, runVars, cleanupVars>>

\* InterfacesAdded for a device without an RSSI: the handler reads properties.end(), which
\* ends the process, unless it goes well and the call is as in Announce.
AnnounceWithoutRssi ==
  /\ Runs(Dispatcher)
  /\ Subscribed
  /\ ppc[Dispatcher] = "idle"
  /\ main' = "aborted"
  /\ UNCHANGED <<taskVars, down, runVars, cleanupVars, stale>>

Dispatch ==
  /\ Runs(Dispatcher)
  /\ TM!PushAppend(Dispatcher) \/ TM!PushNotify(Dispatcher)
  /\ UNCHANGED <<main, down, runVars, cleanupVars, stale>>

\* ~TaskManager has overtaken a push(): the rest of it runs on destroyed members, which ends
\* the process, or returns having written to what nobody reads any more.
DispatchOvertaken ==
  /\ Runs(Dispatcher)
  /\ owner = "destroyed"
  /\ ppc[Dispatcher] # "idle"
  /\ stale' = TRUE
  /\ \/ main' = "aborted" /\ UNCHANGED taskVars
     \/ /\ ppc' = [ppc EXCEPT ![Dispatcher] = "idle"]
        /\ arg' = [arg EXCEPT ![Dispatcher] = NoDevice]
        /\ mutex' = IF mutex = Dispatcher THEN NoThread ELSE mutex
        /\ UNCHANGED <<main, tasks, wpc, current, stop, owner, devices, pushed, stored>>
  /\ UNCHANGED <<down, runVars, cleanupVars>>

\* insert_or_assign.  During main's unlocked iteration it may end the process; an address that
\* is new to the map may make it rehash, after which what main comes across, again or for the
\* first time, is any part of the map.
Insert ==
  /\ Runs(Worker)
  /\ TM!HandleInsert
  /\ IF main = "cleanup" /\ devices[AddressOf[current]] = NoDevice
       THEN toVisit' \in SUBSET {a \in Address : devices'[a] # NoDevice} /\ grown' = TRUE
       ELSE UNCHANGED <<toVisit, grown>>
  /\ main' \in IF main = "cleanup" THEN {main, "aborted"} ELSE {main}
  /\ UNCHANGED <<down, runVars, connected, due, removed, stale>>

\* fetchProfile copies BlueZ's Connected property.
Fetch ==
  /\ Runs(Worker)
  /\ TM!HandleFetch
  /\ connected' \in {connected, connected \union {current}}
  /\ UNCHANGED <<main, down, runVars, toVisit, due, removed, grown, stale>>

Work ==
  /\ Runs(Worker)
  /\ TM!Run \/ TM!HandleLock \/ TM!HandleUpdate
  /\ UNCHANGED <<main, down, runVars, cleanupVars, stale>>

\* What nothing forces on the worker.
Mishap ==
  /\ Runs(Worker)
  /\ TM!SpuriousWake \/ TM!HandleThrow
  /\ UNCHANGED <<main, down, runVars, cleanupVars, stale>>

Ended == (main = "exited" \/ ~Running) /\ UNCHANGED vars

MainStep == \/ Setup \/ Enable \/ StartScan
            \/ RunLock \/ RunStay \/ RunBlock \/ RunLeave
            \/ \E a \in Address : Visit(a)
            \/ CleanupEnd
            \/ \E i \in 1..Len(Teardown) : Destroy(Teardown[i])
            \/ DestroyTaskManager

Next == \/ MainStep \/ RunSpurious
        \/ Interrupt \/ HandlerSet \/ HandlerNotify
        \/ \E d \in Device : Announce(d)
        \/ AnnounceWithoutRssi
        \/ Dispatch \/ DispatchOvertaken
        \/ Insert \/ Fetch \/ Work \/ Mishap
        \/ Ended

\* The scheduler runs main, the handler, a callback once begun and the worker, whose D-Bus
\* calls end; nobody has to press Ctrl-C, and BlueZ announces what it likes.  However often
\* main wakes for nothing, it releases exitMutex, and the handler gets it in the end.
Fairness == /\ WF_vars(MainStep)
            /\ SF_vars(HandlerSet) /\ WF_vars(HandlerNotify)
            /\ WF_vars(Dispatch \/ DispatchOvertaken)
            /\ WF_vars(Insert \/ Fetch \/ Work)

Spec == Init /\ [][Next]_vars
FairSpec == Spec /\ Fairness
-------------------------------------------------------------------------------
(* Properties. *)

MainPc == {"setup", "enable", "scan", "lock", "test", "block", "waiting", "cleanup",
           "teardown", "exited", "aborted"}

TypeOK ==
  /\ TM!TypeOK
  /\ main \in MainPc
  /\ down \in 0..Len(Teardown)
  /\ exit \in BOOLEAN
  /\ exitMutex \in {Main, NoThread}
  /\ handler \in {"idle", "enter", "notify"}
  /\ target \in SignalTarget \union {NoThread}
  /\ interrupts \in 0..MaxInterrupts
  /\ connected \subseteq Device
  /\ toVisit \subseteq Address
  /\ due \subseteq Device
  /\ removed \subseteq Device
  /\ grown \in BOOLEAN
  /\ stale \in BOOLEAN
  /\ toVisit # {} => main \in {"cleanup", "aborted"}
  /\ main = "exited" <=> down = Len(Teardown)

\* main never sleeps through a SIGINT: if it waits although exit is set, the handler has
\* yet to notify it.
NoLostInterrupt == main = "waiting" /\ exit => handler = "notify"

\* While the worker registers, fetches or stores a device, the parts it uses by reference
\* exist: main joins it before it destroys any of them.
WorkerUsesLiveParts ==
  /\ wpc = "insert" => IsLive("devicesManager")
  /\ wpc = "fetch" => /\ IsLive("deviceConnector") /\ IsLive("deviceClient")
                      /\ IsLive("proxy") /\ IsLive("connection")
  /\ wpc = "update" => IsLive("database") /\ IsLive("gps")

\* A device that was registered and connected when the clean-up loop began has been removed
\* when it ends, unless a newer object of its address has taken its place in between; the
\* worker may go on fetching, replacing and storing, but once it inserts a new address into
\* the map under the loop, nothing is certain of any device.
KnownConnectedAreRemoved ==
  main \in {"teardown", "exited"} /\ ~grown =>
    \A d \in due : d \in removed \/ devices[AddressOf[d]] # d

\* Nothing but Ctrl-C ends a run: whatever wakes main, no device is removed, no thread
\* stopped and no callback left without its object before SIGINT has come.
OnlyInterruptEnds ==
  removed # {} \/ stop \/ stale \/ main \in {"cleanup", "teardown", "exited"} => interrupts > 0

\* Whom a thread waits for, or may: the holder of the mutex it is about to lock, the thread
\* it joins, the callback the end of the proxy waits for.
WaitsFor(t, u) ==
  \/ t = target /\ handler = "enter" /\ u = exitMutex
  \/ t = Main /\ IsNext("taskManager") /\ owner = "joining" /\ u = Worker
  \/ t = Main /\ IsNext("proxy") /\ u = Dispatcher
  \/ t = Worker /\ wpc \in {"lock", "handle"} /\ u = mutex
  \/ t = Dispatcher /\ ppc[Dispatcher] = "idle" /\ u = mutex

\* Threads never wait for each other in a circle, through exitMutex, mutex_, the join and
\* the proxy together: the one deadlock there is, is that of main alone, interrupted by
\* SIGINT while run() holds exitMutex.
OnlyMainWaitsForItself ==
  Running =>
    \A circle \in (SUBSET {Main, Dispatcher, Worker}) \ {{}} :
      (\A t \in circle : \E u \in circle : WaitsFor(t, u))
        => circle = {Main} /\ target = Main /\ main \in {"test", "block"}

\* Ctrl-C ends the program, unless an exception ends it first.
InterruptExits == handler = "enter" ~> (main = "exited" \/ ~Running)

\* "On Ctrl-C, cleanly disconnect all connected devices and exit" (README).
AllConnectedAreRemoved ==
  main = "exited" =>
    \A d \in connected : \E e \in removed : AddressOf[e] = AddressOf[d]

\* "cleanly ... exit": no callback runs on an object that main has destroyed.
NoStaleCallback == ~stale
===============================================================================
