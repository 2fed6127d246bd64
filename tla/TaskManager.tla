------------------------------ MODULE TaskManager ------------------------------
(***************************************************************************)
(* The FIFO worker of src/TaskManager.{h,cpp}: threads that push device    *)
(* tasks, the std::jthread that takes and handles them, the constructor    *)
(* that starts it and the destructor that stops and joins it.  mutex_, cv_ *)
(* and the stop token are explicit: one action per region between two      *)
(* synchronisation points.                                                 *)
(*                                                                         *)
(* fetchProfile and updateDevice appear as steps that end or throw; what   *)
(* they do to the device and to the tables belongs to other modules.       *)
(***************************************************************************)
EXTENDS Naturals, Sequences

CONSTANTS
  Pusher,     \* threads that call push (here: the D-Bus event loop)
  Worker,     \* the thread of worker_
  NoThread,   \* holder of a free mutex
  Device,     \* device objects; make_shared creates each of them once
  NoDevice,   \* an empty std::optional<Task>
  Address,    \* physical addresses
  AddressOf   \* the address each device object was announced with

ASSUME ThreadAssumption == /\ Worker \notin Pusher
                           /\ NoThread \notin Pusher \union {Worker}
ASSUME DeviceAssumption == /\ NoDevice \notin Device
                           /\ AddressOf \in [Device -> Address]

VARIABLES
  mutex,      \* holder of mutex_
  tasks,      \* tasks_
  wpc,        \* where the worker is in run() and handle()
  current,    \* the worker's local task, NoDevice when it has none
  ppc,        \* where each pusher is in push()
  arg,        \* the argument of each pusher's push()
  stop,       \* the stop token's state: stop_requested()
  owner,      \* where the owning thread is in TaskManager() and ~TaskManager()
  devices,    \* DevicesManager::devices_, by address
  pushed,     \* history: devices appended to tasks_, in order
  stored      \* history: devices whose updateDevice returned, in order

pusherVars == <<ppc, arg>>
vars == <<mutex, tasks, wpc, current, ppc, arg, stop, owner, devices, pushed, stored>>

Elements(s) == {s[i] : i \in 1..Len(s)}

\* The worker's position: "loop" tests the stop token, "lock" waits for mutex_ on
\* behalf of cv_.wait, "test" evaluates its predicate, "sleep" is about to block,
\* "asleep" is blocked in cv_; then handle() runs.
WorkerPc == {"loop", "lock", "test", "sleep", "asleep",
             "handle", "insert", "fetch", "update", "done", "aborted"}

Init == /\ mutex = NoThread
        /\ tasks = <<>>
        /\ wpc = "loop"
        /\ current = NoDevice
        /\ ppc = [p \in Pusher |-> "idle"]
        /\ arg = [p \in Pusher |-> NoDevice]
        /\ stop = FALSE
        /\ owner = "constructing"
        /\ devices = [a \in Address |-> NoDevice]
        /\ pushed = <<>>
        /\ stored = <<>>

\* The object is not destroyed and the process has not been ended by std::terminate.
Alive == owner # "destroyed" /\ wpc # "aborted"

\* Defect, for the mutant runs: nobody calls notify_one or notify_all.
NeverNotified == wpc

\* The worker after notify_one or notify_all: nobody else ever waits on cv_.
Notified == IF wpc = "asleep" THEN "lock" ELSE wpc

\* Defect: push_front.
EnqueueFront(q, d) == <<d>> \o q

\* tasks_.push_back
Enqueue(q, d) == Append(q, d)

\* Defect: insert, which keeps the first object of an address.
RegisterFirst(d) == [devices EXCEPT ![AddressOf[d]] = IF @ = NoDevice THEN d ELSE @]

\* devices_.insert_or_assign(device->address(), device)
Register(d) == [devices EXCEPT ![AddressOf[d]] = d]

\* Defect: a stop is only honoured once the queue is empty.
LeavesWhenDrained == stop /\ tasks = <<>>

\* The loop condition fails: stopToken.stop_requested().
LeavesLoop == stop

-------------------------------------------------------------------------------
(* TaskManager(): worker_ is declared, and its thread started, before the reference
   members are bound. *)

Construct ==
  /\ owner = "constructing"
  /\ owner' = "running"
  /\ UNCHANGED <<mutex, tasks, wpc, current, pusherVars, stop, devices, pushed, stored>>

-------------------------------------------------------------------------------
(* push(task): lock_guard, push_back, unlock, notify_one. *)

\* Defect: the task manager is handed out by its own constructor.
PushLockEarly(p, d) ==
  /\ Alive
  /\ ppc[p] = "idle"
  /\ d \notin Elements(pushed)
  /\ \A q \in Pusher : arg[q] # d
  /\ mutex = NoThread
  /\ mutex' = p
  /\ ppc' = [ppc EXCEPT ![p] = "append"]
  /\ arg' = [arg EXCEPT ![p] = d]
  /\ UNCHANGED <<tasks, wpc, current, stop, owner, devices, pushed, stored>>

\* Nobody has a reference to the object before its constructor has returned.
PushLock(p, d) ==
  /\ Alive
  /\ owner # "constructing"
  /\ ppc[p] = "idle"
  /\ d \notin Elements(pushed)
  /\ \A q \in Pusher : arg[q] # d
  /\ mutex = NoThread
  /\ mutex' = p
  /\ ppc' = [ppc EXCEPT ![p] = "append"]
  /\ arg' = [arg EXCEPT ![p] = d]
  /\ UNCHANGED <<tasks, wpc, current, stop, owner, devices, pushed, stored>>

PushAppend(p) ==
  /\ Alive
  /\ ppc[p] = "append"
  /\ tasks' = Enqueue(tasks, arg[p])
  /\ pushed' = Append(pushed, arg[p])
  /\ mutex' = NoThread
  /\ ppc' = [ppc EXCEPT ![p] = "notify"]
  /\ arg' = [arg EXCEPT ![p] = NoDevice]
  /\ UNCHANGED <<wpc, current, stop, owner, devices, stored>>

PushNotify(p) ==
  /\ Alive
  /\ ppc[p] = "notify"
  /\ wpc' = Notified
  /\ ppc' = [ppc EXCEPT ![p] = "idle"]
  /\ UNCHANGED <<mutex, tasks, current, arg, stop, owner, devices, pushed, stored>>

-------------------------------------------------------------------------------
(* run(): the worker's loop. *)

\* while (!stopToken.stop_requested())
RunLoop ==
  /\ wpc = "loop"
  /\ wpc' = IF LeavesLoop THEN "done" ELSE "lock"
  /\ UNCHANGED <<mutex, tasks, current, pusherVars, stop, owner, devices, pushed, stored>>

\* Takes mutex_, on entry or when cv_.wait returns from blocking.
RunLock ==
  /\ wpc = "lock"
  /\ mutex = NoThread
  /\ mutex' = Worker
  /\ wpc' = "test"
  /\ UNCHANGED <<tasks, current, pusherVars, stop, owner, devices, pushed, stored>>

\* Defect: the scope of the lock includes the call of handle.
RunTakeInScope ==
  /\ wpc = "test"
  /\ tasks # <<>>
  /\ current' = Head(tasks)
  /\ tasks' = Tail(tasks)
  /\ wpc' = "handle"
  /\ UNCHANGED <<mutex, pusherVars, stop, owner, devices, pushed, stored>>

\* The predicate holds, whether or not a stop was requested: the front task is moved out.
RunTake ==
  /\ wpc = "test"
  /\ tasks # <<>>
  /\ current' = Head(tasks)
  /\ tasks' = Tail(tasks)
  /\ mutex' = NoThread
  /\ wpc' = "handle"
  /\ UNCHANGED <<pusherVars, stop, owner, devices, pushed, stored>>

\* Defect: mutex_ is given up between the test and the wait.
RunEmptyUnlocks ==
  /\ wpc = "test"
  /\ tasks = <<>>
  /\ mutex' = NoThread
  /\ wpc' = "sleep"
  /\ UNCHANGED <<tasks, current, pusherVars, stop, owner, devices, pushed, stored>>

RunEmpty ==
  /\ wpc = "test"
  /\ tasks = <<>>
  /\ wpc' = "sleep"
  /\ UNCHANGED <<mutex, tasks, current, pusherVars, stop, owner, devices, pushed, stored>>

\* cv_.wait gives mutex_ up and blocks in one step, unless a stop was requested: then it
\* returns false and the loop continues with its test.
RunSleep ==
  /\ wpc = "sleep"
  /\ mutex' = NoThread
  /\ wpc' = IF stop THEN "loop" ELSE "asleep"
  /\ UNCHANGED <<tasks, current, pusherVars, stop, owner, devices, pushed, stored>>

\* A condition variable may wake without a notification.
SpuriousWake ==
  /\ wpc = "asleep"
  /\ wpc' = "lock"
  /\ UNCHANGED <<mutex, tasks, current, pusherVars, stop, owner, devices, pushed, stored>>

-------------------------------------------------------------------------------
(* handle(AddDeviceTask): register under mutex_, fetch, store. *)

\* Defect: the registry is written without mutex_.
HandleNoLock ==
  /\ wpc = "handle"
  /\ wpc' = "insert"
  /\ UNCHANGED <<mutex, tasks, current, pusherVars, stop, owner, devices, pushed, stored>>

HandleLock ==
  /\ wpc = "handle"
  /\ mutex = NoThread
  /\ mutex' = Worker
  /\ wpc' = "insert"
  /\ UNCHANGED <<tasks, current, pusherVars, stop, owner, devices, pushed, stored>>

HandleInsert ==
  /\ wpc = "insert"
  /\ devices' = Register(current)
  /\ mutex' = NoThread
  /\ wpc' = "fetch"
  /\ UNCHANGED <<tasks, current, pusherVars, stop, owner, pushed, stored>>

HandleFetch ==
  /\ wpc = "fetch"
  /\ wpc' = "update"
  /\ UNCHANGED <<mutex, tasks, current, pusherVars, stop, owner, devices, pushed, stored>>

\* Defect: the optional task outlives the iteration.
HandleUpdateKeepsTask ==
  /\ wpc = "update"
  /\ stored' = Append(stored, current)
  /\ wpc' = "loop"
  /\ UNCHANGED <<mutex, tasks, current, pusherVars, stop, owner, devices, pushed>>

\* updateDevice returns; handle and the visit end, the task is destroyed.
HandleUpdate ==
  /\ wpc = "update"
  /\ stored' = Append(stored, current)
  /\ current' = NoDevice
  /\ wpc' = "loop"
  /\ UNCHANGED <<mutex, tasks, pusherVars, stop, owner, devices, pushed>>

\* Nothing catches what fetchProfile or updateDevice throws: the exception leaves the
\* thread function and std::terminate ends the process.
HandleThrow ==
  /\ wpc \in {"fetch", "update"}
  /\ wpc' = "aborted"
  /\ UNCHANGED <<mutex, tasks, current, pusherVars, stop, owner, devices, pushed, stored>>

-------------------------------------------------------------------------------
(* ~TaskManager(): ~jthread requests a stop, whose callback notifies cv_, and joins. *)

RequestStop ==
  /\ Alive
  /\ owner = "running"
  /\ stop' = TRUE
  /\ owner' = "notifying"
  /\ UNCHANGED <<mutex, tasks, wpc, current, pusherVars, devices, pushed, stored>>

StopCallback ==
  /\ Alive
  /\ owner = "notifying"
  /\ wpc' = Notified
  /\ owner' = "joining"
  /\ UNCHANGED <<mutex, tasks, current, pusherVars, stop, devices, pushed, stored>>

Join ==
  /\ owner = "joining"
  /\ wpc = "done"
  /\ owner' = "destroyed"
  /\ UNCHANGED <<mutex, tasks, wpc, current, pusherVars, stop, devices, pushed, stored>>

\* The object is gone, or the process is.
Terminated == ~Alive /\ UNCHANGED vars

-------------------------------------------------------------------------------
Push(p) == (\E d \in Device : PushLock(p, d)) \/ PushAppend(p) \/ PushNotify(p)

Run == RunLoop \/ RunLock \/ RunTake \/ RunEmpty \/ RunSleep

Handle == HandleLock \/ HandleInsert \/ HandleFetch \/ HandleUpdate

Destroy == RequestStop \/ StopCallback \/ Join

Next == \/ Construct
        \/ \E p \in Pusher : Push(p)
        \/ Run
        \/ SpuriousWake
        \/ Handle
        \/ HandleThrow
        \/ Destroy
        \/ Terminated

Spec == Init /\ [][Next]_vars

\* The scheduler runs every thread that can run: the worker (whose D-Bus calls end, by
\* an answer or their timeout), a push() once it has begun, ~TaskManager() once it has
\* begun.  Nothing forces a signal, a stop request, a spurious wake or an exception.
Fairness == /\ WF_vars(Run \/ Handle)
            /\ \A p \in Pusher : WF_vars(PushAppend(p) \/ PushNotify(p))
            /\ WF_vars(StopCallback \/ Join)

FairSpec == Spec /\ Fairness
-------------------------------------------------------------------------------
(* Properties. *)

\* Types, and which positions of the worker and of a pusher go with a device in hand.
TypeOK ==
  /\ mutex \in Pusher \union {Worker, NoThread}
  /\ tasks \in Seq(Device)
  /\ wpc \in WorkerPc
  /\ current \in Device \union {NoDevice}
  /\ ppc \in [Pusher -> {"idle", "append", "notify"}]
  /\ arg \in [Pusher -> Device \union {NoDevice}]
  /\ stop \in BOOLEAN
  /\ owner \in {"constructing", "running", "notifying", "joining", "destroyed"}
  /\ devices \in [Address -> Device \union {NoDevice}]
  /\ pushed \in Seq(Device)
  /\ stored \in Seq(Device)
  /\ (current # NoDevice) <=> (wpc \in {"handle", "insert", "fetch", "update", "aborted"})
  /\ \A p \in Pusher : (arg[p] # NoDevice) <=> (ppc[p] = "append")

\* mutex_ protects what it is said to: its holder is in one of the regions that read or
\* write tasks_ and devices_, and whoever is in such a region holds it.
LockDiscipline ==
  /\ (mutex = Worker) <=> (wpc \in {"test", "sleep", "insert"})
  /\ \A p \in Pusher : (mutex = p) <=> (ppc[p] = "append")

\* The worker never sleeps through work or through the destructor: if it is blocked
\* while a task is queued, some push() has yet to notify it, and if it is blocked after
\* a stop request, the stop callback has yet to run.
NoLostWakeup ==
  wpc = "asleep" =>
    /\ tasks # <<>> => \E p \in Pusher : ppc[p] = "notify"
    /\ stop => owner = "notifying"

\* The worker, which runs before the constructor has bound deviceConnector_,
\* devicesManager_ and database_, handles no device and so uses none of them until then.
ReferencesAreBound == wpc \in {"insert", "fetch", "update"} => owner # "constructing"

InHand == IF current = NoDevice THEN <<>> ELSE <<current>>

\* No task is lost, duplicated or reordered between push() and updateDevice, whatever
\* the interleaving of pushers, worker and destructor, also when the worker dies.
FifoConservation == pushed = (stored \o InHand) \o tasks

\* The devices the worker has registered so far, in order.
Registered ==
  IF wpc \in {"fetch", "update", "aborted"} THEN stored \o InHand ELSE stored

\* The session registry holds, for every address, the device object registered last:
\* an older object of the address, perhaps connected, is no longer reachable from it.
RegistryIsNewest ==
  \A a \in Address :
    LET seen == {i \in 1..Len(Registered) : AddressOf[Registered[i]] = a}
    IN IF seen = {} THEN devices[a] = NoDevice
       ELSE \E i \in seen : /\ \A j \in seen : j <= i
                            /\ devices[a] = Registered[i]

\* How the threads' state reads as DeviceFeed's phase: once a stop is requested, a worker
\* inside cv_.wait may still find its predicate true and take one more task.
FeedPhase ==
  IF wpc = "aborted" THEN "aborted"
  ELSE IF ~stop THEN "open"
  ELSE IF wpc \in {"lock", "test", "sleep", "asleep"} THEN "last"
  ELSE "closed"

Feed == INSTANCE DeviceFeed
          WITH accepted <- pushed, recorded <- stored, phase <- FeedPhase

\* The worker, its lock and its condition variable implement the promise of DeviceFeed:
\* FIFO, one at a time, at most one more task after a stop request.
ImplementsDeviceFeed == Feed!Spec

\* Every task that push() appended is stored in the end, unless a stop is requested or
\* an exception ends the process: no wake-up is lost for good.
PushedIsStored ==
  \A d \in Device :
    d \in Elements(pushed) ~> (d \in Elements(stored) \/ stop \/ wpc = "aborted")

\* ~TaskManager() returns: the worker notices the stop request from wherever it is, also
\* asleep with nothing to do, unless an exception ends the process first.
DestructorReturns == stop ~> ~Alive
===============================================================================
