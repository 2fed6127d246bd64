----------------------------- MODULE Session_proofs -----------------------------
(***************************************************************************)
(* Proofs about Session, for any devices, any number of Ctrl-C's and any   *)
(* threads that may be interrupted by them: its types, the wait for SIGINT,*)
(* the order of the tear-down and what the clean-up loop leaves out.       *)
(***************************************************************************)
EXTENDS Session, SequenceTheorems, TLAPS

TMP == INSTANCE TaskManager_proofs WITH Pusher <- {Dispatcher}

LEMMA TeardownLength == Len(Teardown) = 10
BY DEF Teardown

-------------------------------------------------------------------------------
(* Types. *)

\* The session moves the task manager's variables as TaskManager does, but for the push()
\* that the destructor has overtaken.
LEMMA TaskStep ==
  ASSUME [Next]_vars
  PROVE  [TMP!Next]_TMP!vars \/ DispatchOvertaken
<1> USE DEF taskVars, TMP!vars
<1>1. CASE Setup
  <2>1. TMP!Construct
    BY <1>1 DEF Setup, TM!Construct, TMP!Construct, TM!pusherVars, TMP!pusherVars
  <2>2. QED
    BY <2>1 DEF TMP!Next
<1>2. CASE DestroyTaskManager
  <2>1. TMP!Destroy
    BY <1>2 DEF DestroyTaskManager, TMP!Destroy, TM!RequestStop, TMP!RequestStop,
                TM!StopCallback, TMP!StopCallback, TM!Join, TMP!Join, TM!Alive, TMP!Alive,
                TM!Notified, TMP!Notified, TM!pusherVars, TMP!pusherVars
  <2>2. QED
    BY <2>1 DEF TMP!Next
<1>3. ASSUME NEW d \in Device, Announce(d)
      PROVE  [TMP!Next]_TMP!vars
  <2>1. TMP!PushLock(Dispatcher, d) \/ UNCHANGED TMP!vars
    BY <1>3 DEF Announce, TM!PushLock, TMP!PushLock, TM!Alive, TMP!Alive, TM!Elements,
                TMP!Elements
  <2>2. QED
    BY <2>1 DEF TMP!Next, TMP!Push
<1>4. CASE Dispatch
  <2>1. TMP!PushAppend(Dispatcher) \/ TMP!PushNotify(Dispatcher)
    BY <1>4 DEF Dispatch, TM!PushAppend, TMP!PushAppend, TM!PushNotify, TMP!PushNotify,
                TM!Alive, TMP!Alive, TM!Notified, TMP!Notified, TM!Enqueue, TMP!Enqueue
  <2>2. QED
    BY <2>1 DEF TMP!Next, TMP!Push
<1>5. CASE Insert \/ Fetch \/ Work \/ Mishap
  <2>1. TMP!Run \/ TMP!Handle \/ TMP!SpuriousWake \/ TMP!HandleThrow
    BY <1>5 DEF Insert, Fetch, Work, Mishap, TM!Run, TMP!Run, TMP!Handle, TM!RunLoop,
                TMP!RunLoop, TM!RunLock, TMP!RunLock, TM!RunTake, TMP!RunTake, TM!RunEmpty,
                TMP!RunEmpty, TM!RunSleep, TMP!RunSleep, TM!HandleLock, TMP!HandleLock,
                TM!HandleInsert, TMP!HandleInsert, TM!HandleFetch, TMP!HandleFetch,
                TM!HandleUpdate, TMP!HandleUpdate, TM!SpuriousWake, TMP!SpuriousWake,
                TM!HandleThrow, TMP!HandleThrow, TM!LeavesLoop, TMP!LeavesLoop,
                TM!Register, TMP!Register, TM!pusherVars, TMP!pusherVars
  <2>2. QED
    BY <2>1 DEF TMP!Next
<1>6. CASE UNCHANGED taskVars
  BY <1>6
<1>7. QED
  BY <1>1, <1>2, <1>3, <1>4, <1>5, <1>6
     DEF Next, MainStep, GoTo, Enable, StartScan, RunLock, RunStay, RunBlock, RunLeave, Visit,
         CleanupEnd, Destroy, RunSpurious, Interrupt, HandlerSet, HandlerNotify,
         AnnounceWithoutRssi, Ended, vars

\* The task manager's state keeps its types, also past an overtaken push().
LEMMA TaskTypes == Spec => []TMP!TypeOK
<1>1. Init => TMP!TypeOK
  <2>1. Init => TMP!Init
    BY DEF Init, TM!Init, TMP!Init
  <2>2. QED
    BY <2>1, TMP!TypeInit, ThreadAssumption, DeviceAssumption
<1>2. ASSUME TMP!TypeOK, [Next]_vars
      PROVE  TMP!TypeOK'
  <2>1. CASE [TMP!Next]_TMP!vars
    BY <1>2, <2>1, TMP!TypeStep, ThreadAssumption, DeviceAssumption
  <2>2. CASE DispatchOvertaken
    BY <1>2, <2>2, DeviceAssumption DEF DispatchOvertaken, taskVars, TMP!TypeOK
  <2>3. QED
    BY <1>2, <2>1, <2>2, TaskStep
<1>3. QED
  BY <1>1, <1>2, PTL DEF Spec

\* The variables of this module, without TaskManager's; and no callback outlives the proxy, the
\* ninth part to go.
SessionTypeOK ==
  /\ main \in MainPc
  /\ down \in 0..Len(Teardown)
  /\ exit \in BOOLEAN
  /\ exitMutex \in {Main, NoThread}
  /\ handler \in {"idle", "enter", "notify"}
  /\ target \in SignalTarget \union {NoThread}
  /\ interrupts \in 0..MaxInterrupts
  /\ connected \subseteq Device
  /\ toVisit \subseteq Address
  /\ due \subseteq Device
  /\ removed \subseteq Device
  /\ grown \in BOOLEAN
  /\ stale \in BOOLEAN
  /\ toVisit # {} => main \in {"cleanup", "aborted"}
  /\ main = "exited" <=> down = Len(Teardown)
  /\ down > 8 => ppc[Dispatcher] = "idle"

\* Nobody but main moves main, except an exception and the handler's notification.
LEMMA SessionTypeStep ==
  ASSUME TMP!TypeOK, SessionTypeOK, [Next]_vars
  PROVE  SessionTypeOK'
<1> USE TeardownLength, SignalAssumption, DeviceAssumption DEF SessionTypeOK
<1>1. CASE Setup \/ Enable \/ StartScan \/ RunLock \/ RunStay \/ RunBlock \/ RunSpurious
           \/ CleanupEnd
  BY <1>1 DEF Setup, Enable, StartScan, RunLock, RunStay, RunBlock, RunSpurious, CleanupEnd,
              GoTo, TM!Construct, TM!pusherVars, MainPc, runVars, cleanupVars, taskVars
<1>2. CASE RunLeave
  BY <1>2 DEF RunLeave, MainPc, taskVars
<1>3. ASSUME NEW a \in Address, Visit(a)
      PROVE  SessionTypeOK'
  <2>1. devices[a] \in connected => devices[a] \in Device
    OBVIOUS
  <2>2. removed' \subseteq Device
    BY <1>3, <2>1 DEF Visit, IsToBeRemoved, RemoveDevice
  <2>3. QED
    BY <1>3, <2>2 DEF Visit, runVars, taskVars
<1>4. ASSUME NEW part, Destroy(part)
      PROVE  SessionTypeOK'
  <2>1. down = 8 => ppc[Dispatcher] = "idle"
    BY <1>4 DEF Destroy, IsNext, Teardown
  <2>2. QED
    BY <1>4, <2>1 DEF Destroy, IsNext, MainPc, runVars, cleanupVars, taskVars
<1>5. CASE DestroyTaskManager
  <2>1. main = "teardown" /\ down = 2
    BY <1>5 DEF DestroyTaskManager, IsNext, Teardown
  <2>2. down' \in {down, down + 1}
    BY <1>5 DEF DestroyTaskManager
  <2>3. QED
    BY <1>5, <2>1, <2>2 DEF DestroyTaskManager, runVars, cleanupVars
<1>6. CASE Interrupt
  BY <1>6 DEF Interrupt, cleanupVars, taskVars
<1>7. CASE HandlerSet
  BY <1>7 DEF HandlerSet, cleanupVars, taskVars
<1>8. CASE HandlerNotify
  BY <1>8 DEF HandlerNotify, Awakened, MainPc, cleanupVars, taskVars
<1>9. ASSUME NEW d \in Device, Announce(d)
      PROVE  SessionTypeOK'
  <2>1. ~(down > 8)
    BY <1>9 DEF Announce, Subscribed, IsLive, Teardown
  <2>2. QED
    BY <1>9, <2>1 DEF Announce, runVars, cleanupVars
<1>10. CASE AnnounceWithoutRssi
  <2>1. ~(down > 8)
    BY <1>10 DEF AnnounceWithoutRssi, Subscribed, IsLive, Teardown
  <2>2. QED
    BY <1>10, <2>1 DEF AnnounceWithoutRssi, MainPc, runVars, cleanupVars, taskVars
<1>11. CASE Dispatch \/ DispatchOvertaken
  <2>1. ~(down > 8)
    BY <1>11 DEF Dispatch, DispatchOvertaken, TM!PushAppend, TM!PushNotify
  <2>2. main # "exited"
    BY <2>1
  <2>3. /\ UNCHANGED <<down, runVars, cleanupVars>>
        /\ main' \in {main, "aborted"}
        /\ stale' \in BOOLEAN
    BY <1>11 DEF Dispatch, DispatchOvertaken
  <2>4. main' # "exited" /\ main' \in MainPc
    BY <2>2, <2>3 DEF MainPc
  <2>5. toVisit' # {} => main' \in {"cleanup", "aborted"}
    BY <2>3 DEF cleanupVars
  <2>6. QED
    BY <2>1, <2>2, <2>3, <2>4, <2>5 DEF runVars, cleanupVars
<1>12. CASE Work \/ Mishap
  <2>1. UNCHANGED ppc
    BY <1>12 DEF Work, Mishap, TM!Run, TM!RunLoop, TM!RunLock, TM!RunTake, TM!RunEmpty,
                 TM!RunSleep, TM!HandleLock, TM!HandleUpdate, TM!SpuriousWake, TM!HandleThrow,
                 TM!pusherVars
  <2>2. QED
    BY <1>12, <2>1 DEF Work, Mishap, runVars, cleanupVars
<1>13. CASE Insert
  <2>1. current \in Device /\ AddressOf[current] \in Address
    BY <1>13 DEF Insert, TM!HandleInsert, TMP!TypeOK
  <2>2. /\ toVisit' \subseteq Address /\ (main # "cleanup" => toVisit' = toVisit)
        /\ grown' \in BOOLEAN
        /\ main' = main \/ (main = "cleanup" /\ main' = "aborted")
    BY <1>13, <2>1 DEF Insert
  <2>3. UNCHANGED <<down, ppc>>
    BY <1>13 DEF Insert, TM!HandleInsert, TM!pusherVars
  <2>4. QED
    BY <1>13, <2>2, <2>3 DEF Insert, MainPc, runVars
<1>14. CASE Fetch
  <2>1. current \in Device
    BY <1>14 DEF Fetch, TM!HandleFetch, TMP!TypeOK
  <2>2. UNCHANGED ppc
    BY <1>14 DEF Fetch, TM!HandleFetch, TM!pusherVars
  <2>3. QED
    BY <1>14, <2>1, <2>2 DEF Fetch, runVars
<1>15. CASE UNCHANGED vars
  BY <1>15 DEF vars, runVars, cleanupVars, taskVars
<1>16. QED
  BY <1>1, <1>2, <1>3, <1>4, <1>5, <1>6, <1>7, <1>8, <1>9, <1>10, <1>11, <1>12,
     <1>13, <1>14, <1>15
     DEF Next, MainStep, Ended

LEMMA SessionTypes == Spec => []SessionTypeOK
<1>1. ASSUME Init
      PROVE  SessionTypeOK
  <2>1. down \in 0..Len(Teardown) /\ (main = "exited" <=> down = Len(Teardown))
    BY <1>1, TeardownLength DEF Init
  <2>2. interrupts \in 0..MaxInterrupts
    BY <1>1, SignalAssumption DEF Init
  <2>3. ~(down > 8)
    BY <1>1 DEF Init
  <2>4. QED
    BY <1>1, <2>1, <2>2, <2>3 DEF Init, SessionTypeOK, MainPc
<1>2. QED
  BY <1>1, SessionTypeStep, TaskTypes, PTL DEF Spec

\* Every variable of a run keeps its type, the clean-up loop ends with nothing to visit, and
\* main is done exactly when its last part is destroyed.
THEOREM TypeCorrect == Spec => []TypeOK
<1>1. TMP!TypeOK /\ SessionTypeOK => TypeOK
  BY DEF TMP!TypeOK, TM!TypeOK, TMP!WorkerPc, TM!WorkerPc, SessionTypeOK, TypeOK
<1>2. QED
  BY <1>1, TaskTypes, SessionTypes, PTL

-------------------------------------------------------------------------------
(* The wait for SIGINT. *)

\* What makes NoLostInterrupt inductive: the predicate cv.wait has found false is still false
\* when main blocks, because main has held exitMutex since.
WaitInv ==
  /\ main \in {"test", "block"} => exitMutex = Main
  /\ main = "block" => ~exit
  /\ NoLostInterrupt

\* main never sleeps through a Ctrl-C.
THEOREM NoLostInterruptHolds == Spec => []NoLostInterrupt
<1>1. Init => WaitInv
  BY DEF Init, WaitInv, NoLostInterrupt
<1>2. ASSUME WaitInv, [Next]_vars
      PROVE  WaitInv'
  <2> USE <1>2, ThreadAssumption DEF WaitInv, NoLostInterrupt
  <2>1. CASE Setup \/ Enable \/ StartScan \/ RunLock \/ RunStay \/ RunBlock \/ RunSpurious
             \/ CleanupEnd
    BY <2>1 DEF Setup, Enable, StartScan, RunLock, RunStay, RunBlock, RunSpurious, CleanupEnd,
                GoTo, ExitWanted, runVars
  <2>2. CASE RunLeave
    BY <2>2 DEF RunLeave
  <2>3. ASSUME NEW a \in Address, Visit(a)
        PROVE  WaitInv'
    BY <2>3 DEF Visit, runVars
  <2>4. ASSUME NEW part, Destroy(part)
        PROVE  WaitInv'
    BY <2>4 DEF Destroy, IsNext, runVars
  <2>5. CASE DestroyTaskManager
    BY <2>5 DEF DestroyTaskManager, runVars
  <2>6. CASE Interrupt \/ HandlerSet
    BY <2>6 DEF Interrupt, HandlerSet, CanEnter
  <2>7. CASE HandlerNotify
    BY <2>7 DEF HandlerNotify, Awakened
  <2>8. ASSUME NEW d \in Device, Announce(d)
        PROVE  WaitInv'
    BY <2>8 DEF Announce, runVars
  <2>9. CASE AnnounceWithoutRssi
    BY <2>9 DEF AnnounceWithoutRssi, runVars
  <2>10. CASE Dispatch \/ DispatchOvertaken \/ Insert \/ Fetch \/ Work \/ Mishap
    BY <2>10 DEF Dispatch, DispatchOvertaken, Insert, Fetch, Work, Mishap, runVars
  <2>11. CASE UNCHANGED vars
    BY <2>11 DEF vars, runVars
  <2>12. QED
    BY <2>1, <2>2, <2>3, <2>4, <2>5, <2>6, <2>7, <2>8, <2>9, <2>10, <2>11
       DEF Next, MainStep, Ended
<1>3. WaitInv => NoLostInterrupt
  BY DEF WaitInv
<1>4. QED
  BY <1>1, <1>2, <1>3, PTL DEF Spec
-------------------------------------------------------------------------------
(* The order of the tear-down. *)

\* ~TaskManager, the third destructor, has joined the worker before any part it uses goes.
JoinInv ==
  /\ down > 2 => owner = "destroyed"
  /\ owner = "destroyed" => wpc = "done"

LEMMA JoinInvHolds == Spec => []JoinInv
<1>1. Init => JoinInv
  BY DEF Init, TM!Init, JoinInv
<1>2. ASSUME SessionTypeOK, JoinInv, [Next]_vars
      PROVE  JoinInv'
  <2> USE <1>2 DEF JoinInv
  <2>1. ASSUME NEW part, Destroy(part)
        PROVE  JoinInv'
    <3>1. down \in Nat
      BY TeardownLength DEF SessionTypeOK
    <3>2. Teardown[3] = "taskManager" /\ Teardown[down + 1] = part /\ part # "taskManager"
      BY <2>1 DEF Destroy, IsNext, Teardown
    <3>3. down # 2
      BY <3>2
    <3>4. QED
      BY <2>1, <3>1, <3>3 DEF Destroy, taskVars
  <2>2. CASE DestroyTaskManager
    <3>1. down = 2
      BY <2>2, TeardownLength DEF DestroyTaskManager, IsNext, Teardown, SessionTypeOK
    <3>2. QED
      BY <2>2, <3>1 DEF DestroyTaskManager, TM!RequestStop, TM!StopCallback, TM!Join, TM!Alive,
                        TM!Notified
  <2>3. CASE Setup
    BY <2>3 DEF Setup, TM!Construct
  <2>4. ASSUME NEW d \in Device, Announce(d)
        PROVE  JoinInv'
    BY <2>4 DEF Announce, TM!PushLock, taskVars
  <2>5. CASE Dispatch \/ DispatchOvertaken
    BY <2>5 DEF Dispatch, DispatchOvertaken, TM!PushAppend, TM!PushNotify, TM!Notified, taskVars
  <2>6. CASE Insert \/ Fetch \/ Work \/ Mishap
    BY <2>6 DEF Insert, Fetch, Work, Mishap, TM!HandleInsert, TM!HandleFetch, TM!Run, TM!RunLoop,
                TM!RunLock, TM!RunTake, TM!RunEmpty, TM!RunSleep, TM!HandleLock, TM!HandleUpdate,
                TM!SpuriousWake, TM!HandleThrow
  <2>7. CASE UNCHANGED <<owner, wpc, down>>
    BY <2>7
  <2>8. QED
    BY <2>1, <2>2, <2>3, <2>4, <2>5, <2>6, <2>7
       DEF Next, MainStep, Enable, StartScan, RunLock, RunStay, RunBlock, RunLeave, RunSpurious,
           CleanupEnd, GoTo, Visit, Interrupt, HandlerSet, HandlerNotify, AnnounceWithoutRssi,
           Ended, vars, taskVars
<1>3. QED
  BY <1>1, <1>2, SessionTypes, PTL DEF Spec

\* The worker uses no destroyed part.
THEOREM WorkerUsesLivePartsHolds == Spec => []WorkerUsesLiveParts
<1>1. ASSUME SessionTypeOK, JoinInv
      PROVE  WorkerUsesLiveParts
  <2>1. wpc \in {"insert", "fetch", "update"} => down \in 0..2
    BY <1>1, TeardownLength DEF SessionTypeOK, JoinInv
  <2>2. /\ Teardown[4] = "database" /\ Teardown[5] = "devicesManager" /\ Teardown[6] = "gps"
        /\ Teardown[7] = "deviceConnector" /\ Teardown[8] = "deviceClient"
        /\ Teardown[9] = "proxy" /\ Teardown[10] = "connection"
    BY DEF Teardown
  <2>3. down \in 0..2 => \A i \in 4..10 : IsLive(Teardown[i])
    BY TeardownLength DEF IsLive
  <2>4. down \in 0..2 => /\ IsLive("database") /\ IsLive("devicesManager") /\ IsLive("gps")
                         /\ IsLive("deviceConnector") /\ IsLive("deviceClient")
                         /\ IsLive("proxy") /\ IsLive("connection")
    BY <2>2, <2>3
  <2>5. QED
    BY <2>1, <2>4 DEF WorkerUsesLiveParts
<1>2. QED
  BY <1>1, JoinInvHolds, SessionTypes, PTL

-------------------------------------------------------------------------------
(* The clean-up loop. *)

Accepted == {pushed[i] : i \in 1..Len(pushed)}

\* A device object goes through the queue once, and is only connected by its own fetch.
QueueInv ==
  /\ \A i, j \in 1..Len(tasks) : tasks[i] = tasks[j] => i = j
  /\ \A i \in 1..Len(tasks) : /\ tasks[i] # current
                              /\ tasks[i] \in Accepted
                              /\ tasks[i] \notin connected
  /\ current # NoDevice => current \in Accepted
  /\ wpc \in {"handle", "insert", "fetch"} => current \notin connected
  /\ arg[Dispatcher] \notin Accepted
  /\ connected \subseteq Accepted

LEMMA QueueInvHolds == Spec => []QueueInv
<1> USE ThreadAssumption, DeviceAssumption
<1>1. ASSUME Init
      PROVE  QueueInv
  <2>1. Len(tasks) = 0 /\ Len(pushed) = 0
    BY <1>1, EmptySeq DEF Init, TM!Init
  <2>2. QED
    BY <1>1, <2>1 DEF Init, TM!Init, QueueInv, Accepted
<1>2. ASSUME TMP!TypeOK, QueueInv, [Next]_vars
      PROVE  QueueInv'
  <2> USE <1>2
  <2>1. ASSUME NEW d \in Device, Announce(d)
        PROVE  QueueInv'
    <3>1. CASE TM!PushLock(Dispatcher, d)
      <4>1. d \notin Accepted
        BY <3>1 DEF TM!PushLock, TM!Elements, Accepted
      <4>2. arg'[Dispatcher] = d
        BY <3>1 DEF TM!PushLock, TMP!TypeOK
      <4>3. QED
        BY <2>1, <3>1, <4>1, <4>2 DEF QueueInv, Accepted, Announce, TM!PushLock, cleanupVars
    <3>2. CASE UNCHANGED taskVars
      BY <2>1, <3>2 DEF QueueInv, Accepted, Announce, cleanupVars, taskVars
    <3>3. QED
      BY <2>1, <3>1, <3>2 DEF Announce
  <2>2. CASE Dispatch /\ TM!PushAppend(Dispatcher)
    <3> DEFINE d == arg[Dispatcher]
    <3>1. d \in Device
      BY <2>2 DEF TM!PushAppend, TMP!TypeOK
    <3>2. /\ tasks \in Seq(Device) /\ pushed \in Seq(Device)
          /\ Len(tasks) \in Nat /\ Len(pushed) \in Nat
      BY DEF TMP!TypeOK
    <3>3. /\ Len(tasks') = Len(tasks) + 1 /\ tasks'[Len(tasks) + 1] = d
          /\ \A i \in 1..Len(tasks) : tasks'[i] = tasks[i]
      BY <2>2, <3>1, <3>2, AppendProperties DEF TM!PushAppend, TM!Enqueue
    <3>4. /\ Len(pushed') = Len(pushed) + 1 /\ pushed'[Len(pushed) + 1] = d
          /\ \A i \in 1..Len(pushed) : pushed'[i] = pushed[i]
      BY <2>2, <3>1, <3>2, AppendProperties DEF TM!PushAppend
    <3>5. Accepted' = Accepted \union {d}
      BY <3>2, <3>4 DEF Accepted
    <3>6. UNCHANGED <<current, wpc, connected>> /\ arg'[Dispatcher] = NoDevice
      BY <2>2 DEF Dispatch, TM!PushAppend, TMP!TypeOK, cleanupVars
    <3>7. NoDevice \notin Accepted'
      <4>1. Accepted \subseteq Device
        BY <3>2 DEF Accepted
      <4>2. QED
        BY <3>1, <3>5, <4>1
    <3>8. d \notin Accepted /\ d \notin connected /\ d # current
      BY <3>1 DEF QueueInv
    <3> HIDE DEF d
    <3>9. \A i, j \in 1..Len(tasks') : tasks'[i] = tasks'[j] => i = j
      BY <3>2, <3>3, <3>8 DEF QueueInv
    <3>10. \A i \in 1..Len(tasks') : /\ tasks'[i] # current
                                     /\ tasks'[i] \in Accepted'
                                     /\ tasks'[i] \notin connected
      BY <3>2, <3>3, <3>5, <3>8 DEF QueueInv
    <3>11. QED
      BY <3>5, <3>6, <3>7, <3>9, <3>10 DEF QueueInv
  <2>3. CASE Dispatch /\ TM!PushNotify(Dispatcher)
    BY <2>3 DEF QueueInv, Accepted, Dispatch, TM!PushNotify, TM!Notified, cleanupVars
  <2>4. CASE DispatchOvertaken
    <3>1. arg' = arg \/ arg'[Dispatcher] = NoDevice
      BY <2>4 DEF DispatchOvertaken, TMP!TypeOK, taskVars
    <3>2. NoDevice \notin Accepted
      BY DEF Accepted, TMP!TypeOK
    <3>3. QED
      BY <2>4, <3>1, <3>2 DEF QueueInv, Accepted, DispatchOvertaken, cleanupVars, taskVars
  <2>5. CASE Work /\ TM!RunTake
    <3>1. /\ tasks \in Seq(Device) /\ tasks # <<>> /\ Len(tasks) \in Nat \ {0}
          /\ tasks' = Tail(tasks) /\ current' = tasks[1]
          /\ UNCHANGED <<connected, arg, pushed>>
      BY <2>5, EmptySeq DEF Work, TM!RunTake, TM!pusherVars, TMP!TypeOK, cleanupVars
    <3>2. Len(tasks') = Len(tasks) - 1 /\ \A i \in 1..Len(tasks') : tasks'[i] = tasks[i + 1]
      BY <3>1, HeadTailProperties
    <3>3. current' \in Accepted /\ current' \notin connected
      BY <3>1 DEF QueueInv
    <3>4. Accepted' = Accepted
      BY <3>1 DEF Accepted
    <3>5. \A i \in 1..Len(tasks') : i + 1 \in 1..Len(tasks) /\ i + 1 # 1
      BY <3>1, <3>2
    <3>6. \A i, j \in 1..Len(tasks') : tasks'[i] = tasks'[j] => i = j
      BY <3>1, <3>2, <3>5 DEF QueueInv
    <3>7. \A i \in 1..Len(tasks') : tasks'[i] # current'
      BY <3>1, <3>2, <3>5 DEF QueueInv
    <3>8. QED
      BY <3>1, <3>2, <3>3, <3>4, <3>5, <3>6, <3>7 DEF QueueInv
  <2>6. CASE Work /\ TM!HandleUpdate
    <3>1. NoDevice \notin {tasks[i] : i \in 1..Len(tasks)}
      BY DEF TMP!TypeOK
    <3>2. QED
      BY <2>6, <3>1 DEF QueueInv, Accepted, Work, TM!HandleUpdate, TM!pusherVars, cleanupVars
  <2>7. CASE Insert
    BY <2>7 DEF QueueInv, Accepted, Insert, TM!HandleInsert, TM!pusherVars
  <2>8. CASE Fetch
    <3>1. current \in Accepted /\ wpc' = "update" /\ UNCHANGED <<tasks, current, arg, pushed>>
      BY <2>8 DEF QueueInv, Fetch, TM!HandleFetch, TM!pusherVars, TMP!TypeOK
    <3>2. QED
      BY <2>8, <3>1 DEF QueueInv, Accepted, Fetch
  <2>9. CASE Work /\ (TM!RunLoop \/ TM!RunLock \/ TM!RunEmpty \/ TM!RunSleep \/ TM!HandleLock)
    BY <2>9 DEF QueueInv, Accepted, Work, TM!RunLoop, TM!RunLock, TM!RunEmpty, TM!RunSleep,
                TM!HandleLock, TM!LeavesLoop, TM!pusherVars, cleanupVars
  <2>10. CASE Mishap
    BY <2>10 DEF QueueInv, Accepted, Mishap, TM!SpuriousWake, TM!HandleThrow, TM!pusherVars,
                 cleanupVars
  <2>11. CASE Setup \/ DestroyTaskManager
    BY <2>11 DEF QueueInv, Accepted, Setup, DestroyTaskManager, TM!Construct, TM!RequestStop,
                 TM!StopCallback, TM!Join, TM!Notified, TM!pusherVars, cleanupVars
  <2>12. CASE UNCHANGED taskVars /\ UNCHANGED connected
    BY <2>12 DEF QueueInv, Accepted, taskVars
  <2>13. QED
    BY <2>1, <2>2, <2>3, <2>4, <2>5, <2>6, <2>7, <2>8, <2>9, <2>10, <2>11, <2>12
       DEF Next, MainStep, Enable, StartScan, RunLock, RunStay, RunBlock, RunLeave, RunSpurious,
           CleanupEnd, GoTo, Visit, Destroy, Interrupt, HandlerSet, HandlerNotify,
           AnnounceWithoutRssi, Ended, Dispatch, Work, TM!Run, vars, cleanupVars
<1>3. QED
  BY <1>1, <1>2, TaskTypes, PTL DEF Spec

\* What the loop has still to do, while the map has not grown: a device that was due is
\* removed, or lies ahead in the iteration, or has been replaced.
CleanupInv ==
  /\ due \subseteq connected
  /\ main = "cleanup" /\ ~grown =>
       \A d \in due : d \in removed \/ AddressOf[d] \in toVisit \/ devices[AddressOf[d]] # d
  /\ KnownConnectedAreRemoved

\* The clean-up loop leaves no device out that was registered and connected when it began, as
\* long as no new address is inserted under it.
THEOREM KnownConnectedAreRemovedHolds == Spec => []KnownConnectedAreRemoved
<1> USE DeviceAssumption
<1>1. Init => CleanupInv
  BY DEF Init, CleanupInv, KnownConnectedAreRemoved
<1>2. ASSUME TMP!TypeOK, SessionTypeOK, QueueInv, CleanupInv, [Next]_vars
      PROVE  CleanupInv'
  <2> USE <1>2
  <2>1. CASE RunLeave
    BY <2>1 DEF RunLeave, CleanupInv, KnownConnectedAreRemoved, taskVars, SessionTypeOK
  <2>2. ASSUME NEW a \in Address, Visit(a)
        PROVE  CleanupInv'
    BY <2>2 DEF Visit, IsToBeRemoved, RemoveDevice, CleanupInv, KnownConnectedAreRemoved, taskVars
  <2>3. CASE CleanupEnd
    BY <2>3 DEF CleanupEnd, GoTo, CleanupInv, KnownConnectedAreRemoved, taskVars, cleanupVars
  <2>4. CASE Insert
    <3>1. current \in Device /\ current \notin connected
      BY <2>4 DEF Insert, TM!HandleInsert, TMP!TypeOK, QueueInv
    <3>2. current \notin due /\ due \subseteq Device
      BY <3>1 DEF CleanupInv, SessionTypeOK
    <3>3. ASSUME NEW d \in due, devices[AddressOf[d]] # d
          PROVE  devices'[AddressOf[d]] # d
      BY <2>4, <3>1, <3>2, <3>3 DEF Insert, TM!HandleInsert, TM!Register, TMP!TypeOK
    <3>4. /\ UNCHANGED <<connected, due, removed>>
          /\ main' \in {main, "aborted"}
          /\ grown' \/ UNCHANGED <<toVisit, grown>>
      BY <2>4 DEF Insert
    <3>5. QED
      BY <3>3, <3>4 DEF CleanupInv, KnownConnectedAreRemoved
  <2>5. CASE Fetch
    BY <2>5 DEF Fetch, TM!HandleFetch, CleanupInv, KnownConnectedAreRemoved
  <2>6. CASE UNCHANGED <<devices, cleanupVars>> /\ main' # "cleanup"
             /\ (main' \in {"teardown", "exited"} => main \in {"teardown", "exited"})
    BY <2>6 DEF CleanupInv, KnownConnectedAreRemoved, cleanupVars
  <2>7. CASE UNCHANGED <<devices, cleanupVars, main>>
    BY <2>7 DEF CleanupInv, KnownConnectedAreRemoved, cleanupVars
  <2>8. CASE Setup \/ Enable \/ StartScan \/ RunLock \/ RunStay \/ RunBlock \/ RunSpurious
             \/ AnnounceWithoutRssi \/ HandlerNotify
    <3>1. UNCHANGED <<devices, cleanupVars>>
      BY <2>8 DEF Setup, Enable, StartScan, RunLock, RunStay, RunBlock, RunSpurious, GoTo,
                  AnnounceWithoutRssi, HandlerNotify, TM!Construct, taskVars
    <3>2. main' = main \/ main' \notin {"cleanup", "teardown", "exited"}
      BY <2>8 DEF Setup, Enable, StartScan, RunLock, RunStay, RunBlock, RunSpurious, GoTo,
                  AnnounceWithoutRssi, HandlerNotify, Awakened
    <3>3. QED
      BY <2>6, <2>7, <3>1, <3>2
  <2>9. ASSUME NEW part, Destroy(part)
        PROVE  CleanupInv'
    BY <2>6, <2>9 DEF Destroy, IsNext, taskVars
  <2>10. CASE DispatchOvertaken
    BY <2>6, <2>7, <2>10 DEF DispatchOvertaken, taskVars
  <2>11. CASE DestroyTaskManager \/ Dispatch \/ Work \/ Mishap
    BY <2>7, <2>11
       DEF DestroyTaskManager, TM!RequestStop, TM!StopCallback, TM!Join, Dispatch, TM!PushAppend,
           TM!PushNotify, Work, TM!Run, TM!RunLoop, TM!RunLock, TM!RunTake,
           TM!RunEmpty, TM!RunSleep, TM!HandleLock, TM!HandleUpdate, Mishap, TM!SpuriousWake,
           TM!HandleThrow
  <2>12. ASSUME NEW d \in Device, Announce(d)
         PROVE  CleanupInv'
    BY <2>7, <2>12 DEF Announce, TM!PushLock, taskVars
  <2>13. CASE Interrupt \/ HandlerSet \/ UNCHANGED vars
    BY <2>7, <2>13 DEF Interrupt, HandlerSet, taskVars, vars
  <2>14. QED
    BY <2>1, <2>2, <2>3, <2>4, <2>5, <2>8, <2>9, <2>10, <2>11, <2>12, <2>13
       DEF Next, MainStep, Ended
<1>3. CleanupInv => KnownConnectedAreRemoved
  BY DEF CleanupInv
<1>4. QED
  BY <1>1, <1>2, <1>3, TaskTypes, SessionTypes, QueueInvHolds, PTL DEF Spec
-------------------------------------------------------------------------------
(* What starts the end of a run. *)

\* Only main asks for the stop, and main gets that far only with exit set, which only
\* signalHandler does.
EndInv ==
  /\ exit => interrupts > 0
  /\ handler # "idle" => interrupts > 0
  /\ main \in {"cleanup", "teardown", "exited"} \/ down > 0 => exit
  /\ stop \/ owner \notin {"constructing", "running"} => exit
  /\ removed # {} \/ stale => exit

\* No device is removed, no thread stopped and no callback left without its object before
\* the first Ctrl-C, whatever wakes main.
THEOREM OnlyInterruptEndsHolds == Spec => []OnlyInterruptEnds
<1>1. ASSUME Init
      PROVE  EndInv
  BY <1>1 DEF Init, TM!Init, EndInv
<1>2. ASSUME SessionTypeOK, EndInv, [Next]_vars
      PROVE  EndInv'
  <2> USE <1>2 DEF EndInv
  <2>1. CASE Setup
    BY <2>1 DEF Setup, TM!Construct, TM!pusherVars, runVars, cleanupVars
  <2>2. CASE Enable \/ StartScan \/ RunLock \/ RunStay \/ RunBlock \/ RunSpurious \/ CleanupEnd
    BY <2>2 DEF Enable, StartScan, RunLock, RunStay, RunBlock, RunSpurious, CleanupEnd, GoTo,
                taskVars, cleanupVars
  <2>3. CASE RunLeave
    BY <2>3 DEF RunLeave, ExitWanted, taskVars
  <2>4. ASSUME NEW a \in Address, Visit(a)
        PROVE  EndInv'
    BY <2>4 DEF Visit, taskVars, runVars
  <2>5. ASSUME NEW part, Destroy(part)
        PROVE  EndInv'
    BY <2>5 DEF Destroy, IsNext, taskVars, runVars, cleanupVars
  <2>6. CASE DestroyTaskManager
    <3>1. exit /\ UNCHANGED <<main, runVars, cleanupVars, stale>>
      BY <2>6 DEF DestroyTaskManager, IsNext
    <3>2. QED
      BY <3>1 DEF runVars, cleanupVars
  <2>7. CASE Interrupt
    <3>1. interrupts' = interrupts + 1 /\ interrupts \in Nat
      BY <2>7, SignalAssumption DEF Interrupt, SessionTypeOK
    <3>2. QED
      BY <2>7, <3>1 DEF Interrupt, taskVars, cleanupVars
  <2>8. CASE HandlerSet
    BY <2>8 DEF HandlerSet, taskVars, cleanupVars
  <2>9. CASE HandlerNotify
    BY <2>9 DEF HandlerNotify, Awakened, taskVars, cleanupVars
  <2>10. ASSUME NEW d \in Device, Announce(d)
         PROVE  EndInv'
    <3>1. Subscribed => main # "setup"
      BY DEF Subscribed
    <3>2. ~IsLive("manager") => down > 0
      BY TeardownLength DEF IsLive, SessionTypeOK, Teardown
    <3>3. QED
      BY <2>10, <3>2 DEF Announce, TM!PushLock, taskVars, runVars, cleanupVars
  <2>11. CASE AnnounceWithoutRssi
    BY <2>11 DEF AnnounceWithoutRssi, taskVars, runVars, cleanupVars
  <2>12. CASE Dispatch \/ DispatchOvertaken
    BY <2>12 DEF Dispatch, DispatchOvertaken, TM!PushAppend, TM!PushNotify, runVars, cleanupVars,
                 taskVars
  <2>13. CASE Insert \/ Fetch \/ Work \/ Mishap
    BY <2>13 DEF Insert, Fetch, Work, Mishap, TM!HandleInsert, TM!HandleFetch, TM!Run, TM!RunLoop,
                 TM!RunLock, TM!RunTake, TM!RunEmpty, TM!RunSleep, TM!HandleLock,
                 TM!HandleUpdate, TM!SpuriousWake, TM!HandleThrow, runVars, cleanupVars
  <2>14. CASE UNCHANGED vars
    BY <2>14 DEF vars, taskVars, runVars, cleanupVars
  <2>15. QED
    BY <2>1, <2>2, <2>3, <2>4, <2>5, <2>6, <2>7, <2>8, <2>9, <2>10, <2>11, <2>12, <2>13, <2>14
       DEF Next, MainStep, Ended
<1>3. EndInv => OnlyInterruptEnds
  BY DEF EndInv, OnlyInterruptEnds
<1>4. QED
  BY <1>1, <1>2, <1>3, SessionTypes, PTL DEF Spec

-------------------------------------------------------------------------------
(* The task manager in the program. *)

\* Session is no specification of TaskManager's: once main has destroyed it, the rest of a
\* push() runs on.  That step moves no task, and the worker has ended before.
LEMMA TaskInvKept == Spec => []TMP!TaskInv
<1> USE ThreadAssumption, DeviceAssumption
<1>1. ASSUME Init
      PROVE  TMP!TaskInv
  <2>1. TMP!Init
    BY <1>1 DEF Init, TM!Init, TMP!Init
  <2>2. QED
    BY <2>1, TMP!TaskInvInit
<1>2. ASSUME TMP!TypeOK, TMP!TypeOK', JoinInv, TMP!TaskInv, [Next]_vars
      PROVE  TMP!TaskInv'
  <2>1. CASE [TMP!Next]_TMP!vars
    BY <1>2, <2>1, TMP!TaskInvStep
  <2>2. CASE DispatchOvertaken /\ UNCHANGED taskVars
    <3>1. UNCHANGED TMP!vars
      BY <2>2 DEF taskVars, TMP!vars
    <3>2. QED
      BY <1>2, <3>1, TMP!TaskInvStep
  <2>3. CASE DispatchOvertaken /\ ~UNCHANGED taskVars
    <3>1. wpc = "done" /\ owner = "destroyed" /\ ppc[Dispatcher] # "idle"
      BY <1>2, <2>3 DEF DispatchOvertaken, JoinInv
    <3>2. ppc'[Dispatcher] = "idle"
      BY <1>2, <2>3 DEF DispatchOvertaken, TMP!TypeOK
    <3>3. mutex' = NoThread
      BY <1>2, <2>3, <3>1 DEF DispatchOvertaken, TMP!TaskInv, TMP!TypeOK, TMP!LockDiscipline
    <3>4. UNCHANGED <<tasks, wpc, current, stop, owner, devices, pushed, stored>>
      BY <2>3 DEF DispatchOvertaken
    <3>5. TMP!LockDiscipline'
      BY <3>1, <3>2, <3>3, <3>4 DEF TMP!LockDiscipline
    <3>6. TMP!WakeupInv' /\ TMP!EmptyUntilConstructed' /\ TMP!StopOnce'
      BY <1>2, <3>1, <3>4 DEF TMP!TaskInv, TMP!WakeupInv, TMP!SleepsOnEmpty, TMP!NoLostWakeup,
                              TMP!EmptyUntilConstructed, TMP!StopOnce
    <3>7. UNCHANGED <<TMP!InHand, TMP!Registered>>
      BY <3>4 DEF TMP!InHand, TMP!Registered
    <3>8. TMP!FifoConservation' /\ TMP!RegistryIsNewest'
      BY <1>2, <3>4, <3>7 DEF TMP!TaskInv, TMP!FifoConservation, TMP!RegistryIsNewest
    <3>9. QED
      BY <1>2, <3>5, <3>6, <3>8 DEF TMP!TaskInv
  <2>4. QED
    BY <1>2, <2>1, <2>2, <2>3, TaskStep
<1>3. QED
  BY <1>1, <1>2, TaskTypes, JoinInvHolds, PTL DEF Spec

-------------------------------------------------------------------------------
(* Who waits for whom. *)

\* Main holds exitMutex only inside run(), or when an exception ends the process there.
HolderInv ==
  /\ exitMutex \in {Main, NoThread}
  /\ exitMutex = Main => main \in {"test", "block", "aborted"}

LEMMA HolderInvHolds == Spec => []HolderInv
<1>1. Init => HolderInv
  BY ThreadAssumption DEF Init, HolderInv
<1>2. ASSUME HolderInv, [Next]_vars
      PROVE  HolderInv'
  <2> USE <1>2, ThreadAssumption DEF HolderInv
  <2>1. CASE Setup \/ Enable \/ StartScan \/ RunLock \/ RunStay \/ RunBlock \/ RunSpurious
             \/ RunLeave \/ CleanupEnd
    BY <2>1 DEF Setup, Enable, StartScan, RunLock, RunStay, RunBlock, RunSpurious, RunLeave,
                CleanupEnd, GoTo, runVars
  <2>2. ASSUME NEW a \in Address, Visit(a)
        PROVE  HolderInv'
    BY <2>2 DEF Visit, runVars
  <2>3. ASSUME NEW part, Destroy(part)
        PROVE  HolderInv'
    BY <2>3 DEF Destroy, IsNext, runVars
  <2>4. CASE DestroyTaskManager
    BY <2>4 DEF DestroyTaskManager, runVars
  <2>5. CASE Interrupt \/ HandlerSet \/ HandlerNotify
    BY <2>5 DEF Interrupt, HandlerSet, HandlerNotify, Awakened
  <2>6. ASSUME NEW d \in Device, Announce(d)
        PROVE  HolderInv'
    BY <2>6 DEF Announce, runVars
  <2>7. CASE AnnounceWithoutRssi \/ Dispatch \/ DispatchOvertaken \/ Insert \/ Fetch \/ Work
             \/ Mishap
    BY <2>7 DEF AnnounceWithoutRssi, Dispatch, DispatchOvertaken, Insert, Fetch, Work, Mishap,
                runVars
  <2>8. CASE UNCHANGED vars
    BY <2>8 DEF vars, runVars
  <2>9. QED
    BY <2>1, <2>2, <2>3, <2>4, <2>5, <2>6, <2>7, <2>8 DEF Next, MainStep, Ended
<1>3. QED
  BY <1>1, <1>2, PTL DEF Spec

\* No two threads wait for each other, and main waits for itself only when SIGINT interrupts
\* it inside run(): worker and callback need mutex_ alone, which neither holds while it waits,
\* and nobody waits for main once it has begun to join and to destroy.
THEOREM OnlyMainWaitsForItselfHolds == Spec => []OnlyMainWaitsForItself
<1>1. ASSUME TMP!TaskInv, HolderInv
      PROVE  OnlyMainWaitsForItself
  <2> DEFINE Thread == {Main, Dispatcher, Worker}
  <2> SUFFICES ASSUME Running,
                      NEW circle \in (SUBSET Thread) \ {{}},
                      \A t \in circle : \E u \in circle : WaitsFor(t, u)
               PROVE  circle = {Main} /\ target = Main /\ main \in {"test", "block"}
    BY DEF OnlyMainWaitsForItself
  <2> USE ThreadAssumption
  <2>1. /\ mutex \in {Dispatcher, Worker, NoThread}
        /\ mutex = Worker <=> wpc \in {"test", "sleep", "insert"}
        /\ mutex = Dispatcher <=> ppc[Dispatcher] = "append"
    BY <1>1 DEF TMP!TaskInv, TMP!TypeOK, TMP!LockDiscipline
  <2>2. /\ exitMutex \in {Main, NoThread}
        /\ exitMutex = Main => main \in {"test", "block"}
    BY <1>1 DEF HolderInv, Running
  <2>3. ASSUME NEW u \in Thread, WaitsFor(Worker, u)
        PROVE  \/ u = Main /\ target = Worker /\ exitMutex = Main
               \/ u = Dispatcher /\ ppc[Dispatcher] = "append"
    BY <2>1, <2>2, <2>3 DEF WaitsFor
  <2>4. ASSUME NEW u \in Thread, WaitsFor(Dispatcher, u)
        PROVE  \/ u = Main /\ target = Dispatcher /\ exitMutex = Main
               \/ u = Worker /\ ppc[Dispatcher] = "idle"
    BY <2>1, <2>2, <2>4 DEF WaitsFor
  <2>5. ASSUME NEW u \in Thread, WaitsFor(Main, u)
        PROVE  \/ u = Main /\ target = Main /\ exitMutex = Main
               \/ u # Main /\ main = "teardown"
    BY <2>2, <2>5 DEF WaitsFor, IsNext
  <2>6. CASE exitMutex # Main
    <3>1. Worker \in circle => Dispatcher \in circle /\ ppc[Dispatcher] = "append"
      BY <2>3, <2>6
    <3>2. Dispatcher \in circle => Worker \in circle /\ ppc[Dispatcher] = "idle"
      BY <2>4, <2>6
    <3>3. Main \notin circle
      BY <2>5, <2>6, <3>1, <3>2
    <3>4. QED
      BY <3>1, <3>2, <3>3
  <2>7. CASE exitMutex = Main
    <3>1. main \in {"test", "block"}
      BY <2>2, <2>7
    <3>2. Main \in circle
      BY <2>3, <2>4
    <3>3. target = Main
      BY <2>5, <3>1, <3>2
    <3>4. Worker \notin circle /\ Dispatcher \notin circle
      BY <2>3, <2>4, <3>3
    <3>5. QED
      BY <3>1, <3>2, <3>3, <3>4
  <2>8. QED
    BY <2>6, <2>7
<1>2. QED
  BY <1>1, TaskInvKept, HolderInvHolds, PTL
===============================================================================
