-------------------------- MODULE TaskManager_proofs --------------------------
(***************************************************************************)
(* Proofs about TaskManager, for any number of pushers and of devices: its *)
(* typing, its lock discipline, the absence of lost wake-ups, its queue    *)
(* and its registry, and that it implements DeviceFeed.                    *)
(***************************************************************************)
EXTENDS TaskManager, SequenceTheorems, TLAPS

(* Typing.  The two lemmas are of use to a module that composes TaskManager with others. *)

LEMMA TypeInit ==
  ASSUME Init
  PROVE  TypeOK
<1>1. <<>> \in Seq(Device)
  BY EmptySeq
<1>2. QED
  BY <1>1, DeviceAssumption, ThreadAssumption DEF Init, TypeOK, WorkerPc

LEMMA TypeStep ==
  ASSUME TypeOK, [Next]_vars
  PROVE  TypeOK'
<1> USE DeviceAssumption, ThreadAssumption
<1>1. ASSUME NEW p \in Pusher, NEW d \in Device, PushLock(p, d)
      PROVE  TypeOK'
  BY <1>1 DEF TypeOK, PushLock
<1>2. ASSUME NEW p \in Pusher, PushAppend(p)
      PROVE  TypeOK'
  <2>1. arg[p] \in Device
    BY <1>2 DEF TypeOK, PushAppend
  <2>2. tasks' \in Seq(Device) /\ pushed' \in Seq(Device)
    BY <1>2, <2>1, AppendProperties DEF TypeOK, PushAppend, Enqueue
  <2>3. QED
    BY <1>2, <2>2 DEF TypeOK, PushAppend
<1>3. ASSUME NEW p \in Pusher, PushNotify(p)
      PROVE  TypeOK'
  BY <1>3 DEF TypeOK, PushNotify, Notified, WorkerPc
<1>4. ASSUME RunLoop \/ RunLock \/ RunEmpty \/ RunSleep \/ SpuriousWake
      PROVE  TypeOK'
  BY <1>4 DEF TypeOK, RunLoop, RunLock, RunEmpty, RunSleep, SpuriousWake,
              WorkerPc, LeavesLoop, pusherVars
<1>5. ASSUME RunTake
      PROVE  TypeOK'
  <2>1. Head(tasks) \in Device /\ Tail(tasks) \in Seq(Device)
    BY <1>5, HeadTailProperties DEF TypeOK, RunTake
  <2>2. QED
    BY <1>5, <2>1 DEF TypeOK, RunTake, WorkerPc, pusherVars
<1>6. ASSUME HandleLock \/ HandleFetch \/ HandleThrow
      PROVE  TypeOK'
  BY <1>6 DEF TypeOK, HandleLock, HandleFetch, HandleThrow, WorkerPc, pusherVars
<1>7. ASSUME HandleInsert
      PROVE  TypeOK'
  BY <1>7 DEF TypeOK, HandleInsert, Register, WorkerPc, pusherVars
<1>8. ASSUME HandleUpdate
      PROVE  TypeOK'
  <2>1. stored' \in Seq(Device)
    BY <1>8, AppendProperties DEF TypeOK, HandleUpdate
  <2>2. QED
    BY <1>8, <2>1 DEF TypeOK, HandleUpdate, WorkerPc, pusherVars
<1>9. ASSUME Construct \/ RequestStop \/ StopCallback \/ Join
      PROVE  TypeOK'
  BY <1>9 DEF TypeOK, Construct, RequestStop, StopCallback, Join, Notified, WorkerPc, pusherVars
<1>10. ASSUME UNCHANGED vars
       PROVE  TypeOK'
  BY <1>10 DEF TypeOK, vars
<1>11. QED
  BY <1>1, <1>2, <1>3, <1>4, <1>5, <1>6, <1>7, <1>8, <1>9, <1>10
     DEF Next, Push, Run, Handle, Destroy, Terminated

\* Every variable keeps its type, and a device is in the hands of a thread exactly in the
\* regions of push, run and handle where the code holds one.
THEOREM TypeCorrect == Spec => []TypeOK
BY TypeInit, TypeStep, PTL DEF Spec

-------------------------------------------------------------------------------
\* Nobody holds mutex_ at first, and every thread that takes it moves to a region of its own.
LEMMA LockInit == Init => LockDiscipline
BY ThreadAssumption DEF Init, LockDiscipline

LEMMA LockStep ==
  ASSUME TypeOK, LockDiscipline, [Next]_vars
  PROVE  LockDiscipline'
<1> USE ThreadAssumption
<1>1. ASSUME NEW p \in Pusher, NEW d \in Device, PushLock(p, d)
      PROVE  LockDiscipline'
  BY <1>1 DEF LockDiscipline, TypeOK, PushLock
<1>2. ASSUME NEW p \in Pusher, PushAppend(p)
      PROVE  LockDiscipline'
  BY <1>2 DEF LockDiscipline, TypeOK, PushAppend
<1>3. ASSUME NEW p \in Pusher, PushNotify(p)
      PROVE  LockDiscipline'
  BY <1>3 DEF LockDiscipline, TypeOK, PushNotify, Notified
<1>4. ASSUME RunLoop \/ RunLock \/ RunEmpty \/ RunTake
      PROVE  LockDiscipline'
  BY <1>4 DEF LockDiscipline, RunLoop, RunLock, RunEmpty, RunTake, LeavesLoop, pusherVars
<1>5. ASSUME RunSleep \/ SpuriousWake
      PROVE  LockDiscipline'
  BY <1>5 DEF LockDiscipline, RunSleep, SpuriousWake, pusherVars
<1>6. ASSUME HandleLock \/ HandleInsert \/ HandleFetch \/ HandleUpdate \/ HandleThrow
      PROVE  LockDiscipline'
  BY <1>6 DEF LockDiscipline, HandleLock, HandleInsert, HandleFetch, HandleUpdate,
              HandleThrow, pusherVars
<1>7. ASSUME Construct \/ RequestStop \/ StopCallback \/ Join
      PROVE  LockDiscipline'
  BY <1>7 DEF LockDiscipline, Construct, RequestStop, StopCallback, Join, Notified, pusherVars
<1>8. ASSUME UNCHANGED vars
      PROVE  LockDiscipline'
  BY <1>8 DEF LockDiscipline, vars
<1>9. QED
  BY <1>1, <1>2, <1>3, <1>4, <1>5, <1>6, <1>7, <1>8
     DEF Next, Push, Run, Handle, Destroy, Terminated

\* At most one thread is between a lock and its unlock: mutex_ is held by exactly the
\* thread whose position says so, in push, in run and in handle.
THEOREM LockDisciplineHolds == Spec => []LockDiscipline
BY LockInit, LockStep, TypeCorrect, PTL DEF Spec

-------------------------------------------------------------------------------
\* The strengthening that makes NoLostWakeup inductive: the predicate that cv_.wait has
\* just found false is still false when it blocks, because mutex_ is held in between.
SleepsOnEmpty == wpc = "sleep" => tasks = <<>>

WakeupInv == SleepsOnEmpty /\ NoLostWakeup

LEMMA WakeupInit == Init => WakeupInv
BY DEF Init, WakeupInv, SleepsOnEmpty, NoLostWakeup

LEMMA WakeupStep ==
  ASSUME TypeOK, LockDiscipline, WakeupInv, [Next]_vars
  PROVE  WakeupInv'
<1>1. ASSUME NEW p \in Pusher, NEW d \in Device, PushLock(p, d)
      PROVE  WakeupInv'
  BY <1>1 DEF WakeupInv, SleepsOnEmpty, NoLostWakeup, TypeOK, PushLock
<1>2. ASSUME NEW p \in Pusher, PushAppend(p)
      PROVE  WakeupInv'
  <2>1. wpc # "sleep"
    BY <1>2, ThreadAssumption DEF LockDiscipline, PushAppend
  <2>2. ppc'[p] = "notify"
    BY <1>2 DEF TypeOK, PushAppend
  <2>3. QED
    BY <1>2, <2>1, <2>2 DEF WakeupInv, SleepsOnEmpty, NoLostWakeup, PushAppend
<1>3. ASSUME NEW p \in Pusher, PushNotify(p)
      PROVE  WakeupInv'
  BY <1>3 DEF WakeupInv, SleepsOnEmpty, NoLostWakeup, PushNotify, Notified
<1>4. ASSUME RunLoop \/ RunLock \/ RunTake \/ RunEmpty \/ SpuriousWake
      PROVE  WakeupInv'
  BY <1>4 DEF WakeupInv, SleepsOnEmpty, NoLostWakeup, RunLoop, RunLock, RunTake,
              RunEmpty, SpuriousWake, LeavesLoop
<1>5. ASSUME RunSleep
      PROVE  WakeupInv'
  BY <1>5 DEF WakeupInv, SleepsOnEmpty, NoLostWakeup, RunSleep
<1>6. ASSUME HandleLock \/ HandleInsert \/ HandleFetch \/ HandleUpdate \/ HandleThrow
      PROVE  WakeupInv'
  BY <1>6 DEF WakeupInv, SleepsOnEmpty, NoLostWakeup, HandleLock, HandleInsert,
              HandleFetch, HandleUpdate, HandleThrow
<1>7. ASSUME Construct \/ RequestStop \/ StopCallback \/ Join
      PROVE  WakeupInv'
  BY <1>7 DEF WakeupInv, SleepsOnEmpty, NoLostWakeup, Construct, RequestStop, StopCallback, Join,
              Notified, pusherVars
<1>8. ASSUME UNCHANGED vars
      PROVE  WakeupInv'
  BY <1>8 DEF WakeupInv, SleepsOnEmpty, NoLostWakeup, vars
<1>9. QED
  BY <1>1, <1>2, <1>3, <1>4, <1>5, <1>6, <1>7, <1>8
     DEF Next, Push, Run, Handle, Destroy, Terminated

\* The worker never sleeps through a queued task or through ~TaskManager: the notification
\* that ends its sleep is always still to come.
THEOREM NoWakeupIsLost == Spec => []NoLostWakeup
<1>1. WakeupInv => NoLostWakeup
  BY DEF WakeupInv
<1>2. QED
  BY <1>1, WakeupInit, WakeupStep, TypeCorrect, LockDisciplineHolds, PTL DEF Spec

-------------------------------------------------------------------------------
\* Before its constructor has returned, no task has reached the object.
EmptyUntilConstructed ==
  owner = "constructing" => /\ tasks = <<>>
                            /\ wpc \in {"loop", "lock", "test", "sleep", "asleep", "done"}
                            /\ \A p \in Pusher : ppc[p] = "idle"

LEMMA EmptyInit == Init => EmptyUntilConstructed
BY DEF Init, EmptyUntilConstructed

LEMMA EmptyStep ==
  ASSUME TypeOK, EmptyUntilConstructed, [Next]_vars
  PROVE  EmptyUntilConstructed'
<1>1. ASSUME NEW p \in Pusher, NEW d \in Device, PushLock(p, d)
      PROVE  EmptyUntilConstructed'
  BY <1>1 DEF EmptyUntilConstructed, PushLock
<1>2. ASSUME NEW p \in Pusher, PushAppend(p) \/ PushNotify(p)
      PROVE  EmptyUntilConstructed'
  BY <1>2 DEF EmptyUntilConstructed, PushAppend, PushNotify
<1>3. ASSUME RunLoop \/ RunLock \/ RunTake \/ RunEmpty \/ RunSleep \/ SpuriousWake
      PROVE  EmptyUntilConstructed'
  BY <1>3 DEF EmptyUntilConstructed, RunLoop, RunLock, RunTake, RunEmpty, RunSleep,
              SpuriousWake, pusherVars
<1>4. ASSUME HandleLock \/ HandleInsert \/ HandleFetch \/ HandleUpdate \/ HandleThrow
      PROVE  EmptyUntilConstructed'
  BY <1>4 DEF EmptyUntilConstructed, HandleLock, HandleInsert, HandleFetch, HandleUpdate,
              HandleThrow
<1>5. ASSUME Construct \/ RequestStop \/ StopCallback \/ Join
      PROVE  EmptyUntilConstructed'
  BY <1>5 DEF EmptyUntilConstructed, Construct, RequestStop, StopCallback, Join
<1>6. ASSUME UNCHANGED vars
      PROVE  EmptyUntilConstructed'
  BY <1>6 DEF EmptyUntilConstructed, vars
<1>7. QED
  BY <1>1, <1>2, <1>3, <1>4, <1>5, <1>6
     DEF Next, Push, Run, Handle, Destroy, Terminated

\* The worker uses the reference members only after the constructor has bound them, although
\* its thread is started first.
THEOREM ReferencesAreBoundHolds == Spec => []ReferencesAreBound
<1>1. EmptyUntilConstructed => ReferencesAreBound
  BY DEF EmptyUntilConstructed, ReferencesAreBound
<1>2. QED
  BY <1>1, EmptyInit, EmptyStep, TypeCorrect, PTL DEF Spec

-------------------------------------------------------------------------------
(* Where the devices are. *)

\* The sequences the code moves devices along are sequences of devices.
LEMMA InHandType ==
  ASSUME TypeOK
  PROVE  InHand \in Seq(Device) /\ stored \o InHand \in Seq(Device)
<1>1. InHand \in Seq(Device)
  BY EmptySeq DEF TypeOK, InHand
<1>2. QED
  BY <1>1, ConcatProperties DEF TypeOK

\* push_back keeps what was accepted in order: the new device follows all the others.
LEMMA AppendToConcat ==
  ASSUME NEW S, NEW s \in Seq(S), NEW t \in Seq(S), NEW e \in S
  PROVE  Append(s \o t, e) = s \o Append(t, e)
<1>1. <<e>> \in Seq(S) /\ s \o t \in Seq(S)
  BY ConcatProperties
<1>2. Append(s \o t, e) = (s \o t) \o <<e>> /\ Append(t, e) = t \o <<e>>
  BY <1>1, AppendIsConcat
<1>3. QED
  BY <1>1, <1>2, ConcatAssociative

\* Taking the front moves a device across the border between done and queued.
LEMMA ConsHead ==
  ASSUME NEW S, NEW t \in Seq(S), t # <<>>
  PROVE  t = <<Head(t)>> \o Tail(t)
<1> DEFINE u == <<Head(t)>> \o Tail(t)
<1>1. /\ Head(t) \in S
      /\ Tail(t) \in Seq(S)
      /\ Len(Tail(t)) = Len(t) - 1
      /\ \A i \in 1..Len(Tail(t)) : Tail(t)[i] = t[i + 1]
  BY HeadTailProperties
<1>2. <<Head(t)>> \in Seq(S) /\ Len(<<Head(t)>>) = 1 /\ <<Head(t)>>[1] = t[1]
  BY <1>1
<1>3. Len(t) \in Nat \ {0}
  BY EmptySeq
<1>4. /\ u \in Seq(S)
      /\ Len(u) = 1 + (Len(t) - 1)
      /\ \A i \in 1..(1 + Len(Tail(t))) :
           u[i] = IF i <= 1 THEN <<Head(t)>>[i] ELSE Tail(t)[i - 1]
  BY <1>1, <1>2, ConcatProperties
<1>5. ASSUME NEW i \in 1..Len(t)
      PROVE  t[i] = u[i]
  BY <1>1, <1>2, <1>3, <1>4
<1>6. Len(u) = Len(t)
  BY <1>3, <1>4
<1> HIDE DEF u
<1>7. t = u
  BY <1>4, <1>5, <1>6, SeqEqual
<1>8. QED
  BY <1>7 DEF u

\* Every step moves a device along, from the pusher to the queue, the worker and the store.
LEMMA FifoInit == Init => FifoConservation
<1> SUFFICES ASSUME Init
             PROVE  FifoConservation
  OBVIOUS
<1>1. <<>> \o <<>> = <<>>
  BY EmptySeq, ConcatEmptySeq
<1>2. QED
  BY <1>1 DEF Init, FifoConservation, InHand

LEMMA FifoStep ==
  ASSUME TypeOK, TypeOK', FifoConservation, [Next]_vars
  PROVE  FifoConservation'
<1>1. ASSUME NEW p \in Pusher, NEW d \in Device, PushLock(p, d)
      PROVE  FifoConservation'
  BY <1>1 DEF FifoConservation, InHand, PushLock
<1>2. ASSUME NEW p \in Pusher, PushAppend(p)
      PROVE  FifoConservation'
  <2>1. arg[p] \in Device
    BY <1>2 DEF TypeOK, PushAppend
  <2>2. tasks \in Seq(Device) /\ stored \o InHand \in Seq(Device)
    BY InHandType DEF TypeOK
  <2>3. Append((stored \o InHand) \o tasks, arg[p]) = (stored \o InHand) \o Append(tasks, arg[p])
    BY <2>1, <2>2, AppendToConcat
  <2>4. QED
    BY <1>2, <2>3 DEF FifoConservation, InHand, PushAppend, Enqueue
<1>3. ASSUME NEW p \in Pusher, PushNotify(p)
      PROVE  FifoConservation'
  BY <1>3 DEF FifoConservation, InHand, PushNotify
<1>4. ASSUME RunLoop \/ RunLock \/ RunEmpty \/ RunSleep \/ SpuriousWake
      PROVE  FifoConservation'
  BY <1>4 DEF FifoConservation, InHand, RunLoop, RunLock, RunEmpty, RunSleep, SpuriousWake
<1>5. ASSUME RunTake
      PROVE  FifoConservation'
  <2>1. current = NoDevice /\ current' # NoDevice
    BY <1>5 DEF TypeOK, RunTake
  <2>2. InHand = <<>> /\ InHand' = <<Head(tasks)>>
    BY <1>5, <2>1 DEF InHand, RunTake
  <2>3. Head(tasks) \in Device /\ Tail(tasks) \in Seq(Device) /\ <<Head(tasks)>> \in Seq(Device)
    BY <1>5, HeadTailProperties DEF TypeOK, RunTake
  <2>4. (stored \o <<>>) \o tasks = stored \o (<<Head(tasks)>> \o Tail(tasks))
    BY <1>5, ConsHead, ConcatEmptySeq DEF TypeOK, RunTake
  <2>5. stored \o (<<Head(tasks)>> \o Tail(tasks)) = (stored \o <<Head(tasks)>>) \o Tail(tasks)
    <3>1. stored \in Seq(Device)
      BY DEF TypeOK
    <3>2. QED
      BY <2>3, <3>1, ConcatAssociative
  <2>6. QED
    BY <1>5, <2>2, <2>4, <2>5 DEF FifoConservation, RunTake
<1>6. ASSUME HandleLock \/ HandleInsert \/ HandleFetch \/ HandleThrow
      PROVE  FifoConservation'
  BY <1>6 DEF FifoConservation, InHand, HandleLock, HandleInsert, HandleFetch, HandleThrow
<1>7. ASSUME HandleUpdate
      PROVE  FifoConservation'
  <2>1. current \in Device
    BY <1>7 DEF TypeOK, HandleUpdate
  <2>2. InHand = <<current>> /\ InHand' = <<>>
    BY <1>7, <2>1, DeviceAssumption DEF InHand, HandleUpdate
  <2>3. stored' = stored \o <<current>>
    BY <1>7, <2>1, AppendIsConcat DEF TypeOK, HandleUpdate
  <2>4. stored' \o <<>> = stored'
    BY ConcatEmptySeq DEF TypeOK
  <2>5. QED
    BY <1>7, <2>2, <2>3, <2>4 DEF FifoConservation, HandleUpdate
<1>8. ASSUME Construct \/ RequestStop \/ StopCallback \/ Join
      PROVE  FifoConservation'
  BY <1>8 DEF FifoConservation, InHand, Construct, RequestStop, StopCallback, Join
<1>9. ASSUME UNCHANGED vars
      PROVE  FifoConservation'
  BY <1>9 DEF FifoConservation, InHand, vars
<1>10. QED
  BY <1>1, <1>2, <1>3, <1>4, <1>5, <1>6, <1>7, <1>8, <1>9
     DEF Next, Push, Run, Handle, Destroy, Terminated

\* No task is lost, duplicated or reordered between push() and updateDevice.
THEOREM FifoConservationHolds == Spec => []FifoConservation
BY FifoInit, FifoStep, TypeCorrect, PTL DEF Spec

-------------------------------------------------------------------------------
(* The session registry. *)

\* The registry and the devices registered so far change together, in one step of handle.
LEMMA RegisteredStep ==
  ASSUME TypeOK, TypeOK', [Next]_vars
  PROVE  \/ UNCHANGED <<Registered, devices>>
         \/ /\ HandleInsert
            /\ current \in Device
            /\ Registered = stored
            /\ Registered' = Append(stored, current)
<1>1. CASE HandleInsert
  <2>1. current \in Device /\ InHand' = <<current>> /\ stored' = stored
    BY <1>1, DeviceAssumption DEF TypeOK, HandleInsert, InHand
  <2>2. Append(stored, current) = stored \o <<current>>
    BY <2>1, AppendIsConcat DEF TypeOK
  <2>3. QED
    BY <1>1, <2>1, <2>2 DEF HandleInsert, Registered
<1>2. CASE HandleUpdate
  <2>1. current \in Device /\ InHand = <<current>>
    BY <1>2, DeviceAssumption DEF TypeOK, HandleUpdate, InHand
  <2>2. Append(stored, current) = stored \o <<current>>
    BY <2>1, AppendIsConcat DEF TypeOK
  <2>3. QED
    BY <1>2, <2>1, <2>2 DEF HandleUpdate, Registered
<1>3. CASE HandleLock \/ HandleFetch \/ HandleThrow
  BY <1>3 DEF HandleLock, HandleFetch, HandleThrow, Registered, InHand
<1>4. CASE RunLoop \/ RunLock \/ RunTake \/ RunEmpty \/ RunSleep \/ SpuriousWake
  BY <1>4 DEF RunLoop, RunLock, RunTake, RunEmpty, RunSleep, SpuriousWake, Registered
<1>5. CASE Construct \/ RequestStop \/ StopCallback \/ Join
  BY <1>5 DEF Construct, RequestStop, StopCallback, Join, Notified, Registered, InHand
<1>6. ASSUME NEW p \in Pusher, NEW d \in Device, PushLock(p, d)
      PROVE  UNCHANGED <<Registered, devices>>
  BY <1>6 DEF PushLock, Registered, InHand
<1>7. ASSUME NEW p \in Pusher, PushAppend(p) \/ PushNotify(p)
      PROVE  UNCHANGED <<Registered, devices>>
  BY <1>7 DEF PushAppend, PushNotify, Notified, Registered, InHand
<1>8. CASE UNCHANGED vars
  BY <1>8 DEF vars, Registered, InHand
<1>9. QED
  BY <1>1, <1>2, <1>3, <1>4, <1>5, <1>6, <1>7, <1>8
     DEF Next, Push, Run, Handle, Destroy, Terminated

LEMMA RegistryInit == Init => RegistryIsNewest
<1> SUFFICES ASSUME Init
             PROVE  RegistryIsNewest
  OBVIOUS
<1>1. Registered = <<>> /\ Len(Registered) = 0
  BY EmptySeq DEF Init, Registered
<1>2. QED
  BY <1>1 DEF Init, RegistryIsNewest

LEMMA RegistryStep ==
  ASSUME TypeOK, TypeOK', RegistryIsNewest, [Next]_vars
  PROVE  RegistryIsNewest'
<1>1. CASE UNCHANGED <<Registered, devices>>
  BY <1>1 DEF RegistryIsNewest
<1>2. CASE /\ HandleInsert
           /\ current \in Device
           /\ Registered = stored
           /\ Registered' = Append(stored, current)
  <2> DEFINE n == Len(stored)
             Seen(a) == {i \in 1..n : AddressOf[stored[i]] = a}
             SeenNow(a) == {i \in 1..(n + 1) : AddressOf[Registered'[i]] = a}
  <2>1. stored \in Seq(Device) /\ n \in Nat
    BY LenProperties DEF TypeOK
  <2>2. /\ Len(Registered') = n + 1
        /\ \A i \in 1..n : Registered'[i] = stored[i]
        /\ Registered'[n + 1] = current
    BY <1>2, <2>1, AppendProperties
  <2>3. /\ devices'[AddressOf[current]] = current
        /\ \A a \in Address \ {AddressOf[current]} : devices'[a] = devices[a]
    BY <1>2, DeviceAssumption DEF TypeOK, HandleInsert, Register
  <2>4. ASSUME NEW a \in Address
        PROVE  IF SeenNow(a) = {} THEN devices'[a] = NoDevice
               ELSE \E i \in SeenNow(a) : /\ \A j \in SeenNow(a) : j <= i
                                          /\ devices'[a] = Registered'[i]
    <3>1. CASE a = AddressOf[current]
      <4>1. n + 1 \in SeenNow(a) /\ \A j \in SeenNow(a) : j <= n + 1
        BY <2>1, <2>2, <3>1
      <4>2. QED
        BY <2>2, <2>3, <3>1, <4>1
    <3>2. CASE a # AddressOf[current]
      <4>1. SeenNow(a) = Seen(a)
        BY <2>1, <2>2, <3>2
      <4>2. IF Seen(a) = {} THEN devices[a] = NoDevice
            ELSE \E i \in Seen(a) : (\A j \in Seen(a) : j <= i) /\ devices[a] = stored[i]
        BY <1>2 DEF RegistryIsNewest
      <4>3. \A i \in Seen(a) : Registered'[i] = stored[i]
        BY <2>2
      <4>4. devices'[a] = devices[a]
        BY <2>3, <3>2
      <4> HIDE DEF SeenNow, Seen
      <4>5. QED
        BY <4>1, <4>2, <4>3, <4>4
    <3>3. QED
      BY <3>1, <3>2
  <2>5. QED
    BY <2>2, <2>4 DEF RegistryIsNewest
<1>3. QED
  BY <1>1, <1>2, RegisteredStep

\* The registry holds, for every address, the device object registered last.
THEOREM RegistryIsNewestHolds == Spec => []RegistryIsNewest
BY RegistryInit, RegistryStep, TypeCorrect, PTL DEF Spec

-------------------------------------------------------------------------------
(* The refinement of DeviceFeed. *)

\* The stop token is only triggered by ~TaskManager, which runs once.
StopOnce == owner \in {"constructing", "running"} => ~stop

LEMMA StopInit == Init => StopOnce
BY DEF Init, StopOnce

LEMMA StopStep ==
  ASSUME StopOnce, [Next]_vars
  PROVE  StopOnce'
BY DEF StopOnce, Next, vars, Push, PushLock, PushAppend, PushNotify, Run, RunLoop,
       RunLock, RunTake, RunEmpty, RunSleep, SpuriousWake, Handle, HandleLock,
       HandleInsert, HandleFetch, HandleUpdate, HandleThrow, Destroy, Construct, RequestStop,
       StopCallback, Join, Terminated

LEMMA StopOnceHolds == Spec => []StopOnce
BY StopInit, StopStep, PTL DEF Spec

\* The front of the queue is the device accepted right after those already stored.
LEMMA FrontIsNext ==
  ASSUME TypeOK, FifoConservation, current = NoDevice, tasks # <<>>
  PROVE  Len(stored) < Len(pushed) /\ Head(tasks) = pushed[Len(stored) + 1]
<1>1. stored \in Seq(Device) /\ tasks \in Seq(Device)
  BY DEF TypeOK
<1>2. pushed = stored \o tasks
  BY <1>1, ConcatEmptySeq DEF FifoConservation, InHand
<1>3. Len(stored) \in Nat /\ Len(tasks) \in Nat \ {0}
  BY <1>1, LenProperties, EmptySeq
<1>4. /\ Len(pushed) = Len(stored) + Len(tasks)
      /\ \A i \in 1..(Len(stored) + Len(tasks)) :
           pushed[i] = IF i <= Len(stored) THEN stored[i] ELSE tasks[i - Len(stored)]
  BY <1>1, <1>2, ConcatProperties
<1>5. pushed[Len(stored) + 1] = tasks[1]
  BY <1>3, <1>4
<1>6. QED
  BY <1>1, <1>3, <1>4, <1>5

LEMMA FeedInit == Init => Feed!Init
BY DEF Init, Feed!Init, FeedPhase

\* Every step of the threads is a step of the promise, or none.
LEMMA FeedStep ==
  ASSUME TypeOK, FifoConservation, StopOnce, [Next]_vars
  PROVE  [Feed!Next]_Feed!feedVars
<1>1. ASSUME NEW p \in Pusher, NEW d \in Device, PushLock(p, d)
      PROVE  UNCHANGED Feed!feedVars
  BY <1>1 DEF PushLock, Feed!feedVars, FeedPhase
<1>2. ASSUME NEW p \in Pusher, PushAppend(p)
      PROVE  Feed!Accept
  <2>1. arg[p] \in Device
    BY <1>2 DEF TypeOK, PushAppend
  <2>2. QED
    BY <1>2, <2>1 DEF PushAppend, Alive, Feed!Accept, FeedPhase
<1>3. ASSUME NEW p \in Pusher, PushNotify(p)
      PROVE  UNCHANGED Feed!feedVars
  BY <1>3 DEF PushNotify, Notified, Feed!feedVars, FeedPhase
<1>4. ASSUME RunLoop \/ RunLock \/ RunEmpty \/ SpuriousWake
      PROVE  UNCHANGED Feed!feedVars
  BY <1>4 DEF RunLoop, RunLock, RunEmpty, SpuriousWake, LeavesLoop, Feed!feedVars, FeedPhase
<1>5. ASSUME RunSleep
      PROVE  Feed!Close \/ UNCHANGED Feed!feedVars
  BY <1>5 DEF RunSleep, Feed!Close, Feed!feedVars, FeedPhase
<1>6. ASSUME RunTake
      PROVE  Feed!Start
  <2>1. current = NoDevice
    BY <1>6 DEF TypeOK, RunTake
  <2>2. Len(stored) < Len(pushed) /\ Head(tasks) = pushed[Len(stored) + 1]
    BY <1>6, <2>1, FrontIsNext DEF RunTake
  <2>3. FeedPhase \in {"open", "last"} /\ FeedPhase' = IF FeedPhase = "last" THEN "closed" ELSE FeedPhase
    BY <1>6 DEF RunTake, FeedPhase
  <2>4. QED
    BY <1>6, <2>1, <2>2, <2>3 DEF RunTake, Feed!Start
<1>7. ASSUME HandleLock \/ HandleInsert \/ HandleFetch
      PROVE  UNCHANGED Feed!feedVars
  BY <1>7 DEF HandleLock, HandleInsert, HandleFetch, Feed!feedVars, FeedPhase
<1>8. ASSUME HandleUpdate
      PROVE  Feed!Finish
  BY <1>8 DEF TypeOK, HandleUpdate, Feed!Finish, FeedPhase
<1>9. ASSUME HandleThrow
      PROVE  Feed!Abort
  BY <1>9 DEF TypeOK, HandleThrow, Feed!Abort, FeedPhase
<1>10. ASSUME RequestStop
       PROVE  Feed!Stop
  BY <1>10 DEF StopOnce, RequestStop, Alive, Feed!Stop, FeedPhase
<1>11. ASSUME Construct \/ StopCallback \/ Join
       PROVE  UNCHANGED Feed!feedVars
  BY <1>11 DEF Construct, StopCallback, Join, Notified, Feed!feedVars, FeedPhase
<1>12. ASSUME UNCHANGED vars
       PROVE  UNCHANGED Feed!feedVars
  BY <1>12 DEF vars, Feed!feedVars, FeedPhase
<1>13. QED
  BY <1>1, <1>2, <1>3, <1>4, <1>5, <1>6, <1>7, <1>8, <1>9, <1>10, <1>11, <1>12
     DEF Next, Push, Run, Handle, Destroy, Terminated, Feed!Next

\* Worker, lock, condition variable and stop token implement the FIFO promise: one device
\* at a time, in order, and at most one more after a stop request.
THEOREM ImplementsFeed == Spec => ImplementsDeviceFeed
BY FeedInit, FeedStep, TypeCorrect, FifoConservationHolds, StopOnceHolds, PTL
   DEF Spec, ImplementsDeviceFeed, Feed!Spec
-------------------------------------------------------------------------------
(* All of it, for a module that composes TaskManager with others. *)

TaskInv ==
  /\ TypeOK
  /\ LockDiscipline
  /\ WakeupInv
  /\ EmptyUntilConstructed
  /\ FifoConservation
  /\ RegistryIsNewest
  /\ StopOnce

LEMMA TaskInvInit == Init => TaskInv
BY TypeInit, LockInit, WakeupInit, EmptyInit, FifoInit, RegistryInit, StopInit DEF TaskInv

LEMMA TaskInvStep ==
  ASSUME TaskInv, [Next]_vars
  PROVE  TaskInv'
<1>1. TypeOK'
  BY TypeStep DEF TaskInv
<1>2. LockDiscipline' /\ WakeupInv' /\ EmptyUntilConstructed' /\ StopOnce'
  BY LockStep, WakeupStep, EmptyStep, StopStep DEF TaskInv
<1>3. FifoConservation' /\ RegistryIsNewest'
  BY <1>1, FifoStep, RegistryStep DEF TaskInv
<1>4. QED
  BY <1>1, <1>2, <1>3 DEF TaskInv
===============================================================================
