---------------------------- MODULE Pipeline_proofs ----------------------------
(***************************************************************************)
(* Proofs about Pipeline, for any devices, reports and number of rounds,   *)
(* over any number of runs.  Every step of the pipeline is a step of each  *)
(* of its parts, or the loss of its memory; what is proved of a part then  *)
(* holds in the pipeline.                                                  *)
(***************************************************************************)
EXTENDS Pipeline, GpsdClient_proofs, SequenceTheorems

TMP == INSTANCE TaskManager_proofs WITH Pusher <- {Dispatcher}
DBP == INSTANCE Database_proofs WITH Identifier <- Identity

-------------------------------------------------------------------------------
(* The task manager. *)

\* The pipeline moves the task manager's variables as TaskManager does, or makes them anew.
LEMMA TaskStep ==
  ASSUME [Next]_vars
  PROVE  [TMP!Next]_TMP!vars \/ TMP!Init'
<1>1. ASSUME NEW d \in Device, Announce(d)
      PROVE  TMP!Next
  <2>1. TMP!PushLock(Dispatcher, d)
    BY <1>1 DEF Announce, TM!PushLock, TMP!PushLock, TM!Alive, TMP!Alive, TM!Elements, TMP!Elements
  <2>2. QED
    BY <2>1 DEF TMP!Next, TMP!Push
<1>2. CASE Dispatch
  <2>1. TMP!PushAppend(Dispatcher) \/ TMP!PushNotify(Dispatcher)
    BY <1>2 DEF Dispatch, TM!PushAppend, TMP!PushAppend, TM!PushNotify, TMP!PushNotify,
                TM!Alive, TMP!Alive, TM!Notified, TMP!Notified, TM!Enqueue, TMP!Enqueue
  <2>2. QED
    BY <2>1 DEF TMP!Next, TMP!Push
<1>3. CASE Work \/ SpuriousWake
  <2>1. TMP!Run \/ TMP!HandleLock \/ TMP!HandleInsert \/ TMP!SpuriousWake
    BY <1>3 DEF Work, SpuriousWake, TM!Run, TMP!Run, TM!RunLoop, TMP!RunLoop, TM!RunLock,
                TMP!RunLock, TM!RunTake, TMP!RunTake, TM!RunEmpty, TMP!RunEmpty,
                TM!RunSleep, TMP!RunSleep, TM!HandleLock, TMP!HandleLock, TM!HandleInsert,
                TMP!HandleInsert, TM!SpuriousWake, TMP!SpuriousWake, TM!LeavesLoop,
                TMP!LeavesLoop, TM!Register, TMP!Register, TM!pusherVars, TMP!pusherVars
  <2>2. QED
    BY <2>1 DEF TMP!Next, TMP!Handle
<1>4. CASE FetchAndUpdate \/ UpdateEnd
  <2>1. TMP!HandleFetch \/ TMP!HandleUpdate
    BY <1>4 DEF FetchAndUpdate, UpdateEnd, TM!HandleFetch, TMP!HandleFetch,
                TM!HandleUpdate, TMP!HandleUpdate, TM!pusherVars, TMP!pusherVars
  <2>2. QED
    BY <2>1 DEF TMP!Next, TMP!Handle
<1>5. CASE StartWorker \/ Destroy
  <2>1. TMP!Construct \/ TMP!Destroy
    BY <1>5 DEF StartWorker, Destroy, TM!Construct, TMP!Construct, TM!Destroy, TMP!Destroy,
                TM!RequestStop, TMP!RequestStop, TM!StopCallback, TMP!StopCallback,
                TM!Join, TMP!Join, TM!Alive, TMP!Alive, TM!Notified, TMP!Notified,
                TM!pusherVars, TMP!pusherVars
  <2>2. QED
    BY <2>1 DEF TMP!Next
<1>6. CASE Crash \/ Restart
  BY <1>6 DEF Crash, Restart, FreshMemory, TMP!Init
<1>7. CASE OpenDatabase \/ Statement \/ StartRead \/ AwaitReport \/ SkipRead \/ EndRead
           \/ UNCHANGED vars
  BY <1>7 DEF OpenDatabase, Statement, StartRead, AwaitReport, SkipRead, EndRead, vars,
              taskVars, TMP!vars
<1>8. QED
  BY <1>1, <1>2, <1>3, <1>4, <1>5, <1>6, <1>7 DEF Next, WorkerStep

\* The task manager's state keeps its types over all runs.
LEMMA TaskTypes == Spec => []TMP!TypeOK
<1>1. Init => TMP!TypeOK
  <2>1. Init => TMP!Init
    BY DEF Init, TM!Init, TMP!Init
  <2>2. QED
    BY <2>1, TMP!TypeInit, PipelineAssumption
<1>2. ASSUME TMP!TypeOK, [Next]_vars
      PROVE  TMP!TypeOK'
  <2>1. CASE [TMP!Next]_TMP!vars
    BY <1>2, <2>1, TMP!TypeStep, PipelineAssumption
  <2>2. CASE TMP!Init'
    BY <2>2, EmptySeq, PipelineAssumption DEF TMP!Init, TMP!TypeOK, TMP!WorkerPc
  <2>3. QED
    BY <1>2, <2>1, <2>2, TaskStep
<1>3. QED
  BY <1>1, <1>2, PTL DEF Spec

\* A new run starts from memory in which all of the task manager's invariants hold.
LEMMA TaskInvAfresh ==
  ASSUME TMP!Init'
  PROVE  TMP!TaskInv'
<1>1. TMP!TypeOK'
  BY EmptySeq, PipelineAssumption DEF TMP!Init, TMP!TypeOK, TMP!WorkerPc
<1>2. TMP!LockDiscipline'
  BY PipelineAssumption DEF TMP!Init, TMP!LockDiscipline
<1>3. TMP!WakeupInv' /\ TMP!EmptyUntilConstructed' /\ TMP!StopOnce'
  BY DEF TMP!Init, TMP!WakeupInv, TMP!SleepsOnEmpty, TMP!NoLostWakeup,
         TMP!EmptyUntilConstructed, TMP!StopOnce
<1>4. TMP!InHand' = <<>> /\ TMP!Registered' = <<>>
  BY DEF TMP!Init, TMP!InHand, TMP!Registered
<1>5. TMP!FifoConservation'
  BY <1>4, EmptySeq DEF TMP!Init, TMP!FifoConservation
<1>6. TMP!RegistryIsNewest'
  <2>1. 1..Len(TMP!Registered') = {}
    BY <1>4, EmptySeq
  <2>2. QED
    BY <2>1 DEF TMP!Init, TMP!RegistryIsNewest
<1>7. QED
  BY <1>1, <1>2, <1>3, <1>5, <1>6 DEF TMP!TaskInv

\* What TaskManager_proofs shows of one run holds over all runs.
LEMMA TaskInvKept == Spec => []TMP!TaskInv
<1>1. Init => TMP!TaskInv
  <2>1. Init => TMP!Init
    BY DEF Init, TM!Init, TMP!Init
  <2>2. QED
    BY <2>1, TMP!TaskInvInit, PipelineAssumption
<1>2. ASSUME TMP!TaskInv, [Next]_vars
      PROVE  TMP!TaskInv'
  <2>1. CASE [TMP!Next]_TMP!vars
    BY <1>2, <2>1, TMP!TaskInvStep, PipelineAssumption
  <2>2. QED
    BY <1>2, <2>1, TaskStep, TaskInvAfresh
<1>3. QED
  BY <1>1, <1>2, PTL DEF Spec

\* Lock, wake-ups, constructor, queue and registry of the task manager are sound in every
\* run, also in one that follows a crash.
THEOREM TasksAreSoundInEveryRun ==
  Spec => [](/\ TM!LockDiscipline /\ TM!NoLostWakeup /\ TM!ReferencesAreBound
             /\ TM!FifoConservation /\ TM!RegistryIsNewest)
<1>1. ASSUME TMP!TaskInv
      PROVE  /\ TM!LockDiscipline /\ TM!NoLostWakeup /\ TM!ReferencesAreBound
             /\ TM!FifoConservation /\ TM!RegistryIsNewest
  <2>1. TM!LockDiscipline /\ TM!NoLostWakeup /\ TM!FifoConservation
    BY <1>1 DEF TMP!TaskInv, TMP!LockDiscipline, TM!LockDiscipline, TMP!WakeupInv,
                TMP!NoLostWakeup, TM!NoLostWakeup, TMP!FifoConservation, TM!FifoConservation,
                TMP!InHand, TM!InHand
  <2>2. TM!ReferencesAreBound
    BY <1>1 DEF TMP!TaskInv, TMP!EmptyUntilConstructed, TM!ReferencesAreBound
  <2>3. TM!RegistryIsNewest
    BY <1>1 DEF TMP!TaskInv, TMP!RegistryIsNewest, TM!RegistryIsNewest, TMP!Registered,
                TM!Registered, TMP!InHand, TM!InHand
  <2>4. QED
    BY <2>1, <2>2, <2>3
<1>2. QED
  BY <1>1, TaskInvKept, PTL
-------------------------------------------------------------------------------
(* The database. *)

\* The identity that fetchProfile hands to updateDevice is one Database knows.
LEMMA DatabaseStep ==
  ASSUME TMP!TypeOK, [Next]_vars
  PROVE  [DB!Next]_DB!vars
<1>1. CASE FetchAndUpdate
  <2>1. current \in Device
    BY <1>1 DEF FetchAndUpdate, TM!HandleFetch, TMP!TypeOK
  <2>2. [address : {AddressOf[current], Unknown}, typed : BOOLEAN] \subseteq Identity
    BY <2>1, PipelineAssumption DEF Identity
  <2>3. QED
    BY <1>1, <2>2 DEF FetchAndUpdate, DB!Next
<1>2. CASE OpenDatabase \/ Statement \/ SkipRead \/ EndRead \/ Crash \/ Restart
  BY <1>2 DEF OpenDatabase, Statement, SkipRead, EndRead, Crash, Restart, DB!Next
<1>3. CASE UNCHANGED dbVars
  BY <1>3 DEF dbVars, DB!vars, DB!opening
<1>4. QED
  BY <1>1, <1>2, <1>3
     DEF Next, WorkerStep, vars, StartWorker, Announce, Dispatch, SpuriousWake, Work, UpdateEnd,
         StartRead, AwaitReport, Destroy

\* The tables see nothing that Database does not allow.
LEMMA PartIsDatabase == Spec => DB!Spec
<1>1. Init => DB!Init
  BY DEF Init
<1>2. QED
  BY <1>1, DatabaseStep, TaskTypes, PTL DEF Spec, DB!Spec

\* DB and DBP are two names of one specification.
LEMMA SameDatabase == DB!Spec => DBP!Spec
<1>1. DB!Init => DBP!Init
  BY DEF DB!Init, DBP!Init, DB!Reading, DBP!Reading
<1>2. [DB!Next]_DB!vars => [DBP!Next]_DBP!vars
  <2>1. DB!Create \/ DB!Opened \/ DB!Die \/ DB!Restart
          => DBP!Create \/ DBP!Opened \/ DBP!Die \/ DBP!Restart
    BY DEF DB!Create, DBP!Create, DB!Opened, DBP!Opened, DB!Die, DBP!Die, DB!Restart,
           DBP!Restart, DB!Schema, DBP!Schema, DB!opening, DBP!opening, DB!tables, DBP!tables
  <2>2. ASSUME NEW i, DB!UpdateDevice(i)
        PROVE  DBP!UpdateDevice(i)
    BY <2>2 DEF DB!UpdateDevice, DBP!UpdateDevice, DB!Now, DBP!Now, DB!opening, DBP!opening,
                DB!tables, DBP!tables
  <2>3. DB!FindRadioDeviceId => DBP!FindRadioDeviceId
    BY DEF DB!FindRadioDeviceId, DBP!FindRadioDeviceId, DB!Matches, DBP!Matches, DB!RowsOf,
           DBP!RowsOf, DB!Now, DBP!Now, DB!Schema, DBP!Schema, DB!opening, DBP!opening,
           DB!tables, DBP!tables
  <2>4. DB!UpdateLastSeen => DBP!UpdateLastSeen
    BY DEF DB!UpdateLastSeen, DBP!UpdateLastSeen, DB!Touch, DBP!Touch, DB!Stamp, DBP!Stamp, DB!Now, DBP!Now,
           DB!opening, DBP!opening
  <2>5. DB!InsertReference => DBP!InsertReference
    BY DEF DB!InsertReference, DBP!InsertReference, DB!NewRow, DBP!NewRow, DB!RowsOf,
           DBP!RowsOf, DB!LastInsertRowid, DBP!LastInsertRowid, DB!Stamp, DBP!Stamp, DB!Now, DBP!Now,
           DB!opening, DBP!opening
  <2>6. DB!UpdateDeviceDetails => DBP!UpdateDeviceDetails
    BY DEF DB!UpdateDeviceDetails, DBP!UpdateDeviceDetails, DB!Upsert, DBP!Upsert, DB!Stamp,
           DBP!Stamp, DB!Now, DBP!Now, DB!opening, DBP!opening
  <2>7. DB!ReadGps => DBP!ReadGps
    BY DEF DB!ReadGps, DBP!ReadGps, DB!Reading, DBP!Reading, DB!Position, DBP!Position,
           DB!opening, DBP!opening, DB!tables, DBP!tables
  <2>8. DB!InsertObservation => DBP!InsertObservation
    BY DEF DB!InsertObservation, DBP!InsertObservation, DB!Stamp, DBP!Stamp, DB!Now, DBP!Now,
           DB!opening, DBP!opening
  <2>9. UNCHANGED DB!vars => UNCHANGED DBP!vars
    BY DEF DB!vars, DBP!vars, DB!opening, DBP!opening
  <2>10. QED
    BY <2>1, <2>2, <2>3, <2>4, <2>5, <2>6, <2>7, <2>8, <2>9 DEF DB!Next, DBP!Next
<1>3. QED
  BY <1>1, <1>2, PTL DEF DB!Spec, DBP!Spec

\* The tables keep their types over all runs.
LEMMA DatabaseTypes == Spec => []DBP!TypeOK
<1>1. Spec => DBP!Spec
  BY PartIsDatabase, SameDatabase, PTL
<1>2. DBP!Spec => []DBP!TypeOK
  BY DBP!TypeCorrect, PipelineAssumption
<1>3. QED
  BY <1>1, <1>2, PTL

\* What Database_proofs shows of the tables holds of the file the pipeline writes, over any
\* number of runs: no refusal, no observation without its reference row and its details, the
\* first observation of a device under its own row, one row per identifier, stamped by its
\* own calls.
THEOREM TablesAreSound ==
  Spec => [](/\ DB!NeverRefused /\ DB!LastSeenCovers /\ DB!DetailsCover
             /\ DB!FirstObservationIsLinked /\ DB!RowsAreOwn)
<1>1. Spec => DBP!Spec
  BY PartIsDatabase, SameDatabase, PTL
<1>2. DBP!Spec => [](/\ DBP!NeverRefused /\ DBP!LastSeenCovers /\ DBP!DetailsCover
                     /\ DBP!FirstObservationIsLinked /\ DBP!RowsAreOwn)
  BY DBP!ReferenceNeverRefused, DBP!LastSeenCoversHolds, DBP!DetailsCoverHolds,
     DBP!FirstObservationIsLinkedHolds, DBP!RowsAreOwnHolds, PipelineAssumption, PTL
<1>3. /\ DBP!NeverRefused /\ DBP!LastSeenCovers /\ DBP!DetailsCover
      /\ DBP!FirstObservationIsLinked /\ DBP!RowsAreOwn
      => /\ DB!NeverRefused /\ DB!LastSeenCovers /\ DB!DetailsCover
         /\ DB!FirstObservationIsLinked /\ DB!RowsAreOwn
  BY DEF DB!NeverRefused, DBP!NeverRefused, DB!LastSeenCovers, DBP!LastSeenCovers,
         DB!DetailsCover, DBP!DetailsCover, DB!FirstObservationIsLinked,
         DBP!FirstObservationIsLinked, DB!RowsAreOwn, DBP!RowsAreOwn, DB!Covered,
         DBP!Covered, DB!RowsOf, DBP!RowsOf, DB!NotAfter, DBP!NotAfter
<1>4. QED
  BY <1>1, <1>2, <1>3, PTL
-------------------------------------------------------------------------------
(* The GPS client. *)

\* read() is only ever under way on an available GPS.
ReaderIsAvailable == reader # "idle" => available

LEMMA GpsInvHolds == Spec => [](GpsInv /\ ReaderIsAvailable)
<1>1. Init => GpsInv /\ ReaderIsAvailable
  BY GpsInvInit DEF Init, GpsInit, ReaderIsAvailable
<1>2. ASSUME GpsInv, ReaderIsAvailable, [Next]_vars
      PROVE  GpsInv' /\ ReaderIsAvailable'
  <2> USE <1>2
  <2>1. CASE StartRead \/ AwaitReport \/ EndRead
    <3>1. GpsNext /\ ReaderIsAvailable'
      BY <2>1 DEF StartRead, AwaitReport, EndRead, GpsNext, Read, GiveUp, Receive, Return,
                  ReaderIsAvailable
    <3>2. QED
      BY <3>1, GpsInvStep
  <2>2. CASE SkipRead
    <3>1. reader = "idle" /\ gpsFix' = Uninitialised /\ UNCHANGED <<available, reader, retries, gpsData>>
      BY <2>2 DEF SkipRead, ReaderIsAvailable
    <3>2. QED
      BY <3>1 DEF GpsInv, GpsTypeOK, ReadIsAllOrNothing, ReaderIsAvailable, GpsFix, Coordinate,
                  Uninitialised
  <2>3. CASE Crash \/ Restart
    <3>1. /\ reader' = "idle" /\ retries' = 0 /\ gpsData' = NoReport
          /\ gpsFix' = Uninitialised /\ available' \in BOOLEAN
      BY <2>3 DEF Crash, Restart, FreshMemory, GpsInv, GpsTypeOK
    <3>2. QED
      BY <3>1, GpsAssumption
         DEF GpsInv, GpsTypeOK, ReadIsAllOrNothing, ReaderIsAvailable, GpsFix, Coordinate,
             Uninitialised
  <2>4. CASE UNCHANGED gpsVars
    BY <2>4, GpsInvStep DEF gpsVars, ReaderIsAvailable
  <2>5. QED
    BY <2>1, <2>2, <2>3, <2>4
       DEF Next, WorkerStep, vars, OpenDatabase, StartWorker, Announce, Dispatch, SpuriousWake,
           Work, FetchAndUpdate, Statement, UpdateEnd, Destroy
<1>3. QED
  BY <1>1, <1>2, PTL DEF Spec

\* The fix that an observation is made of comes whole from one usable report, or is
\* uninitialised, also when a crash cut an earlier read() short.
THEOREM ReadsAreSound == Spec => []ReadIsAllOrNothing
<1>1. GpsInv => ReadIsAllOrNothing
  BY DEF GpsInv
<1>2. QED
  BY <1>1, GpsInvHolds, PTL

\* How the waits for gpsd add up: none is counted before a stop request, and the worker only
\* starts to count once it reads for the device in hand, one wait per round.
LateInv ==
  /\ late \in Nat
  /\ late <= MaxModeRetry
  /\ ~stop => late = 0
  /\ wpc \in {"lock", "test", "sleep", "asleep", "handle", "insert", "fetch"} => late = 0
  /\ pc \in {"find", "update", "insert", "details"} => late = 0
  /\ pc = "gps" /\ reader = "idle" => late = 0
  /\ reader = "round" => late <= retries
  /\ reader # "idle" => pc = "gps" /\ available
  /\ pc \notin {"open", "idle", "refused", "dead"} => wpc = "update"
  /\ retries \in 0..(MaxModeRetry - 1)
  /\ reader = "idle" => retries = 0

LEMMA LateInvHolds == Spec => []LateInv
<1> USE GpsAssumption
<1>1. Init => LateInv
  BY DEF Init, LateInv, DB!Init, GpsInit
<1>2. ASSUME LateInv, [Next]_vars
      PROVE  LateInv'
  <2> USE <1>2
  <2>1. CASE OpenDatabase
    BY <2>1 DEF OpenDatabase, DB!Create, DB!Opened, LateInv, taskVars, gpsVars, history
  <2>2. CASE StartWorker \/ Destroy
    BY <2>2 DEF StartWorker, Destroy, TM!Construct, TM!Destroy, TM!RequestStop, TM!StopCallback,
                TM!Join, TM!Notified, TM!pusherVars, LateInv, dbVars, gpsVars, history
  <2>3. CASE Dispatch \/ \E d \in Device : Announce(d)
    BY <2>3 DEF Dispatch, Announce, TM!PushLock, TM!PushAppend, TM!PushNotify, TM!Notified,
                LateInv, dbVars, gpsVars, history
  <2>4. CASE Work \/ SpuriousWake
    BY <2>4 DEF Work, SpuriousWake, TM!Run, TM!RunLoop, TM!RunLock, TM!RunTake, TM!RunEmpty,
                TM!RunSleep, TM!SpuriousWake, TM!HandleLock, TM!HandleInsert, TM!LeavesLoop,
                LateInv, dbVars, gpsVars, history
  <2>5. CASE FetchAndUpdate
    BY <2>5 DEF FetchAndUpdate, TM!HandleFetch, DB!UpdateDevice, LateInv, gpsVars
  <2>6. CASE Statement
    BY <2>6 DEF Statement, DB!FindRadioDeviceId, DB!UpdateLastSeen, DB!InsertReference,
                DB!UpdateDeviceDetails, DB!InsertObservation, LateInv, taskVars, gpsVars, history
  <2>7. CASE UpdateEnd
    BY <2>7 DEF UpdateEnd, TM!HandleUpdate, LateInv, dbVars, gpsVars, history
  <2>8. CASE StartRead
    BY <2>8 DEF StartRead, Read, LateInv, taskVars, dbVars, history
  <2>9. CASE AwaitReport
    <3>1. reader = "round" /\ pc = "gps" /\ late \in Nat /\ late <= retries
      BY <2>9 DEF AwaitReport, GiveUp, Receive, LateInv
    <3>2. late' = IF stop THEN late + 1 ELSE late
      BY <2>9, <3>1 DEF AwaitReport, LateInv
    <3>3. late' \in Nat /\ late' <= retries + 1 /\ late' <= MaxModeRetry
      BY <3>1, <3>2 DEF LateInv
    <3>4. \/ reader' \in {"ok", "failed"} /\ retries' = retries
          \/ reader' = "round" /\ retries' = retries + 1 /\ retries + 1 < MaxModeRetry
      BY <2>9 DEF AwaitReport, GiveUp, Receive, Another
    <3>5. UNCHANGED <<stop, wpc, pc, available>>
      BY <2>9 DEF AwaitReport, GiveUp, Receive, taskVars, dbVars
    <3>6. wpc = "update" /\ available
      BY <3>1 DEF LateInv
    <3>7. QED
      BY <3>1, <3>2, <3>3, <3>4, <3>5, <3>6 DEF LateInv
  <2>10. CASE SkipRead
    BY <2>10 DEF SkipRead, DB!ReadGps, LateInv, taskVars, history
  <2>11. CASE EndRead
    BY <2>11 DEF EndRead, Return, DB!ReadGps, LateInv, taskVars, history
  <2>12. CASE Crash \/ Restart
    BY <2>12 DEF Crash, Restart, FreshMemory, DB!Die, DB!Restart, LateInv
  <2>13. CASE UNCHANGED vars
    BY <2>13 DEF vars, taskVars, dbVars, gpsVars, history, LateInv
  <2>14. QED
    BY <2>1, <2>2, <2>3, <2>4, <2>5, <2>6, <2>7, <2>8, <2>9, <2>10, <2>11, <2>12, <2>13
       DEF Next, WorkerStep
<1>3. QED
  BY <1>1, <1>2, PTL DEF Spec

\* A stop request waits for the rounds of one read(), never for those of two.
THEOREM StopWaitsForOneReadHolds == Spec => []StopWaitsForOneRead
<1>1. LateInv => StopWaitsForOneRead
  BY DEF LateInv, StopWaitsForOneRead
<1>2. QED
  BY <1>1, LateInvHolds, PTL

\* The status and the coordinates of an observation are of the same fix: nothing of gpsd's
\* touches either between the end of read() and the INSERT.
THEOREM StatusTellsTheFixHolds == Spec => []StatusTellsTheFix
<1>1. Init => StatusTellsTheFix
  BY DEF Init, DB!Init, StatusTellsTheFix
<1>2. ASSUME GpsInv, LateInv, StatusTellsTheFix, [Next]_vars
      PROVE  StatusTellsTheFix'
  <2> USE <1>2
  <2>1. CASE SkipRead
    <3>1. /\ gpsFix'.latlon # "measured"
          /\ fix'.position # "measured"
      BY <2>1 DEF SkipRead, Uninitialised
    <3>2. PICK p \in DB!Position : fix' = [reading |-> p = "measured", position |-> p]
      BY <2>1 DEF SkipRead, DB!ReadGps, DB!Reading
    <3>3. ~fix'.reading
      BY <3>1, <3>2
    <3>4. QED
      BY <3>1, <3>3 DEF StatusTellsTheFix
  <2>2. CASE EndRead
    <3>1. /\ fix'.reading <=> reader = "ok"
          /\ reader \in {"ok", "failed"}
          /\ gpsFix' = gpsFix
      BY <2>2 DEF EndRead, Return
    <3>2. reader = "ok" <=> gpsFix.latlon = "measured"
      BY <3>1 DEF GpsInv, ReadIsAllOrNothing, Uninitialised
    <3>3. QED
      BY <3>1, <3>2 DEF StatusTellsTheFix
  <2>3. CASE StartRead \/ AwaitReport
    <3>1. pc' = "gps"
      BY <2>3 DEF StartRead, AwaitReport, GiveUp, Receive, LateInv, dbVars
    <3>2. QED
      BY <3>1 DEF StatusTellsTheFix
  <2>4. CASE Crash \/ Restart \/ OpenDatabase \/ FetchAndUpdate \/ Statement
    <3>1. pc' # "observe"
      BY <2>4
         DEF Crash, DB!Die, Restart, DB!Restart, OpenDatabase, DB!Create, DB!Opened,
             FetchAndUpdate, DB!UpdateDevice, Statement, DB!FindRadioDeviceId,
             DB!UpdateLastSeen, DB!InsertReference, DB!UpdateDeviceDetails,
             DB!InsertObservation
    <3>2. QED
      BY <3>1 DEF StatusTellsTheFix
  <2>5. CASE UNCHANGED <<pc, fix, gpsFix>>
    BY <2>5 DEF StatusTellsTheFix
  <2>6. QED
    BY <2>1, <2>2, <2>3, <2>4, <2>5
       DEF Next, WorkerStep, vars, dbVars, gpsVars, StartWorker, Announce, Dispatch,
           SpuriousWake, Work, UpdateEnd, Destroy
<1>3. QED
  BY <1>1, <1>2, GpsInvHolds, LateInvHolds, PTL DEF Spec
-------------------------------------------------------------------------------
(* The logbook. *)

\* The history of calls grows with the table of calls.
CallerInv == caller \in Seq(Device) /\ Len(caller) = Len(seen)

LEMMA CallerInvHolds == Spec => []CallerInv
<1>1. Init => CallerInv
  BY EmptySeq DEF Init, DB!Init, CallerInv
<1>2. ASSUME TMP!TypeOK, DBP!TypeOK, CallerInv, [Next]_vars
      PROVE  CallerInv'
  <2> USE <1>2
  <2>1. CASE FetchAndUpdate
    <3>1. current \in Device /\ seen \in Seq(Identity)
      BY <2>1 DEF FetchAndUpdate, TM!HandleFetch, TMP!TypeOK, DBP!TypeOK
    <3>2. PICK i \in [address : {AddressOf[current], Unknown}, typed : BOOLEAN] :
            seen' = Append(seen, i)
      BY <2>1 DEF FetchAndUpdate, DB!UpdateDevice
    <3>3. i \in Identity
      BY <3>1, PipelineAssumption DEF Identity
    <3>4. Len(seen') = Len(seen) + 1
      BY <3>1, <3>2, <3>3, AppendProperties
    <3>5. caller' = Append(caller, current)
      BY <2>1 DEF FetchAndUpdate
    <3>6. caller' \in Seq(Device) /\ Len(caller') = Len(caller) + 1
      BY <3>1, <3>5, AppendProperties DEF CallerInv
    <3>7. QED
      BY <3>4, <3>6 DEF CallerInv
  <2>2. CASE UNCHANGED <<caller, seen>>
    BY <2>2 DEF CallerInv
  <2>3. QED
    BY <2>1, <2>2
       DEF Next, WorkerStep, vars, dbVars, history, OpenDatabase, DB!Create, DB!Opened,
           StartWorker, Announce, Dispatch, SpuriousWake, Work, Statement,
           DB!FindRadioDeviceId, DB!UpdateLastSeen, DB!InsertReference,
           DB!UpdateDeviceDetails, DB!InsertObservation, UpdateEnd, StartRead, AwaitReport,
           SkipRead, EndRead, DB!ReadGps, Destroy, Crash, DB!Die, Restart, DB!Restart,
           FreshMemory
<1>3. QED
  BY <1>1, <1>2, TaskTypes, DatabaseTypes, PTL DEF Spec

\* The log is a sequence of devices, those of the calls that its observations are of.
LoggedInv ==
  /\ Logged \in Seq(Device)
  /\ Len(radio_observations) \in Nat
  /\ Len(Logged) = Len(radio_observations)
  /\ \A o \in 1..Len(radio_observations) :
       /\ radio_observations[o].at.call \in 1..Len(caller)
       /\ Logged[o] = caller[radio_observations[o].at.call]

LEMMA LoggedType ==
  ASSUME DBP!TypeOK, CallerInv
  PROVE  LoggedInv
<1>1. radio_observations \in Seq(DBP!Observation) /\ Len(radio_observations) \in Nat
  BY LenProperties DEF DBP!TypeOK
<1>2. \A o \in 1..Len(radio_observations) : radio_observations[o] \in DBP!Observation
  BY <1>1, ElementOfSeq
<1>3. \A o \in 1..Len(radio_observations) : radio_observations[o].at.call \in 1..Len(caller)
  BY <1>2 DEF DBP!Observation, DBP!Time, DBP!Call, DBP!Now, CallerInv
<1>4. \A o \in 1..Len(radio_observations) : caller[radio_observations[o].at.call] \in Device
  BY <1>3, ElementOfSeq DEF CallerInv
<1>5. QED
  BY <1>1, <1>3, <1>4 DEF Logged, LoggedInv

\* Calls to come do not change what is logged.
LEMMA LoggedKept ==
  ASSUME CallerInv, LoggedInv, UNCHANGED radio_observations,
         \/ UNCHANGED caller
         \/ current \in Device /\ caller' = Append(caller, current)
  PROVE  Logged' = Logged
<1>1. \A c \in 1..Len(caller) : caller'[c] = caller[c]
  BY AppendProperties DEF CallerInv
<1>2. \A o \in 1..Len(radio_observations) : radio_observations[o].at.call \in 1..Len(caller)
  BY DEF LoggedInv
<1>3. QED
  BY <1>1, <1>2 DEF Logged

\* The INSERT of an observation logs the device of the call in progress.
LEMMA LoggedAppended ==
  ASSUME DBP!TypeOK, DBP!TypeOK', CallerInv, LoggedInv, LoggedInv', DB!InsertObservation,
         UNCHANGED caller
  PROVE  Logged' = Append(Logged, caller[Len(caller)])
<1> DEFINE n == Len(radio_observations)
           new == [device_id |-> id, at |-> DB!Stamp(3), gps_status |-> fix.reading,
                   position |-> fix.position]
<1>1. radio_observations' = Append(radio_observations, new) /\ new.at.call = Len(caller)
  BY DEF DB!InsertObservation, DB!Stamp, DB!Now, CallerInv
<1>2. /\ radio_observations \in Seq(DBP!Observation)
      /\ radio_observations' \in Seq(DBP!Observation')
      /\ n \in Nat
  BY LenProperties DEF DBP!TypeOK
<1>3. UNCHANGED seen
  BY DEF DB!InsertObservation
<1>4. DBP!Observation' = DBP!Observation
  BY <1>3 DEF DBP!Observation, DBP!Time, DBP!Call, DBP!Now, DBP!Position
<1> HIDE DEF new
<1>5. /\ Len(radio_observations') = n + 1
      /\ \A o \in 1..n : radio_observations'[o] = radio_observations[o]
      /\ radio_observations'[n + 1] = new
  BY <1>1, <1>2, LenProperties DEF n
<1>6. /\ Logged' \in Seq(Device) /\ Len(Logged') = n + 1
      /\ \A o \in 1..(n + 1) : Logged'[o] = caller[radio_observations'[o].at.call]
  BY <1>5 DEF LoggedInv
<1>7. /\ Logged \in Seq(Device) /\ Len(Logged) = n
      /\ \A o \in 1..n : Logged[o] = caller[radio_observations[o].at.call]
  BY DEF LoggedInv
<1> DEFINE d == caller[Len(caller)]
<1>8. Logged'[n + 1] = d
  BY <1>1, <1>2, <1>5, <1>6
<1>9. d \in Device
  <2>1. n + 1 \in 1..Len(Logged')
    BY <1>2, <1>6
  <2>2. QED
    BY <1>6, <1>8, <2>1, ElementOfSeq
<1> HIDE DEF d
<1>10. /\ Append(Logged, d) \in Seq(Device)
       /\ Len(Append(Logged, d)) = n + 1
       /\ \A o \in 1..n : Append(Logged, d)[o] = Logged[o]
       /\ Append(Logged, d)[n + 1] = d
  BY <1>7, <1>9, AppendProperties
<1>11. \A o \in 1..(n + 1) : Logged'[o] = Append(Logged, d)[o]
  BY <1>2, <1>5, <1>6, <1>7, <1>8, <1>10
<1>12. Logged' = Append(Logged, d)
  BY <1>6, <1>10, <1>11, SeqEqual
<1>13. QED
  BY <1>12 DEF d
\* How the parts stand to each other: the task manager is untouched while the database is
\* being opened, a call of updateDevice is made for the device in the worker's hand, and
\* the owner, the stop token and the worker agree on whether the run is ending.
RunInv ==
  /\ pc = "open" => /\ tasks = <<>> /\ current = NoDevice /\ wpc = "loop"
                    /\ ~stop /\ owner = "constructing"
  /\ pc \notin {"open", "idle", "refused", "dead"} =>
       wpc = "update" /\ current = caller[Len(caller)]
  /\ owner = "destroyed" => wpc = "done"
  /\ stop <=> owner \in {"notifying", "joining", "destroyed"}
  /\ wpc # "aborted"

LEMMA RunInvHolds == Spec => []RunInv
<1>1. Init => RunInv
  BY DEF Init, TM!Init, DB!Init, RunInv
<1>2. ASSUME TMP!TypeOK, CallerInv, RunInv, [Next]_vars
      PROVE  RunInv'
  <2> USE <1>2
  <2>1. CASE OpenDatabase
    BY <2>1 DEF OpenDatabase, DB!Create, DB!Opened, RunInv, taskVars, history
  <2>2. CASE StartWorker \/ Destroy
    BY <2>2 DEF StartWorker, Destroy, Up, TM!Construct, TM!Destroy, TM!RequestStop,
                TM!StopCallback, TM!Join, TM!Notified, TM!pusherVars, RunInv, dbVars, history
  <2>3. CASE Dispatch \/ \E d \in Device : Announce(d)
    BY <2>3 DEF Dispatch, Announce, Up, TM!PushLock, TM!PushAppend, TM!PushNotify, TM!Notified,
                RunInv, dbVars, history
  <2>4. CASE Work \/ SpuriousWake
    BY <2>4 DEF Work, SpuriousWake, Up, TM!Run, TM!RunLoop, TM!RunLock, TM!RunTake,
                TM!RunEmpty, TM!RunSleep, TM!SpuriousWake, TM!HandleLock, TM!HandleInsert,
                TM!LeavesLoop, RunInv, dbVars, history
  <2>5. CASE FetchAndUpdate
    <3>1. current \in Device /\ caller' = Append(caller, current)
      BY <2>5 DEF FetchAndUpdate, TM!HandleFetch, TMP!TypeOK
    <3>2. caller'[Len(caller')] = current
      BY <3>1, AppendProperties DEF CallerInv
    <3>3. wpc' = "update" /\ pc' = "find" /\ UNCHANGED <<current, stop, owner>> /\ wpc = "fetch"
      BY <2>5 DEF FetchAndUpdate, TM!HandleFetch, DB!UpdateDevice
    <3>4. QED
      BY <3>2, <3>3 DEF RunInv
  <2>6. CASE Statement \/ SkipRead \/ EndRead
    BY <2>6 DEF Statement, SkipRead, EndRead, DB!FindRadioDeviceId, DB!UpdateLastSeen,
                DB!InsertReference, DB!UpdateDeviceDetails, DB!InsertObservation, DB!ReadGps,
                RunInv, taskVars, history
  <2>7. CASE UpdateEnd
    BY <2>7 DEF UpdateEnd, TM!HandleUpdate, RunInv, dbVars, history
  <2>8. CASE StartRead \/ AwaitReport
    BY <2>8 DEF StartRead, AwaitReport, RunInv, taskVars, dbVars, history
  <2>9. CASE Crash \/ Restart
    BY <2>9 DEF Crash, Restart, FreshMemory, DB!Die, DB!Restart, RunInv
  <2>10. CASE UNCHANGED vars
    BY <2>10 DEF vars, taskVars, dbVars, history, RunInv
  <2>11. QED
    BY <2>1, <2>2, <2>3, <2>4, <2>5, <2>6, <2>7, <2>8, <2>9, <2>10 DEF Next, WorkerStep
<1>3. QED
  BY <1>1, <1>2, TaskTypes, CallerInvHolds, PTL DEF Spec

\* Every step of the pipeline is one of the logbook's, or none.
LEMMA LogStep ==
  ASSUME TMP!TypeOK, DBP!TypeOK, DBP!TypeOK', CallerInv, LoggedInv, LoggedInv', RunInv, RunInv',
         [Next]_vars
  PROVE  [Log!Next]_Log!logVars
<1> USE DEF Up, Died, RunPhase, Unlogged, TM!FeedPhase, RunInv, Log!logVars
<1>1. CASE OpenDatabase
  <2>1. Logged' = Logged
    BY <1>1, LoggedKept DEF OpenDatabase, DB!Create, DB!Opened, DB!tables, history
  <2>2. CASE DB!Create
    BY <1>1, <2>1, <2>2 DEF OpenDatabase, DB!Create, taskVars
  <2>3. CASE DB!Opened
    <3>1. Log!Open
      BY <1>1, <2>1, <2>3 DEF OpenDatabase, DB!Opened, taskVars, Log!Open
    <3>2. QED
      BY <3>1 DEF Log!Next
  <2>4. QED
    BY <1>1, <2>2, <2>3 DEF OpenDatabase
<1>2. CASE StartWorker \/ SpuriousWake \/ \E d \in Device : Announce(d)
  <2>1. Logged' = Logged
    BY <1>2, LoggedKept DEF StartWorker, SpuriousWake, Announce, dbVars, history
  <2>2. QED
    BY <1>2, <2>1 DEF StartWorker, SpuriousWake, Announce, TM!Construct, TM!SpuriousWake,
                      TM!PushLock, dbVars
<1>3. CASE Dispatch
  <2>1. Logged' = Logged
    BY <1>3, LoggedKept DEF Dispatch, dbVars, history
  <2>2. CASE TM!PushAppend(Dispatcher)
    <3>1. arg[Dispatcher] \in Device
      BY <2>2 DEF TM!PushAppend, TMP!TypeOK
    <3>2. Log!Announce
      BY <1>3, <2>1, <2>2, <3>1 DEF Dispatch, TM!PushAppend, TM!Enqueue, dbVars, Log!Announce
    <3>3. QED
      BY <3>2 DEF Log!Next
  <2>3. CASE TM!PushNotify(Dispatcher)
    BY <1>3, <2>1, <2>3 DEF Dispatch, TM!PushNotify, TM!Notified, dbVars
  <2>4. QED
    BY <1>3, <2>2, <2>3 DEF Dispatch
<1>4. CASE Work
  <2>1. Logged' = Logged
    BY <1>4, LoggedKept DEF Work, dbVars, history
  <2>2. Up /\ UNCHANGED pc
    BY <1>4 DEF Work, dbVars
  <2>3. CASE TM!RunTake
    <3>1. current = NoDevice
      BY <2>3 DEF TM!RunTake, TMP!TypeOK
    <3>2. Log!Begin
      BY <2>1, <2>2, <2>3, <3>1 DEF TM!RunTake, Log!Begin
    <3>3. QED
      BY <3>2 DEF Log!Next
  <2>4. CASE TM!RunSleep
    <3>1. Log!Close \/ UNCHANGED Log!logVars
      BY <2>1, <2>2, <2>4 DEF TM!RunSleep, Log!Close
    <3>2. QED
      BY <3>1 DEF Log!Next
  <2>5. CASE TM!RunLoop \/ TM!RunLock \/ TM!RunEmpty \/ TM!HandleLock \/ TM!HandleInsert
    BY <2>1, <2>2, <2>5 DEF TM!RunLoop, TM!RunLock, TM!RunEmpty, TM!HandleLock,
                            TM!HandleInsert, TM!LeavesLoop
  <2>6. QED
    BY <1>4, <2>3, <2>4, <2>5 DEF Work, TM!Run
<1>5. CASE FetchAndUpdate
  <2>1. current \in Device
    BY <1>5 DEF FetchAndUpdate, TM!HandleFetch, TMP!TypeOK
  <2>2. Logged' = Logged
    BY <1>5, <2>1, LoggedKept DEF FetchAndUpdate, DB!UpdateDevice, DB!tables
  <2>3. QED
    BY <1>5, <2>2 DEF FetchAndUpdate, TM!HandleFetch, DB!UpdateDevice
<1>6. CASE Statement
  <2>1. CASE DB!InsertObservation
    <3>1. Logged' = Append(Logged, caller[Len(caller)])
      BY <1>6, <2>1, LoggedAppended DEF Statement, history
    <3>2. current = caller[Len(caller)] /\ current # NoDevice
      BY <2>1 DEF DB!InsertObservation, TMP!TypeOK
    <3>3. Log!Record
      BY <1>6, <2>1, <3>1, <3>2 DEF Statement, DB!InsertObservation, taskVars, Log!Record
    <3>4. QED
      BY <3>3 DEF Log!Next
  <2>2. CASE \/ DB!FindRadioDeviceId \/ DB!UpdateLastSeen \/ DB!InsertReference
             \/ DB!UpdateDeviceDetails
    <3>1. Logged' = Logged
      BY <1>6, <2>2, LoggedKept
         DEF Statement, history, DB!FindRadioDeviceId, DB!UpdateLastSeen, DB!InsertReference,
             DB!UpdateDeviceDetails, DB!tables
    <3>2. pc \in {"find", "update", "insert", "details"} /\ pc' \notin {"open", "idle", "dead"}
      BY <2>2 DEF DB!FindRadioDeviceId, DB!UpdateLastSeen, DB!InsertReference,
                  DB!UpdateDeviceDetails
    <3>3. CASE pc' = "refused"
      <4>1. Log!Crash
        BY <1>6, <3>1, <3>2, <3>3 DEF Statement, taskVars, Log!Crash
      <4>2. QED
        BY <4>1 DEF Log!Next
    <3>4. CASE pc' # "refused"
      BY <1>6, <3>1, <3>2, <3>4 DEF Statement, taskVars
    <3>5. QED
      BY <3>3, <3>4
  <2>3. QED
    BY <1>6, <2>1, <2>2 DEF Statement
<1>7. CASE UpdateEnd
  <2>1. Logged' = Logged
    BY <1>7, LoggedKept DEF UpdateEnd, dbVars, history
  <2>2. QED
    BY <1>7, <2>1 DEF UpdateEnd, TM!HandleUpdate, dbVars
<1>8. CASE StartRead \/ AwaitReport \/ SkipRead \/ EndRead
  <2>1. Logged' = Logged
    BY <1>8, LoggedKept DEF StartRead, AwaitReport, SkipRead, EndRead, DB!ReadGps, DB!tables,
                            dbVars, history
  <2>2. UNCHANGED taskVars /\ (UNCHANGED pc \/ (pc = "gps" /\ pc' = "observe"))
    BY <1>8 DEF StartRead, AwaitReport, SkipRead, EndRead, DB!ReadGps, dbVars
  <2>3. QED
    BY <2>1, <2>2 DEF taskVars
<1>9. CASE Destroy
  <2>1. Logged' = Logged
    BY <1>9, LoggedKept DEF Destroy, dbVars, history
  <2>2. Up /\ UNCHANGED pc
    BY <1>9 DEF Destroy, dbVars
  <2>3. CASE TM!RequestStop
    <3>1. Log!Stop
      BY <2>1, <2>2, <2>3 DEF TM!RequestStop, TM!pusherVars, Log!Stop
    <3>2. QED
      BY <3>1 DEF Log!Next
  <2>4. CASE TM!StopCallback
    BY <2>1, <2>2, <2>4 DEF TM!StopCallback, TM!Notified, TM!pusherVars
  <2>5. CASE TM!Join
    <3>1. current = NoDevice
      BY <2>5 DEF TM!Join, TMP!TypeOK
    <3>2. Log!Exit
      BY <2>1, <2>2, <2>5, <3>1 DEF TM!Join, TM!pusherVars, Log!Exit
    <3>3. QED
      BY <3>2 DEF Log!Next
  <2>6. QED
    BY <1>9, <2>3, <2>4, <2>5 DEF Destroy, TM!Destroy
<1>10. CASE Crash
  <2>1. Logged' = Logged
    BY <1>10, LoggedKept DEF Crash, DB!Die, DB!tables, FreshMemory
  <2>2. Log!Crash
    BY <1>10, <2>1 DEF Crash, DB!Die, Log!Crash
  <2>3. QED
    BY <2>2 DEF Log!Next
<1>11. CASE Restart
  <2>1. Logged' = Logged
    BY <1>11, LoggedKept DEF Restart, DB!Restart, DB!tables, FreshMemory
  <2>2. pc # "open" /\ pc' = "open"
    BY <1>11 DEF Restart, DB!Restart
  <2>3. Log!Restart
    BY <1>11, <2>1, <2>2 DEF Restart, Log!Restart
  <2>4. QED
    BY <2>3 DEF Log!Next
<1>12. CASE UNCHANGED vars
  <2>1. Logged' = Logged
    BY <1>12, LoggedKept DEF vars, dbVars, history
  <2>2. QED
    BY <1>12, <2>1 DEF vars, taskVars, dbVars
<1>13. QED
  BY <1>1, <1>2, <1>3, <1>4, <1>5, <1>6, <1>7, <1>8, <1>9, <1>10, <1>11, <1>12
     DEF Next, WorkerStep

\* Task manager, database and GPS client together keep the promise of Logbook, over any
\* number of runs and through stops, exceptions, crashes and restarts: devices are logged in
\* the order they were announced, one at a time, and what is logged stays.
THEOREM ImplementsLogbookHolds == Spec => ImplementsLogbook
<1>1. Init => Log!Init
  BY DEF Init, DB!Init, Log!Init, Logged, Up, RunPhase, Died
<1>2. (DBP!TypeOK /\ CallerInv) => LoggedInv
  BY LoggedType
<1>3. QED
  BY <1>1, <1>2, LogStep, TaskTypes, DatabaseTypes, CallerInvHolds, RunInvHolds, PTL
     DEF Spec, ImplementsLogbook, Log!Spec
-------------------------------------------------------------------------------
(* Whose rows they are. *)

\* A call of updateDevice is made for its device's own address or for none.
SeenIsOfCaller == \A c \in 1..Len(seen) : seen[c].address \in {AddressOf[caller[c]], Unknown}

LEMMA SeenIsOfCallerHolds == Spec => []SeenIsOfCaller
<1>1. Init => SeenIsOfCaller
  <2>1. Init => Len(seen) = 0
    BY EmptySeq DEF Init, DB!Init
  <2>2. QED
    BY <2>1 DEF SeenIsOfCaller
<1>2. ASSUME TMP!TypeOK, DBP!TypeOK, CallerInv, SeenIsOfCaller, [Next]_vars
      PROVE  SeenIsOfCaller'
  <2> USE <1>2
  <2>1. CASE FetchAndUpdate
    <3>1. /\ current \in Device
          /\ seen \in Seq(Identity) /\ caller \in Seq(Device)
          /\ Len(caller) = Len(seen) /\ Len(seen) \in Nat
      BY <2>1, LenProperties
         DEF FetchAndUpdate, TM!HandleFetch, TMP!TypeOK, DBP!TypeOK, CallerInv
    <3>2. PICK i \in [address : {AddressOf[current], Unknown}, typed : BOOLEAN] :
            seen' = Append(seen, i)
      BY <2>1 DEF FetchAndUpdate, DB!UpdateDevice
    <3>3. i \in Identity
      BY <3>1, PipelineAssumption DEF Identity
    <3>4. /\ Len(seen') = Len(seen) + 1
          /\ seen'[Len(seen) + 1] = i
          /\ \A c \in 1..Len(seen) : seen'[c] = seen[c]
      BY <3>1, <3>2, <3>3, AppendProperties
    <3>5. caller' = Append(caller, current)
      BY <2>1 DEF FetchAndUpdate
    <3>6. /\ caller'[Len(seen) + 1] = current
          /\ \A c \in 1..Len(seen) : caller'[c] = caller[c]
      BY <3>1, <3>5, AppendProperties
    <3>7. QED
      BY <3>1, <3>2, <3>4, <3>6 DEF SeenIsOfCaller
  <2>2. CASE UNCHANGED <<caller, seen>>
    BY <2>2 DEF SeenIsOfCaller
  <2>3. QED
    BY <2>1, <2>2
       DEF Next, WorkerStep, vars, dbVars, history, OpenDatabase, DB!Create, DB!Opened,
           StartWorker, Announce, Dispatch, SpuriousWake, Work, Statement,
           DB!FindRadioDeviceId, DB!UpdateLastSeen, DB!InsertReference,
           DB!UpdateDeviceDetails, DB!InsertObservation, UpdateEnd, StartRead, AwaitReport,
           SkipRead, EndRead, DB!ReadGps, Destroy, Crash, DB!Die, Restart, DB!Restart,
           FreshMemory
<1>3. QED
  BY <1>1, <1>2, TaskTypes, DatabaseTypes, CallerInvHolds, PTL DEF Spec

\* There is a row for an observation whose device's address was read, first seen not after the
\* observation and last seen in its call or a later one, and all three calls were for devices of
\* the row's address, whichever runs they are from.
THEOREM RowsAreOfTheirDevicesHolds == Spec => []RowsAreOfTheirDevices
<1>1. ASSUME DBP!TypeOK, SeenIsOfCaller, DB!LastSeenCovers, DB!RowsAreOwn
      PROVE  RowsAreOfTheirDevices
  <2> SUFFICES ASSUME NEW o \in 1..Len(radio_observations),
                      seen[radio_observations[o].at.call].address # Unknown
               PROVE  \E r \in 1..Len(radio_devices) :
                        /\ DB!NotAfter(radio_devices[r].first, radio_observations[o].at)
                        /\ radio_observations[o].at.call <= radio_devices[r].last.call
                        /\ \A c \in {radio_observations[o].at.call,
                                     radio_devices[r].first.call, radio_devices[r].last.call} :
                             AddressOf[caller[c]] = radio_devices[r].identifier.address
    BY DEF RowsAreOfTheirDevices
  <2> DEFINE t == radio_observations[o].at
  <2>1. t.call \in 1..Len(seen)
    <3>1. radio_observations \in Seq(DBP!Observation)
      BY <1>1 DEF DBP!TypeOK
    <3>2. radio_observations[o] \in DBP!Observation
      BY <3>1, ElementOfSeq
    <3>3. QED
      BY <3>2 DEF DBP!Observation, DBP!Time, DBP!Call, DBP!Now
  <2>2. PICK r \in 1..Len(radio_devices) :
          /\ radio_devices[r].identifier = seen[t.call]
          /\ DB!NotAfter(radio_devices[r].first, t)
          /\ t.call <= radio_devices[r].last.call
    BY <1>1 DEF DB!LastSeenCovers, DB!Covered, DB!RowsOf
  <2>3. radio_devices[r].first.call \in 1..Len(seen) /\ radio_devices[r].last.call \in 1..Len(seen)
    <3>1. radio_devices \in Seq(DBP!Row)
      BY <1>1 DEF DBP!TypeOK, DBP!Row
    <3>2. radio_devices[r] \in DBP!Row
      BY <3>1, ElementOfSeq
    <3>3. QED
      BY <3>2 DEF DBP!Row, DBP!Time, DBP!Call, DBP!Now
  <2>4. \A c \in {t.call, radio_devices[r].first.call, radio_devices[r].last.call} :
          c \in 1..Len(seen) /\ seen[c] = radio_devices[r].identifier
    BY <1>1, <2>1, <2>2, <2>3 DEF DB!RowsAreOwn
  <2>5. radio_devices[r].identifier.address # Unknown
    BY <2>2
  <2>6. \A c \in {t.call, radio_devices[r].first.call, radio_devices[r].last.call} :
          AddressOf[caller[c]] = radio_devices[r].identifier.address
    BY <1>1, <2>4, <2>5 DEF SeenIsOfCaller
  <2>7. QED
    BY <2>2, <2>6
<1>2. QED
  BY <1>1, DatabaseTypes, SeenIsOfCallerHolds, TablesAreSound, PTL
-------------------------------------------------------------------------------
\* The parts' types hold over all runs, and so does what ties them together: a call of
\* updateDevice is under way only inside the worker's handle, a read() only inside the call.
THEOREM TypeCorrect == Spec => []TypeOK
<1>1. ASSUME TMP!TypeOK, DBP!TypeOK, GpsInv, LateInv, CallerInv, RunInv
      PROVE  TypeOK
  <2>1. TM!TypeOK
    BY <1>1 DEF TM!TypeOK, TMP!TypeOK, TM!WorkerPc, TMP!WorkerPc
  <2>2. DB!TypeOK
    BY <1>1 DEF DB!TypeOK, DBP!TypeOK, DB!Schema, DBP!Schema, DB!Call, DBP!Call, DB!Now,
                DBP!Now, DB!Time, DBP!Time, DB!Observation, DBP!Observation, DB!Position, DBP!Position,
                DB!Reading, DBP!Reading, DB!Pc, DBP!Pc
  <2>3. late \in 0..(MaxModeRetry + 1) /\ (reader # "idle" => pc = "gps")
    BY <1>1, GpsAssumption DEF LateInv
  <2>4. Up => (pc # "idle" => wpc = "update")
    BY <1>1 DEF RunInv, Up, Died
  <2>5. QED
    BY <1>1, <2>1, <2>2, <2>3, <2>4 DEF TypeOK, GpsInv, CallerInv
<1>2. QED
  BY <1>1, TaskTypes, DatabaseTypes, GpsInvHolds, LateInvHolds, CallerInvHolds, RunInvHolds, PTL
===============================================================================
