------------------------------- MODULE Pipeline -------------------------------
(***************************************************************************)
(* The program's data path, from an announcement to the file, over several *)
(* runs: the task manager (TaskManager), the database (Database) and the   *)
(* GPS client (GpsdClient) as TaskManager::handle and                      *)
(* Database::updateDeviceObservations connect them.  Memory is lost at the *)
(* end of a run, the tables are not.                                       *)
(***************************************************************************)
EXTENDS GpsdClient, Integers, Sequences

CONSTANTS
  Dispatcher,     \* the thread of the D-Bus event loop
  Worker,
  NoThread,
  Device, NoDevice, Address, AddressOf,
  Unknown,        \* "N/A", the address of a device that could not be read
  Junk,
  MaxUpdates      \* bound: calls of updateDevice over all runs

ASSUME PipelineAssumption == /\ Worker # Dispatcher
                             /\ NoThread \notin {Dispatcher, Worker}
                             /\ NoDevice \notin Device
                             /\ AddressOf \in [Device -> Address]
                             /\ Junk \subseteq Int /\ Junk # {}
                             /\ MaxUpdates \in Nat

VARIABLES mutex, tasks, wpc, current, ppc, arg, stop, owner, devices, pushed, stored

TM == INSTANCE TaskManager WITH Pusher <- {Dispatcher}

VARIABLES schema, made, radio_devices, bluetooth_details, radio_observations,
          seen, id, found, fix, pc

\* stableIdentifier(): address and type are two D-Bus reads, each of which may have failed.
Identity == [address : Address \union {Unknown}, typed : BOOLEAN]

DB == INSTANCE Database WITH Identifier <- Identity

VARIABLES
  caller,   \* history: the device object each call of updateDevice was made for
  late      \* history: waits for gpsd since this run was asked to stop, at most one too many

taskVars == <<mutex, tasks, wpc, current, ppc, arg, stop, owner, devices, pushed, stored>>
dbVars == <<schema, made, radio_devices, bluetooth_details, radio_observations,
            seen, id, found, fix, pc>>
history == <<caller, late>>
vars == <<taskVars, dbVars, gpsVars, history>>

Init == TM!Init /\ DB!Init /\ GpsInit /\ caller = <<>> /\ late = 0

\* The database is open, then the task manager is under construction or exists, until
\* ~TaskManager returns or the process dies.
Died == pc \in {"dead", "refused"}
Up == pc # "open" /\ ~Died /\ owner # "destroyed"

-------------------------------------------------------------------------------
(* The constructors, in the order of main's declarations. *)

OpenDatabase ==
  /\ DB!Create \/ DB!Opened
  /\ UNCHANGED <<taskVars, gpsVars, history>>

StartWorker ==
  /\ Up
  /\ TM!Construct
  /\ UNCHANGED <<dbVars, gpsVars, history>>

-------------------------------------------------------------------------------
(* The event loop and the worker. *)

Announce(d) ==
  /\ Up
  /\ Len(seen) + Len(pushed) - Len(stored) < MaxUpdates
  /\ TM!PushLock(Dispatcher, d)
  /\ UNCHANGED <<dbVars, gpsVars, history>>

Dispatch ==
  /\ Up
  /\ TM!PushAppend(Dispatcher) \/ TM!PushNotify(Dispatcher)
  /\ UNCHANGED <<dbVars, gpsVars, history>>

Work ==
  /\ Up
  /\ TM!Run \/ TM!HandleLock \/ TM!HandleInsert
  /\ UNCHANGED <<dbVars, gpsVars, history>>

SpuriousWake ==
  /\ Up
  /\ TM!SpuriousWake
  /\ UNCHANGED <<dbVars, gpsVars, history>>

\* fetchProfile returns, with all, a half or nothing of the device's identity, and handle
\* calls updateDevice.
FetchAndUpdate ==
  /\ Up
  /\ TM!HandleFetch
  /\ \E i \in [address : {AddressOf[current], Unknown}, typed : BOOLEAN] : DB!UpdateDevice(i)
  /\ caller' = Append(caller, current)
  /\ UNCHANGED <<gpsVars, late>>

Statement ==
  /\ Up
  /\ \/ DB!FindRadioDeviceId \/ DB!UpdateLastSeen \/ DB!InsertReference
     \/ DB!UpdateDeviceDetails \/ DB!InsertObservation
  /\ UNCHANGED <<taskVars, gpsVars, history>>

\* updateDevice returns.
UpdateEnd ==
  /\ Up
  /\ pc = "idle"
  /\ TM!HandleUpdate
  /\ UNCHANGED <<dbVars, gpsVars, history>>

-------------------------------------------------------------------------------
(* The GPS in updateDeviceObservations. *)

StartRead ==
  /\ Up
  /\ pc = "gps"
  /\ Read
  /\ UNCHANGED <<taskVars, dbVars, history>>

\* A wait for gpsd, of up to READ_TIMEOUT, and what comes of it.
AwaitReport ==
  /\ Up
  /\ GiveUp \/ \E r \in Report : Receive(r)
  /\ late' = IF stop /\ late <= MaxModeRetry THEN late + 1 ELSE late
  /\ UNCHANGED <<taskVars, dbVars, caller>>

\* read() is not called.
SkipRead ==
  /\ Up
  /\ ~available
  /\ DB!ReadGps
  /\ fix'.position # "measured"
  /\ gpsFix' = Uninitialised
  /\ UNCHANGED <<available, reader, retries, gpsData, taskVars, history>>

\* Defect, for the mutant runs: no observation is made when read() failed.
EndReadOrLeave ==
  /\ Up
  /\ Return
  /\ fix' \in {DB!Reading(p) : p \in DB!Position}
  /\ fix'.reading <=> reader = "ok"
  /\ pc' = IF reader = "ok" THEN "observe" ELSE "idle"
  /\ UNCHANGED <<schema, made, radio_devices, bluetooth_details, radio_observations,
                 seen, id, found, taskVars, history>>

\* gpsReading and gpsFix are what read() returned.
EndRead ==
  /\ Up
  /\ Return
  /\ DB!ReadGps
  /\ fix'.reading <=> reader = "ok"
  /\ UNCHANGED <<taskVars, history>>

-------------------------------------------------------------------------------
(* The ends of a run, and the next one. *)

Destroy ==
  /\ Up
  /\ TM!Destroy
  /\ UNCHANGED <<dbVars, gpsVars, history>>

\* What the process had in memory is gone: all is as at the start of a program.
FreshMemory ==
  /\ mutex' = NoThread
  /\ tasks' = <<>>
  /\ wpc' = "loop"
  /\ current' = NoDevice
  /\ ppc' = [p \in {Dispatcher} |-> "idle"]
  /\ arg' = [p \in {Dispatcher} |-> NoDevice]
  /\ stop' = FALSE
  /\ owner' = "constructing"
  /\ devices' = [a \in Address |-> NoDevice]
  /\ pushed' = <<>>
  /\ stored' = <<>>
  /\ reader' = "idle"
  /\ retries' = 0
  /\ gpsData' = NoReport
  /\ gpsFix' = Uninitialised
  /\ late' = 0
  /\ UNCHANGED caller

\* An exception of the worker or of a constructor, a signal, a power failure.
Crash ==
  /\ owner # "destroyed"
  /\ ~Died
  /\ DB!Die
  /\ FreshMemory
  /\ UNCHANGED available

Restart ==
  /\ Died \/ owner = "destroyed"
  /\ FreshMemory
  /\ available' \in BOOLEAN
  /\ DB!Restart

-------------------------------------------------------------------------------
WorkerStep == Work \/ FetchAndUpdate \/ Statement \/ UpdateEnd
              \/ StartRead \/ AwaitReport \/ SkipRead \/ EndRead

Next == \/ OpenDatabase \/ StartWorker
        \/ \E d \in Device : Announce(d)
        \/ Dispatch
        \/ SpuriousWake
        \/ WorkerStep
        \/ Destroy
        \/ Crash
        \/ Restart

Spec == Init /\ [][Next]_vars

\* The worker's calls end (a wait for gpsd by its timeout), and so does a push() that has
\* begun.  Nothing forces a stop, a crash, or gpsd to send anything.
FairSpec == Spec /\ WF_vars(WorkerStep) /\ WF_vars(Dispatch)
-------------------------------------------------------------------------------
(* Properties. *)

TypeOK ==
  /\ TM!TypeOK
  /\ DB!TypeOK
  /\ GpsTypeOK
  /\ caller \in Seq(Device)
  /\ Len(caller) = Len(seen)
  /\ late \in 0..(MaxModeRetry + 1)
  /\ reader # "idle" => pc = "gps"
  /\ Up => (pc # "idle" => wpc = "update")

\* A stop request, whenever it comes, waits for the ten rounds of one read() and no more:
\* those of the device in hand, or of the one that may still be begun.
StopWaitsForOneRead == late <= MaxModeRetry

\* The device object that an observation or a time stamp of a row is of has the address the
\* row is filed under, whichever runs they are from, unless its address was not read: there
\* is a row with a first_seen not after the observation and a last_seen of the observation's
\* call or a later one, and the calls that wrote all three were for devices of its address.
RowsAreOfTheirDevices ==
  \A o \in 1..Len(radio_observations) :
    LET t == radio_observations[o].at
    IN seen[t.call].address # Unknown =>
         \E r \in 1..Len(radio_devices) :
           /\ DB!NotAfter(radio_devices[r].first, t)
           /\ t.call <= radio_devices[r].last.call
           /\ \A c \in {t.call, radio_devices[r].first.call, radio_devices[r].last.call} :
                AddressOf[caller[c]] = radio_devices[r].identifier.address

\* The status stored with an observation is that of the fix it is stored with: coordinates
\* without a status are never those of a report, not even of a refused one or of one read
\* before a crash.
StatusTellsTheFix == pc = "observe" => (fix.reading <=> gpsFix.latlon = "measured")

\* Where each device's way ends: the object of the call that wrote each observation.
Logged == [o \in 1..Len(radio_observations) |-> caller[radio_observations[o].at.call]]

\* The device that the worker has begun and that has no observation yet.
Unlogged == IF wpc = "update" /\ pc = "idle" THEN NoDevice ELSE current

RunPhase == IF Died THEN "crashed"
            ELSE IF pc = "open" THEN "starting"
            ELSE IF owner = "destroyed" THEN "ended"
            ELSE TM!FeedPhase

Log == INSTANCE Logbook
         WITH log <- Logged,
              waiting <- IF Up THEN tasks ELSE <<>>,
              inHand <- IF Up THEN Unlogged ELSE NoDevice,
              phase <- RunPhase

\* Task manager, database and GPS client together keep the promise of Logbook, through
\* stops, exceptions, crashes and restarts: nothing announced is logged out of order, twice
\* or by half, a clean exit leaves no device begun and unlogged, nothing logged is lost.
ImplementsLogbook == Log!Spec

\* What is announced gets its observation in the file, whatever gpsd does, unless a stop or
\* the end of the process intervenes.
AnnouncedIsObserved ==
  \A d \in Device :
    d \in TM!Elements(tasks) ~> (d \in TM!Elements(stored) \/ stop \/ Died)
===============================================================================
