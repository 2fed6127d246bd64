------------------------------- MODULE Database -------------------------------
(***************************************************************************)
(* The SQLite storage of src/Database.{h,cpp}: the constructor and         *)
(* updateDevice as the sequences of their statements.  Each one commits on *)
(* its own, each may fail and throw, nothing catches the exception, and    *)
(* the file outlives the process: a restart finds the tables as the last   *)
(* statement left them.                                                    *)
(*                                                                         *)
(* currentUtcTime() is read up to three times in a call of updateDevice: a *)
(* time stamp is the number of the call and of the reading within it, in   *)
(* the order in which a clock that is never set back numbers them.         *)
(***************************************************************************)
EXTENDS Integers, Sequences

CONSTANTS
  Identifier,    \* stable identifiers, "address/type"
  Junk,          \* what an uninitialised Device::id_ may hold
  MaxUpdates     \* bound: calls of updateDevice in a behaviour

ASSUME JunkAssumption == Junk \subseteq Int /\ Junk # {}
ASSUME BoundAssumption == MaxUpdates \in Nat

VARIABLES
  schema,              \* how many statements of Schema the file has seen
  made,                \* how many of them this run's constructor has executed
  radio_devices,       \* sequence of rows; a row's id is its index (AUTOINCREMENT, no DELETE)
  bluetooth_details,   \* function from the device_id's present to rows
  radio_observations,  \* sequence of rows
  seen,                \* history: the identifier each call of updateDevice was made for
  id,                  \* id_ of the device in hand
  found,               \* what findRadioDeviceId returned, 0 for nullopt
  fix,                 \* the local gpsFix and gpsReading of updateDeviceObservations
  pc                   \* where updateDevice is

tables == <<radio_devices, bluetooth_details, radio_observations>>
opening == <<schema, made>>
vars == <<opening, radio_devices, bluetooth_details, radio_observations, seen, id, found, fix, pc>>

\* The statements of initializeSchema.
Schema == <<"radio_devices", "bluetooth_details", "radio_observations",
            "idx_radio_observations_time">>

\* "refused" is an exception of the code's own making: a missing table, a UNIQUE constraint,
\* or an UPDATE that changed no row.  "dead" is a process ended by an error of SQLite or by
\* a crash.
Pc == {"open", "idle", "find", "update", "insert", "details", "gps", "observe", "refused", "dead"}

Now == Len(seen)

\* currentUtcTime() in the call in progress: reading 1 is for the reference row, reading 2 for
\* the details, reading 3, which comes after the wait for gpsd, for the observation.
Stamp(reading) == [call |-> Now, reading |-> reading]

NotAfter(s, t) == \/ s.call < t.call
                  \/ s.call = t.call /\ s.reading <= t.reading

\* Coordinates: unset is a double nobody wrote (a NaN among them is stored as NULL).
Position == {"measured", "unset", "null"}
Reading(p) == [reading |-> p = "measured", position |-> p]

RowsOf(i) == {r \in 1..Len(radio_devices) : radio_devices[r].identifier = i}

Init == /\ schema = 0
        /\ made = 0
        /\ radio_devices = <<>>
        /\ bluetooth_details = [d \in {} |-> 0]
        /\ radio_observations = <<>>
        /\ seen = <<>>
        /\ id \in Junk
        /\ found = 0
        /\ fix = Reading("unset")
        /\ pc = "open"

\* Database(path, gps): exec of the next CREATE ... IF NOT EXISTS.
Create ==
  /\ pc = "open"
  /\ made < Len(Schema)
  /\ made' = made + 1
  /\ schema' = IF schema < made' THEN made' ELSE schema
  /\ UNCHANGED <<tables, seen, id, found, fix, pc>>

Opened ==
  /\ pc = "open"
  /\ made = Len(Schema)
  /\ pc' = "idle"
  /\ UNCHANGED <<opening, tables, seen, id, found, fix>>

\* updateDevice(device) is called with the device object of one announcement, whose
\* constructor leaves id_ uninitialised.
UpdateDevice(i) ==
  /\ pc = "idle"
  /\ Now < MaxUpdates
  /\ seen' = Append(seen, i)
  /\ id' \in Junk
  /\ pc' = "find"
  /\ UNCHANGED <<opening, tables, found, fix>>

-------------------------------------------------------------------------------
(* updateDeviceReference *)

\* Defect, for the mutant runs: the lookup never matches (a wrong radio_type).
NoRowMatches(i) == {}

\* Defect: the SELECT has lost its condition on stable_identifier.
AnyRow(i) == 1..Len(radio_devices)

\* SELECT id ... WHERE radio_type = 'bluetooth' AND stable_identifier = ?
Matches(i) == RowsOf(i)

FindRadioDeviceId ==
  /\ pc = "find"
  /\ IF schema < Len(Schema)
       THEN found' = 0 /\ pc' = "refused"
       ELSE \/ \E r \in Matches(seen[Now]) : found' = r /\ pc' = "update"
            \/ Matches(seen[Now]) = {} /\ found' = 0 /\ pc' = "insert"
  /\ UNCHANGED <<opening, tables, seen, id, fix>>

\* Defect: the UPDATE also rewrites first_seen_utc.
TouchBoth(r) == [radio_devices EXCEPT ![r].first = Stamp(1), ![r].last = Stamp(1)]

\* SET last_seen_utc = ?
Touch(r) == [radio_devices EXCEPT ![r].last = Stamp(1)]

\* Defect: the row is looked up by the id of the device instead of the one just found.
UpdateById ==
  /\ pc = "update"
  /\ IF id \in 1..Len(radio_devices)
       THEN radio_devices' = Touch(id) /\ pc' = "details"
       ELSE radio_devices' = radio_devices /\ pc' = "refused"
  /\ UNCHANGED <<opening, bluetooth_details, radio_observations, seen, id, found, fix>>

\* UPDATE radio_devices SET last_seen_utc = ? WHERE id = ?; the device keeps its id_.
UpdateLastSeen ==
  /\ pc = "update"
  /\ IF found \in 1..Len(radio_devices)
       THEN radio_devices' = Touch(found) /\ pc' = "details"
       ELSE radio_devices' = radio_devices /\ pc' = "refused"
  /\ UNCHANGED <<opening, bluetooth_details, radio_observations, seen, id, found, fix>>

\* Defect: the device does not learn the id of its new row.
KeepId == id

\* device.setId(sqlite3_last_insert_rowid(db_)), after the INSERT
LastInsertRowid == Len(radio_devices) + 1

\* Defect: last_seen_utc is left out of the INSERT.
NewRowUnstamped == [identifier |-> seen[Now], first |-> Stamp(1),
                    last |-> [Stamp(1) EXCEPT !.call = 0]]

\* first_seen_utc and last_seen_utc are one and the same time stamp.
NewRow == [identifier |-> seen[Now], first |-> Stamp(1), last |-> Stamp(1)]

\* INSERT INTO radio_devices, under UNIQUE(radio_type, stable_identifier)
InsertReference ==
  /\ pc = "insert"
  /\ IF RowsOf(seen[Now]) = {}
       THEN /\ radio_devices' = Append(radio_devices, NewRow)
            /\ id' = LastInsertRowid
            /\ pc' = "details"
       ELSE /\ UNCHANGED <<radio_devices, id>>
            /\ pc' = "refused"
  /\ UNCHANGED <<opening, bluetooth_details, radio_observations, seen, found, fix>>

-------------------------------------------------------------------------------
(* updateDeviceDetails and updateDeviceObservations *)

\* Defect: ON CONFLICT(device_id) DO NOTHING.
InsertIfAbsent(d) ==
  [k \in DOMAIN bluetooth_details \union {d} |->
     IF k \in DOMAIN bluetooth_details THEN bluetooth_details[k]
     ELSE [updated |-> Stamp(2), icon |-> Stamp(2)]]

\* ON CONFLICT(device_id) DO UPDATE SET ... lists every column but icon, class and
\* appearance, which stay those of the first insertion.
Upsert(d) ==
  [k \in DOMAIN bluetooth_details \union {d} |->
     IF k # d THEN bluetooth_details[k]
     ELSE [updated |-> Stamp(2),
           icon |-> IF d \in DOMAIN bluetooth_details THEN bluetooth_details[d].icon
                    ELSE Stamp(2)]]

UpdateDeviceDetails ==
  /\ pc = "details"
  /\ bluetooth_details' = Upsert(id)
  /\ pc' = "gps"
  /\ UNCHANGED <<opening, radio_devices, radio_observations, seen, id, found, fix>>

\* gps_.available() and gps_.read(gpsFix) == 0, or gpsFix stays uninitialised.
ReadGps ==
  /\ pc = "gps"
  /\ \E p \in Position : fix' = Reading(p)
  /\ pc' = "observe"
  /\ UNCHANGED <<opening, tables, seen, id, found>>

\* INSERT INTO radio_observations; the coordinates are bound whatever the reading was.
InsertObservation ==
  /\ pc = "observe"
  /\ radio_observations' = Append(radio_observations,
       [device_id |-> id, at |-> Stamp(3), gps_status |-> fix.reading, position |-> fix.position])
  /\ pc' = "idle"
  /\ UNCHANGED <<opening, radio_devices, bluetooth_details, seen, id, found, fix>>

-------------------------------------------------------------------------------
\* SQLITE_BUSY, a full disk, or the end of the process for any other reason: a statement
\* takes effect as a whole or not at all.
Die ==
  /\ pc # "dead"
  /\ pc' = "dead"
  /\ UNCHANGED <<opening, tables, seen, id, found, fix>>

\* Defect: the tables are only created when the file is.
RestartAsIs ==
  /\ pc \in {"idle", "refused", "dead"}
  /\ made' = 0
  /\ pc' = IF schema = 0 THEN "open" ELSE "idle"
  /\ UNCHANGED <<schema, tables, seen, id, found, fix>>

\* The next run of the program, after one that ended in any way.
Restart ==
  /\ pc \in {"idle", "refused", "dead"}
  /\ made' = 0
  /\ pc' = "open"
  /\ UNCHANGED <<schema, tables, seen, id, found, fix>>

Next == \/ Create
        \/ Opened
        \/ \E i \in Identifier : UpdateDevice(i)
        \/ FindRadioDeviceId
        \/ UpdateLastSeen
        \/ InsertReference
        \/ UpdateDeviceDetails
        \/ ReadGps
        \/ InsertObservation
        \/ Die
        \/ Restart

Spec == Init /\ [][Next]_vars
-------------------------------------------------------------------------------
(* Properties. *)

Call == 1..Now
Time(reading) == [call : Call, reading : {reading}]
Observation == [device_id : Int, at : Time(3), gps_status : BOOLEAN, position : Position]

TypeOK ==
  /\ schema \in 0..Len(Schema)
  /\ made \in 0..schema
  /\ radio_devices \in Seq([identifier : Identifier, first : Time(1), last : Time(1)])
  /\ DOMAIN bluetooth_details \subseteq Int
  /\ bluetooth_details \in [DOMAIN bluetooth_details -> [updated : Time(2), icon : Time(2)]]
  /\ radio_observations \in Seq(Observation)
  /\ seen \in Seq(Identifier)
  /\ id \in Int
  /\ found \in Nat
  /\ fix \in {Reading(p) : p \in Position}
  /\ pc \in Pc
  /\ pc \in {"find", "update", "insert", "details", "gps", "observe"} => Now # 0

\* Looking up before writing, in a schema completed before any use, is enough: neither a
\* missing table nor UNIQUE(radio_type, stable_identifier) nor "No radio_devices row
\* updated" ever ends the program, also after a crash between any two statements of an
\* earlier run.
NeverRefused == pc # "refused"

\* The device seen at time t has a reference row with a first_seen not after t and a last_seen
\* of the call that t belongs to, or of a later one.
Covered(t) == \E r \in RowsOf(seen[t.call]) : /\ NotAfter(radio_devices[r].first, t)
                                            /\ t.call <= radio_devices[r].last.call

\* However many crashes there were, an observation is never in the file without its device's
\* reference row: observed_at_utc is not before that row's first_seen_utc, and last_seen_utc
\* was written by the observation's own call or a later one.  (observed_at_utc may lie after
\* last_seen_utc, by no more than what a call spends between its first and its last reading.)
LastSeenCovers ==
  \A o \in 1..Len(radio_observations) : Covered(radio_observations[o].at)

\* There is one row for an identifier, and only calls made for it stamp that row: its
\* first_seen and last_seen are times at which this device, and no other, was seen.
RowsAreOwn ==
  \A r \in 1..Len(radio_devices) :
    /\ RowsOf(radio_devices[r].identifier) = {r}
    /\ seen[radio_devices[r].first.call] = radio_devices[r].identifier
    /\ seen[radio_devices[r].last.call] = radio_devices[r].identifier

\* An observation is never in the file without the details written in its own call or a
\* later one under the same device_id.
DetailsCover ==
  \A o \in 1..Len(radio_observations) :
    /\ radio_observations[o].device_id \in DOMAIN bluetooth_details
    /\ radio_observations[o].at.call
         <= bluetooth_details[radio_observations[o].device_id].updated.call

\* A call that inserted its device files the observation under the new row.
FirstObservationIsLinked ==
  \A o \in 1..Len(radio_observations), r \in 1..Len(radio_devices) :
    radio_devices[r].first.call = radio_observations[o].at.call
      => radio_observations[o].device_id = r

\* What a row says of the past is never rewritten, by a statement, a failure or a restart:
\* identity and first_seen stay, last_seen only advances, observations are only added.
HistoryKept ==
  [][/\ Len(radio_devices) <= Len(radio_devices')
     /\ \A r \in 1..Len(radio_devices) :
          /\ radio_devices'[r].identifier = radio_devices[r].identifier
          /\ radio_devices'[r].first = radio_devices[r].first
          /\ NotAfter(radio_devices[r].last, radio_devices'[r].last)
     /\ SubSeq(radio_observations', 1, Len(radio_observations)) = radio_observations]_vars

\* "Time-stamped observations per device" (README), device_id REFERENCES radio_devices(id)
\* (the schema): an observation is filed under the row of the device that was observed.
ObservationOfItsDevice ==
  \A o \in 1..Len(radio_observations) :
    radio_observations[o].device_id \in RowsOf(seen[radio_observations[o].at.call])

\* "latest Bluetooth-specific details for each known device" (README): the columns of a
\* row of bluetooth_details come from one and the same call.
DetailsAreLatest ==
  \A d \in DOMAIN bluetooth_details :
    bluetooth_details[d].icon = bluetooth_details[d].updated

\* "optional GPS coordinates" (README): coordinates are recorded when there was a fix, and
\* are NULL otherwise.
CoordinatesAreOptional ==
  \A o \in 1..Len(radio_observations) :
    radio_observations[o].gps_status \/ radio_observations[o].position = "null"
===============================================================================
