--------------------------- MODULE Database_proofs ---------------------------
(***************************************************************************)
(* Proofs about Database, for any number of devices and of calls, whatever *)
(* an uninitialised id_ holds, and with an error, a crash and a restart    *)
(* possible at every statement.                                            *)
(***************************************************************************)
EXTENDS Database, SequenceTheorems, TLAPS

Row == [identifier : Identifier, first : Time(1), last : Time(1)]

\* The schema has four statements.
LEMMA SchemaLength == Len(Schema) = 4
BY DEF Schema

\* A call number stays a call number, and rows written with it stay rows, as calls go on.
LEMMA CallsGrow ==
  ASSUME TypeOK, NEW i \in Identifier, UpdateDevice(i)
  PROVE  /\ seen' \in Seq(Identifier)
         /\ Now' = Now + 1 /\ Now \in Nat
         /\ Call \subseteq Call'
         /\ seen'[Now'] = i
         /\ \A c \in Call : seen'[c] = seen[c]
<1>1. seen \in Seq(Identifier) /\ seen' = Append(seen, i)
  BY DEF TypeOK, UpdateDevice
<1>2. /\ seen' \in Seq(Identifier)
      /\ Len(seen') = Len(seen) + 1
      /\ \A c \in 1..Len(seen) : seen'[c] = seen[c]
      /\ seen'[Len(seen) + 1] = i
  BY <1>1, AppendProperties
<1>3. Len(seen) \in Nat
  BY <1>1, LenProperties
<1>4. QED
  BY <1>2, <1>3 DEF Now, Call

\* Every table keeps its columns' types, and a call is in progress only once one was made.
THEOREM TypeCorrect == Spec => []TypeOK
<1>1. Init => TypeOK
  <2> SUFFICES ASSUME Init
               PROVE  TypeOK
    OBVIOUS
  <2>1. /\ radio_devices \in Seq(Row)
        /\ radio_observations \in Seq(Observation)
        /\ seen \in Seq(Identifier)
    BY EmptySeq DEF Init
  <2>2. /\ DOMAIN bluetooth_details = {}
        /\ bluetooth_details \in [DOMAIN bluetooth_details -> [updated : Time(2), icon : Time(2)]]
    BY DEF Init
  <2>3. QED
    BY <2>1, <2>2, JunkAssumption, SchemaLength DEF Init, TypeOK, Row, Pc, Position
<1>2. ASSUME TypeOK, [Next]_vars
      PROVE  TypeOK'
  <2> USE <1>2
  <2>1. ASSUME NEW i \in Identifier, UpdateDevice(i)
        PROVE  TypeOK'
    <3>1. /\ seen' \in Seq(Identifier)
          /\ Now' = Now + 1 /\ Now \in Nat
          /\ Call \subseteq Call'
      BY <2>1, CallsGrow
    <3>2. Row \subseteq Row' /\ Observation \subseteq Observation'
      BY <3>1 DEF Row, Observation, Time
    <3>3. /\ radio_devices' \in Seq(Row') /\ radio_observations' \in Seq(Observation')
      <4>1. radio_devices \in Seq(Row) /\ radio_observations \in Seq(Observation)
        BY DEF TypeOK, Row
      <4>2. UNCHANGED <<radio_devices, radio_observations>>
        BY <2>1 DEF UpdateDevice, tables
      <4>3. QED
        BY <3>2, <4>1, <4>2, SeqMonotonic
    <3>4. /\ DOMAIN bluetooth_details' \subseteq Int
          /\ bluetooth_details' \in [DOMAIN bluetooth_details' -> [updated : Time(2)', icon : Time(2)']]
      BY <2>1, <3>1 DEF TypeOK, UpdateDevice, tables, Time
    <3>5. id' \in Int /\ found' \in Nat /\ fix' = fix /\ pc' \in Pc /\ opening' = opening
      BY <2>1, JunkAssumption DEF TypeOK, UpdateDevice, Pc
    <3>6. QED
      BY <3>1, <3>3, <3>4, <3>5 DEF TypeOK, Row, Time, Reading, Position, opening
  <2>2. ASSUME FindRadioDeviceId
        PROVE  TypeOK'
    <3>1. found' \in Nat
      BY <2>2 DEF FindRadioDeviceId, Matches, RowsOf
    <3>2. QED
      BY <2>2, <3>1 DEF TypeOK, FindRadioDeviceId, tables, opening, Now, Call, Time, Observation, Pc, Reading
  <2>3. ASSUME UpdateLastSeen
        PROVE  TypeOK'
    <3>1. radio_devices' \in Seq(Row)
      <4>1. CASE found \in 1..Len(radio_devices)
        <5>1. radio_devices \in Seq(Row) /\ Now \in Call
          BY <2>3, LenProperties DEF TypeOK, Row, UpdateLastSeen, Now, Call
        <5> DEFINE e == [radio_devices[found] EXCEPT !.last = Stamp(1)]
        <5>2. radio_devices[found] \in Row
          BY <4>1, <5>1, ElementOfSeq
        <5>3. e \in Row
          BY <5>1, <5>2 DEF Row, Time, Stamp
        <5>4. radio_devices' = [radio_devices EXCEPT ![found] = e]
          BY <2>3, <4>1 DEF UpdateLastSeen, Touch
        <5>5. QED
          BY <4>1, <5>1, <5>3, <5>4, ExceptSeq
      <4>2. CASE found \notin 1..Len(radio_devices)
        BY <2>3, <4>2 DEF TypeOK, Row, UpdateLastSeen
      <4>3. QED
        BY <4>1, <4>2
    <3>2. QED
      BY <2>3, <3>1 DEF TypeOK, Row, UpdateLastSeen, opening, Now, Call, Time, Observation, Pc, Reading
  <2>4. ASSUME InsertReference
        PROVE  TypeOK'
    <3>1. radio_devices \in Seq(Row) /\ Len(radio_devices) \in Nat
      BY LenProperties DEF TypeOK, Row
    <3>2. NewRow \in Row
      <4>1. Now \in Call /\ seen[Now] \in Identifier
        BY <2>4, LenProperties, ElementOfSeq DEF TypeOK, InsertReference, Now, Call
      <4>2. QED
        BY <4>1 DEF NewRow, Row, Time, Stamp
    <3>3. radio_devices' \in Seq(Row) /\ id' \in Int
      <4>1. Append(radio_devices, NewRow) \in Seq(Row)
        BY <3>1, <3>2, AppendProperties
      <4>2. LastInsertRowid \in Int /\ id \in Int
        BY <3>1 DEF TypeOK, LastInsertRowid
      <4>3. QED
        BY <2>4, <3>1, <4>1, <4>2 DEF InsertReference
    <3>4. QED
      BY <2>4, <3>3 DEF TypeOK, Row, InsertReference, opening, Now, Call, Time, Observation, Pc, Reading
  <2>5. ASSUME UpdateDeviceDetails
        PROVE  TypeOK'
    <3>1. Now \in Call
      BY <2>5, LenProperties DEF TypeOK, UpdateDeviceDetails, Now, Call
    <3>2. /\ DOMAIN bluetooth_details' \subseteq Int
          /\ bluetooth_details' \in [DOMAIN bluetooth_details' -> [updated : Time(2), icon : Time(2)]]
      BY <2>5, <3>1 DEF TypeOK, UpdateDeviceDetails, Upsert, Time, Stamp
    <3>3. QED
      BY <2>5, <3>2 DEF TypeOK, UpdateDeviceDetails, opening, Now, Call, Time, Observation, Pc, Reading
  <2>6. ASSUME ReadGps
        PROVE  TypeOK'
    BY <2>6 DEF TypeOK, ReadGps, tables, opening, Now, Call, Time, Observation, Pc, Reading
  <2>7. ASSUME InsertObservation
        PROVE  TypeOK'
    <3> DEFINE o == [device_id |-> id, at |-> Stamp(3), gps_status |-> fix.reading,
                     position |-> fix.position]
    <3>1. Now \in Call
      BY <2>7, LenProperties DEF TypeOK, InsertObservation, Now, Call
    <3>2. o \in Observation
      <4>1. PICK p \in Position : fix = [reading |-> p = "measured", position |-> p]
        BY DEF TypeOK, Reading
      <4>2. fix.reading \in BOOLEAN /\ fix.position \in Position
        BY <4>1
      <4>3. QED
        BY <3>1, <4>2 DEF TypeOK, Observation, Time, Stamp
    <3>3. radio_observations' \in Seq(Observation)
      BY <2>7, <3>2, AppendProperties DEF TypeOK, InsertObservation
    <3>4. QED
      BY <2>7, <3>3 DEF TypeOK, InsertObservation, opening, Now, Call, Time, Observation, Pc, Reading
  <2>8. ASSUME Die \/ Restart \/ Opened
        PROVE  TypeOK'
    <3>1. schema' \in 0..Len(Schema) /\ made' \in 0..schema'
      BY <2>8, SchemaLength DEF TypeOK, Die, Restart, Opened, opening
    <3>2. UNCHANGED <<tables, seen, id, found, fix>>
      BY <2>8 DEF Die, Restart, Opened
    <3>3. pc' \in {"dead", "open", "idle"}
      BY <2>8 DEF Die, Restart, Opened
    <3>4. QED
      BY <3>1, <3>2, <3>3 DEF TypeOK, tables, Now, Call, Time, Observation, Pc, Reading
  <2>9. ASSUME Create
        PROVE  TypeOK'
    <3>1. schema' \in 0..Len(Schema) /\ made' \in 0..schema'
      BY <2>9, SchemaLength DEF TypeOK, Create
    <3>2. QED
      BY <2>9, <3>1 DEF TypeOK, Create, tables, Now, Call, Time, Observation, Reading
  <2>10. ASSUME UNCHANGED vars
         PROVE  TypeOK'
    BY <2>10 DEF TypeOK, vars, opening, Now, Call, Time, Observation, Reading
  <2>11. QED
    BY <2>1, <2>2, <2>3, <2>4, <2>5, <2>6, <2>7, <2>8, <2>9, <2>10 DEF Next
<1>3. QED
  BY <1>1, <1>2, PTL DEF Spec

-------------------------------------------------------------------------------
(* The reference table across failures and restarts. *)

\* A row that covers a time goes on covering it: no statement, error or restart rewrites
\* an identifier or first_seen, and last_seen only advances.
LEMMA CoverKept ==
  ASSUME TypeOK, [Next]_vars, NEW t \in Time(3), Covered(t)
  PROVE  Covered(t)'
<1> DEFINE c == t.call
<1> PICK r \in RowsOf(seen[c]) :
           NotAfter(radio_devices[r].first, t) /\ c <= radio_devices[r].last.call
  BY DEF Covered
<1>1. r \in 1..Len(radio_devices) /\ radio_devices[r].identifier = seen[c]
  BY DEF RowsOf
<1>2. radio_devices \in Seq(Row) /\ Len(radio_devices) \in Nat /\ radio_devices[r] \in Row
  BY <1>1, LenProperties, ElementOfSeq DEF TypeOK, Row
<1>3. Len(seen) \in Nat /\ c \in Call /\ c \in 1..Len(seen)
  BY LenProperties DEF TypeOK, Time, Call, Now
<1>4. SUFFICES /\ seen'[c] = seen[c]
               /\ r \in 1..Len(radio_devices')
               /\ radio_devices'[r].identifier = seen[c]
               /\ radio_devices'[r].first = radio_devices[r].first
               /\ c <= radio_devices'[r].last.call
  BY DEF Covered, RowsOf, NotAfter
<1> HIDE DEF c
<1>5. CASE \E i \in Identifier : UpdateDevice(i)
  <2>1. PICK i \in Identifier : UpdateDevice(i)
    BY <1>5
  <2>2. seen'[c] = seen[c]
    BY <1>3, <2>1, CallsGrow
  <2>3. QED
    BY <1>1, <2>1, <2>2 DEF UpdateDevice, tables
<1>6. CASE UpdateLastSeen
  <2>1. seen' = seen
    BY <1>6 DEF UpdateLastSeen
  <2>2. CASE found \in 1..Len(radio_devices)
    <3>1. radio_devices' = [radio_devices EXCEPT ![found].last = Stamp(1)]
      BY <1>6, <2>2 DEF UpdateLastSeen, Touch
    <3>2. /\ Len(radio_devices') = Len(radio_devices)
          /\ radio_devices'[r].identifier = radio_devices[r].identifier
          /\ radio_devices'[r].first = radio_devices[r].first
          /\ radio_devices'[r].last \in {radio_devices[r].last, Stamp(1)}
      BY <1>1, <1>2, <2>2, <3>1 DEF Row
    <3>3. QED
      BY <1>1, <1>3, <2>1, <3>2 DEF Now, Stamp
  <2>3. CASE found \notin 1..Len(radio_devices)
    BY <1>1, <1>6, <2>1, <2>3 DEF UpdateLastSeen
  <2>4. QED
    BY <2>2, <2>3
<1>7. CASE InsertReference
  <2>1. CASE radio_devices' = radio_devices
    BY <1>1, <1>7, <2>1 DEF InsertReference
  <2>2. CASE radio_devices' = Append(radio_devices, NewRow)
    <3>1. NewRow \in Row
      <4>1. Now \in Call /\ seen[Now] \in Identifier
        BY <1>7, LenProperties, ElementOfSeq DEF TypeOK, InsertReference, Now, Call
      <4>2. QED
        BY <4>1 DEF NewRow, Row, Time, Stamp
    <3>2. Len(radio_devices') = Len(radio_devices) + 1 /\ radio_devices'[r] = radio_devices[r]
      BY <1>1, <1>2, <2>2, <3>1, AppendProperties
    <3>3. seen' = seen
      BY <1>7 DEF InsertReference
    <3>4. QED
      BY <1>1, <1>2, <3>2, <3>3
  <2>3. QED
    BY <1>7, <2>1, <2>2 DEF InsertReference
<1>8. CASE UNCHANGED <<radio_devices, seen>>
  BY <1>1, <1>8
<1>9. QED
  BY <1>5, <1>6, <1>7, <1>8
     DEF Next, vars, tables, FindRadioDeviceId, UpdateDeviceDetails, ReadGps,
         InsertObservation, Die, Restart, Create, Opened

\* What findRadioDeviceId returned is still true when the statement that relies on it runs,
\* and once that statement has run the call in progress is covered.
LookupIsCurrent ==
  /\ pc = "update" => found \in RowsOf(seen[Now])
  /\ pc = "insert" => RowsOf(seen[Now]) = {}

CallIsCovered == pc \in {"details", "gps", "observe"} => Covered(Stamp(3))

\* Past the constructor the schema is complete, whatever an earlier run left of it.
SchemaReady == pc \notin {"open", "refused", "dead"} => schema = Len(Schema)

LEMMA SchemaReadyHolds == Spec => []SchemaReady
<1>1. Init => SchemaReady
  BY DEF Init, SchemaReady
<1>2. ASSUME TypeOK, SchemaReady, [Next]_vars
      PROVE  SchemaReady'
  <2>1. CASE Opened
    BY <1>2, <2>1, SchemaLength DEF TypeOK, SchemaReady, Opened, opening
  <2>2. CASE FindRadioDeviceId
    BY <1>2, <2>2 DEF SchemaReady, FindRadioDeviceId, opening
  <2>3. CASE pc' \in {"open", "refused", "dead"}
    BY <2>3 DEF SchemaReady
  <2>4. CASE UNCHANGED schema /\ (pc' \notin {"open", "refused", "dead"}
                                   => pc \notin {"open", "refused", "dead"})
    BY <1>2, <2>4 DEF SchemaReady
  <2>5. QED
    BY <1>2, <2>1, <2>2, <2>3, <2>4
       DEF Next, vars, opening, Create, UpdateDevice, UpdateLastSeen, InsertReference,
           UpdateDeviceDetails, ReadGps, InsertObservation, Die, Restart
<1>3. QED
  BY <1>1, <1>2, TypeCorrect, PTL DEF Spec

ReferenceInv == LookupIsCurrent /\ CallIsCovered /\ NeverRefused /\ LastSeenCovers

LEMMA ReferenceInvHolds == Spec => []ReferenceInv
<1>1. Init => ReferenceInv
  BY DEF Init, ReferenceInv, LookupIsCurrent, CallIsCovered, NeverRefused, LastSeenCovers
<1>2. ASSUME TypeOK, SchemaReady, ReferenceInv, [Next]_vars
      PROVE  ReferenceInv'
  <2> USE <1>2
  <2>1. (LookupIsCurrent /\ NeverRefused)'
    <3>1. ASSUME NEW i \in Identifier, UpdateDevice(i)
          PROVE  (LookupIsCurrent /\ NeverRefused)'
      BY <3>1 DEF LookupIsCurrent, NeverRefused, UpdateDevice
    <3>2. ASSUME FindRadioDeviceId
          PROVE  (LookupIsCurrent /\ NeverRefused)'
      <4>1. schema = Len(Schema)
        BY <3>2 DEF SchemaReady, FindRadioDeviceId
      <4>2. QED
        BY <3>2, <4>1, SchemaLength
           DEF LookupIsCurrent, NeverRefused, FindRadioDeviceId, Matches, RowsOf, Now, tables
    <3>3. ASSUME UpdateLastSeen
          PROVE  (LookupIsCurrent /\ NeverRefused)'
      BY <3>3 DEF ReferenceInv, LookupIsCurrent, NeverRefused, UpdateLastSeen, RowsOf
    <3>4. ASSUME InsertReference
          PROVE  (LookupIsCurrent /\ NeverRefused)'
      BY <3>4 DEF ReferenceInv, LookupIsCurrent, NeverRefused, InsertReference
    <3>5. ASSUME \/ UpdateDeviceDetails \/ ReadGps \/ InsertObservation \/ Die
                 \/ Create \/ Opened \/ Restart
          PROVE  (LookupIsCurrent /\ NeverRefused)'
      BY <3>5 DEF LookupIsCurrent, NeverRefused, UpdateDeviceDetails, ReadGps,
                  InsertObservation, Die, Create, Opened, Restart
    <3>6. ASSUME UNCHANGED vars
          PROVE  (LookupIsCurrent /\ NeverRefused)'
      BY <3>6 DEF ReferenceInv, LookupIsCurrent, NeverRefused, vars, RowsOf, Now
    <3>7. QED
      BY <3>1, <3>2, <3>3, <3>4, <3>5, <3>6 DEF Next
  <2>2. CallIsCovered'
    <3>1. CASE UpdateLastSeen
      <4>1. found \in 1..Len(radio_devices) /\ radio_devices[found].identifier = seen[Now]
        BY <3>1 DEF ReferenceInv, LookupIsCurrent, UpdateLastSeen, RowsOf
      <4>2. radio_devices \in Seq(Row) /\ radio_devices[found] \in Row /\ Now \in Nat
        BY <4>1, LenProperties, ElementOfSeq DEF TypeOK, Row, Now
      <4>3. radio_devices' = [radio_devices EXCEPT ![found].last = Stamp(1)] /\ seen' = seen
        BY <3>1, <4>1 DEF UpdateLastSeen, Touch
      <4>4. /\ found \in 1..Len(radio_devices')
            /\ radio_devices'[found].identifier = seen[Now]
            /\ radio_devices'[found].first = radio_devices[found].first
            /\ radio_devices'[found].last = Stamp(1)
        BY <4>1, <4>2, <4>3 DEF Row
      <4>5. NotAfter(radio_devices[found].first, Stamp(3)) /\ Stamp(1).call = Now
        BY <4>2 DEF Row, Time, Call, NotAfter, Stamp
      <4>6. NotAfter(radio_devices'[found].first, Stamp(3))
        BY <4>4, <4>5
      <4>7. QED
        BY <4>2, <4>3, <4>4, <4>6 DEF CallIsCovered, Covered, RowsOf, Now, Stamp, NotAfter
    <3>2. CASE InsertReference
      <4>1. RowsOf(seen[Now]) = {}
        BY <3>2 DEF ReferenceInv, LookupIsCurrent, InsertReference
      <4>2. radio_devices' = Append(radio_devices, NewRow) /\ seen' = seen
        BY <3>2, <4>1 DEF InsertReference
      <4>3. radio_devices \in Seq(Row) /\ Now \in Nat /\ Now \in Call /\ seen[Now] \in Identifier
        BY <3>2, LenProperties, ElementOfSeq DEF TypeOK, Row, InsertReference, Now, Call
      <4>4. NewRow \in Row
        BY <4>3 DEF NewRow, Row, Time, Stamp
      <4> DEFINE r == Len(radio_devices) + 1
      <4>5. r \in 1..Len(radio_devices') /\ radio_devices'[r] = NewRow
        BY <4>2, <4>3, <4>4, AppendProperties, LenProperties
      <4>6. QED
        BY <4>2, <4>3, <4>5 DEF CallIsCovered, Covered, RowsOf, NewRow, Now, Stamp, NotAfter
    <3>3. CASE UpdateDeviceDetails \/ ReadGps
      <4>1. Now \in Call /\ Now' = Now
        BY <3>3, LenProperties DEF TypeOK, UpdateDeviceDetails, ReadGps, Now, Call
      <4>2. Covered(Stamp(3))
        BY <3>3 DEF ReferenceInv, CallIsCovered, UpdateDeviceDetails, ReadGps
      <4>3. Covered(Stamp(3))'
        BY <3>3, <4>1, <4>2
           DEF Covered, RowsOf, Stamp, NotAfter, UpdateDeviceDetails, ReadGps, tables
      <4>4. QED
        BY <4>3 DEF CallIsCovered
    <3>4. CASE UNCHANGED vars
      BY <3>4 DEF ReferenceInv, CallIsCovered, Covered, RowsOf, NotAfter, Stamp, Now, vars
    <3>5. CASE pc' \notin {"details", "gps", "observe"}
      BY <3>5 DEF CallIsCovered
    <3>6. QED
      BY <3>1, <3>2, <3>3, <3>4, <3>5
         DEF Next, UpdateDevice, FindRadioDeviceId, InsertObservation, Die, Create, Opened,
             Restart
  <2>3. LastSeenCovers'
    <3>1. radio_observations \in Seq(Observation) /\ Len(radio_observations) \in Nat
      BY LenProperties DEF TypeOK
    <3>2. \A o \in 1..Len(radio_observations) : radio_observations[o].at \in Time(3)
      <4>1. \A o \in 1..Len(radio_observations) : radio_observations[o] \in Observation
        BY <3>1, ElementOfSeq
      <4>2. QED
        BY <4>1 DEF Observation
    <3>3. ASSUME NEW t \in Time(3), Covered(t)
          PROVE  Covered(t)'
      BY <3>3, CoverKept
    <3>4. CASE InsertObservation
      <4> DEFINE new == [device_id |-> id, at |-> Stamp(3), gps_status |-> fix.reading,
                         position |-> fix.position]
      <4>1. Stamp(3) \in Time(3) /\ Covered(Stamp(3))
        BY <3>4, LenProperties
           DEF TypeOK, InsertObservation, ReferenceInv, CallIsCovered, Now, Call, Time, Stamp
      <4>2. new \in Observation
        <5>1. PICK p \in Position : fix = [reading |-> p = "measured", position |-> p]
          BY DEF TypeOK, Reading
        <5>2. fix.reading \in BOOLEAN /\ fix.position \in Position
          BY <5>1
        <5>3. QED
          BY <4>1, <5>2 DEF TypeOK, Observation
      <4>3. radio_observations' = Append(radio_observations, new)
        BY <3>4 DEF InsertObservation
      <4>4. /\ Len(radio_observations') = Len(radio_observations) + 1
            /\ \A o \in 1..Len(radio_observations) :
                 radio_observations'[o] = radio_observations[o]
            /\ radio_observations'[Len(radio_observations) + 1] = new
        BY <3>1, <4>2, <4>3, AppendProperties
      <4>5. ASSUME NEW o \in 1..Len(radio_observations')
            PROVE  radio_observations'[o].at \in Time(3) /\ Covered(radio_observations'[o].at)
        BY <3>1, <3>2, <4>1, <4>4 DEF ReferenceInv, LastSeenCovers
      <4>6. QED
        BY <3>3, <4>5 DEF LastSeenCovers, Covered, RowsOf, NotAfter
    <3>5. CASE UNCHANGED radio_observations
      BY <3>2, <3>3, <3>5 DEF ReferenceInv, LastSeenCovers, Covered, RowsOf, NotAfter
    <3>6. QED
      BY <3>4, <3>5
         DEF Next, vars, tables, UpdateDevice, FindRadioDeviceId, UpdateLastSeen,
             InsertReference, UpdateDeviceDetails, ReadGps, Die, Create, Opened, Restart
  <2>4. QED
    BY <2>1, <2>2, <2>3 DEF ReferenceInv
<1>3. QED
  BY <1>1, <1>2, TypeCorrect, SchemaReadyHolds, PTL DEF Spec

\* The schema is complete before any use, and the lookup makes the two checks of
\* updateDeviceReference superfluous: neither the UNIQUE constraint nor "No radio_devices row
\* updated" is ever what ends the program.
THEOREM ReferenceNeverRefused == Spec => []NeverRefused
<1>1. ReferenceInv => NeverRefused
  BY DEF ReferenceInv
<1>2. QED
  BY <1>1, ReferenceInvHolds, PTL

\* Through any number of failures and restarts, every observation in the file has a
\* reference row of its device, not younger than the observation, whose last_seen is of the
\* observation's own call or of a later one.
THEOREM LastSeenCoversHolds == Spec => []LastSeenCovers
<1>1. ReferenceInv => LastSeenCovers
  BY DEF ReferenceInv
<1>2. QED
  BY <1>1, ReferenceInvHolds, PTL
-------------------------------------------------------------------------------
(* What is written stays written. *)

\* What the tables hold has the types of their columns.
LEMMA TableFacts ==
  ASSUME TypeOK
  PROVE  /\ radio_devices \in Seq(Row) /\ Len(radio_devices) \in Nat
         /\ radio_observations \in Seq(Observation) /\ Len(radio_observations) \in Nat
         /\ Now \in Nat
         /\ \A r \in 1..Len(radio_devices) : radio_devices[r] \in Row
         /\ \A o \in 1..Len(radio_observations) :
              radio_observations[o] \in Observation /\ radio_observations[o].at \in Time(3)
<1>1. /\ radio_devices \in Seq(Row) /\ Len(radio_devices) \in Nat
      /\ radio_observations \in Seq(Observation) /\ Len(radio_observations) \in Nat
      /\ Now \in Nat
  BY LenProperties DEF TypeOK, Row, Now
<1>2. \A r \in 1..Len(radio_devices) : radio_devices[r] \in Row
  BY <1>1, ElementOfSeq
<1>3. \A o \in 1..Len(radio_observations) : radio_observations[o] \in Observation
  BY <1>1, ElementOfSeq
<1>4. QED
  BY <1>1, <1>2, <1>3 DEF Observation

\* The INSERT of an observation adds one row, at the end, and touches no other.
LEMMA ObservationAppended ==
  ASSUME TypeOK, InsertObservation
  PROVE  LET n == Len(radio_observations)
         IN /\ Now \in Call
            /\ radio_observations' \in Seq(Observation)
            /\ Len(radio_observations') = n + 1
            /\ \A o \in 1..n : radio_observations'[o] = radio_observations[o]
            /\ radio_observations'[n + 1].device_id = id
            /\ radio_observations'[n + 1].at = Stamp(3)
<1> DEFINE new == [device_id |-> id, at |-> Stamp(3), gps_status |-> fix.reading,
                   position |-> fix.position]
<1>1. Now \in Call
  BY LenProperties DEF TypeOK, InsertObservation, Now, Call
<1>2. PICK p \in Position : fix = [reading |-> p = "measured", position |-> p]
  BY DEF TypeOK, Reading
<1>3. new \in Observation
  BY <1>1, <1>2 DEF TypeOK, Observation, Time, Stamp
<1>4. new.device_id = id /\ new.at = Stamp(3)
  OBVIOUS
<1>5. radio_observations' = Append(radio_observations, new)
  BY DEF InsertObservation
<1> HIDE DEF new
<1>6. QED
  BY <1>1, <1>3, <1>4, <1>5, TableFacts, AppendProperties

\* A row of radio_devices keeps its place, identity and first_seen; last_seen only advances.
LEMMA RowsKept ==
  ASSUME TypeOK, [Next]_vars
  PROVE  /\ Len(radio_devices) <= Len(radio_devices')
         /\ \A r \in 1..Len(radio_devices) :
              /\ radio_devices'[r].identifier = radio_devices[r].identifier
              /\ radio_devices'[r].first = radio_devices[r].first
              /\ NotAfter(radio_devices[r].last, radio_devices'[r].last)
<1>1. \A r \in 1..Len(radio_devices) :
        /\ NotAfter(radio_devices[r].last, radio_devices[r].last)
        /\ NotAfter(radio_devices[r].last, Stamp(1))
  BY TableFacts DEF Row, Call, Time, Stamp, NotAfter
<1>2. CASE UNCHANGED radio_devices
  BY <1>1, <1>2, TableFacts
<1>3. CASE UpdateLastSeen /\ found \in 1..Len(radio_devices)
  <2>1. radio_devices' = [radio_devices EXCEPT ![found].last = Stamp(1)]
    BY <1>3 DEF UpdateLastSeen, Touch
  <2>2. Len(radio_devices') = Len(radio_devices)
    BY <2>1, TableFacts
  <2>3. ASSUME NEW r \in 1..Len(radio_devices)
        PROVE  /\ radio_devices'[r].identifier = radio_devices[r].identifier
               /\ radio_devices'[r].first = radio_devices[r].first
               /\ radio_devices'[r].last \in {radio_devices[r].last, Stamp(1)}
    BY <1>3, <2>1, TableFacts DEF Row
  <2>4. QED
    BY <1>1, <2>2, <2>3, TableFacts
<1>4. CASE InsertReference /\ RowsOf(seen[Now]) = {}
  <2>1. Now \in Call /\ seen[Now] \in Identifier
    BY <1>4, LenProperties, ElementOfSeq DEF TypeOK, InsertReference, Now, Call
  <2>2. NewRow \in Row
    BY <2>1 DEF NewRow, Row, Time, Stamp
  <2>3. radio_devices' = Append(radio_devices, NewRow)
    BY <1>4 DEF InsertReference
  <2>4. /\ Len(radio_devices') = Len(radio_devices) + 1
        /\ \A r \in 1..Len(radio_devices) : radio_devices'[r] = radio_devices[r]
    BY <2>2, <2>3, TableFacts, AppendProperties
  <2>5. QED
    BY <1>1, <2>4, TableFacts
<1>5. QED
  BY <1>2, <1>3, <1>4
     DEF Next, vars, tables, Create, Opened, UpdateDevice, FindRadioDeviceId, UpdateLastSeen,
         InsertReference, UpdateDeviceDetails, ReadGps, InsertObservation, Die, Restart

\* No statement, failure or restart rewrites the past: rows of radio_devices stay and only
\* advance, observations are only added.
THEOREM HistoryIsKept == Spec => HistoryKept
<1> DEFINE Kept ==
      /\ Len(radio_devices) <= Len(radio_devices')
      /\ \A r \in 1..Len(radio_devices) :
           /\ radio_devices'[r].identifier = radio_devices[r].identifier
           /\ radio_devices'[r].first = radio_devices[r].first
           /\ NotAfter(radio_devices[r].last, radio_devices'[r].last)
      /\ SubSeq(radio_observations', 1, Len(radio_observations)) = radio_observations
<1>1. ASSUME TypeOK, [Next]_vars
      PROVE  Kept
  <2>1. CASE InsertObservation
    <3> DEFINE n == Len(radio_observations)
               t == SubSeq(radio_observations', 1, n)
    <3>1. n \in Nat /\ radio_observations \in Seq(Observation)
      BY <1>1, TableFacts
    <3>2. /\ Len(radio_observations') = n + 1
          /\ \A o \in 1..n : radio_observations'[o] = radio_observations[o]
      BY <1>1, <2>1, ObservationAppended
    <3>3. \A o \in 1..n : radio_observations'[o] \in Observation
      BY <1>1, <3>2, TableFacts
    <3>4. /\ t \in Seq(Observation)
          /\ Len(t) = IF 1 <= n THEN n - 1 + 1 ELSE 0
          /\ \A o \in 1..(n - 1 + 1) : t[o] = radio_observations'[1 + o - 1]
      <4> HIDE DEF n, t
      <4> n \in Int /\ 1 \in Int
        BY <3>1
      <4> QED
        BY <3>3, SubSeqProperties DEF t
    <3>5. Len(t) = n /\ \A o \in 1..n : t[o] = radio_observations[o]
      <4> HIDE DEF t
      <4> QED
        BY <3>1, <3>2, <3>4
    <3>6. t = radio_observations
      <4> HIDE DEF t
      <4> QED
        BY <3>1, <3>4, <3>5, SeqEqual
    <3>7. QED
      BY <1>1, <3>6, RowsKept
  <2>2. CASE UNCHANGED radio_observations
    <3>1. SubSeq(radio_observations, 1, Len(radio_observations)) = radio_observations
      BY <1>1, TableFacts, SubSeqFull
    <3>2. QED
      BY <1>1, <2>2, <3>1, RowsKept
  <2>3. QED
    BY <1>1, <2>1, <2>2
       DEF Next, vars, tables, Create, Opened, UpdateDevice, FindRadioDeviceId,
           UpdateLastSeen, InsertReference, UpdateDeviceDetails, ReadGps, Die, Restart
<1>2. QED
  BY <1>1, TypeCorrect, PTL DEF Spec, HistoryKept
-------------------------------------------------------------------------------
(* What an observation goes with. *)

\* Between the upsert and the observation of a call, the details under its device_id are
\* those of this call.
DetailsInv ==
  /\ DetailsCover
  /\ pc \in {"gps", "observe"} => /\ id \in DOMAIN bluetooth_details
                                  /\ bluetooth_details[id].updated.call = Now

\* An observation never precedes its details, however often the process died in between.
THEOREM DetailsCoverHolds == Spec => []DetailsCover
<1>1. Init => DetailsInv
  BY DEF Init, DetailsInv, DetailsCover
<1>2. ASSUME TypeOK, DetailsInv, [Next]_vars
      PROVE  DetailsInv'
  <2> USE <1>2
  <2>1. CASE UpdateDeviceDetails
    <3>1. \A o \in 1..Len(radio_observations) : radio_observations[o].at.call \in 1..Now
      BY TableFacts DEF Call, Time
    <3>2. /\ DOMAIN bluetooth_details' = DOMAIN bluetooth_details \union {id}
          /\ bluetooth_details'[id].updated.call = Now
          /\ \A k \in DOMAIN bluetooth_details \ {id} : bluetooth_details'[k] = bluetooth_details[k]
      BY <2>1 DEF UpdateDeviceDetails, Upsert, Stamp
    <3>3. UNCHANGED <<radio_observations, id, seen>>
      BY <2>1 DEF UpdateDeviceDetails
    <3>4. QED
      BY <3>1, <3>2, <3>3, TableFacts DEF DetailsInv, DetailsCover, Now
  <2>2. CASE InsertObservation
    <3>1. id \in DOMAIN bluetooth_details /\ bluetooth_details[id].updated.call = Now
      BY <2>2 DEF DetailsInv, InsertObservation
    <3>2. bluetooth_details' = bluetooth_details /\ pc' = "idle"
      BY <2>2 DEF InsertObservation
    <3> DEFINE n == Len(radio_observations)
    <3>3. /\ n \in Nat /\ Now \in Nat
          /\ Len(radio_observations') = n + 1
          /\ \A o \in 1..n : radio_observations'[o] = radio_observations[o]
          /\ radio_observations'[n + 1].device_id = id
          /\ radio_observations'[n + 1].at.call = Now
      BY <2>2, ObservationAppended, TableFacts DEF Stamp
    <3>4. ASSUME NEW o \in 1..(n + 1)
          PROVE  /\ radio_observations'[o].device_id \in DOMAIN bluetooth_details
                 /\ radio_observations'[o].at.call
                      <= bluetooth_details[radio_observations'[o].device_id].updated.call
      <4>1. CASE o = n + 1
        BY <3>1, <3>3, <4>1
      <4>2. CASE o \in 1..n
        BY <3>3, <4>2 DEF DetailsInv, DetailsCover
      <4>3. QED
        BY <3>3, <4>1, <4>2
    <3>5. QED
      BY <3>2, <3>3, <3>4 DEF DetailsInv, DetailsCover
  <2>3. CASE /\ UNCHANGED <<radio_observations, bluetooth_details>>
             /\ \/ pc' \notin {"gps", "observe"}
                \/ UNCHANGED <<id, seen>> /\ pc \in {"gps", "observe"}
    BY <2>3 DEF DetailsInv, DetailsCover, Now
  <2>4. QED
    BY <2>1, <2>2, <2>3
       DEF Next, vars, tables, Create, Opened, UpdateDevice, FindRadioDeviceId,
           UpdateLastSeen, InsertReference, ReadGps, Die, Restart
<1>3. DetailsInv => DetailsCover
  BY DEF DetailsInv
<1>4. QED
  BY <1>1, <1>2, <1>3, TypeCorrect, PTL DEF Spec

\* A call in progress has no observation yet; no row dates from it before its INSERT, and
\* afterwards the device holds the id of the row that does.
LinkInv ==
  /\ FirstObservationIsLinked
  /\ pc \in {"find", "update", "insert", "details", "gps", "observe"} =>
       \A o \in 1..Len(radio_observations) : radio_observations[o].at.call # Now
  /\ pc \in {"find", "update", "insert"} =>
       \A r \in 1..Len(radio_devices) : radio_devices[r].first.call # Now
  /\ pc \in {"details", "gps", "observe"} =>
       \A r \in 1..Len(radio_devices) : radio_devices[r].first.call = Now => id = r

\* The observation of the call that first saw a device is filed under the row this call
\* created, whatever id_ held before.
THEOREM FirstObservationIsLinkedHolds == Spec => []FirstObservationIsLinked
<1>1. Init => LinkInv
  BY DEF Init, LinkInv, FirstObservationIsLinked
<1>2. ASSUME TypeOK, LinkInv, [Next]_vars
      PROVE  LinkInv'
  <2> USE <1>2
  <2>1. CASE \E i \in Identifier : UpdateDevice(i)
    <3>1. PICK i \in Identifier : UpdateDevice(i)
      BY <2>1
    <3>2. Now' = Now + 1 /\ Now \in Nat
      BY <3>1, CallsGrow
    <3>3. \A o \in 1..Len(radio_observations) : radio_observations[o].at.call \in 1..Now
      BY TableFacts DEF Call, Time
    <3>4. \A r \in 1..Len(radio_devices) : radio_devices[r].first.call \in 1..Now
      BY TableFacts DEF Row, Call, Time
    <3>5. UNCHANGED <<radio_devices, radio_observations>> /\ pc' = "find"
      BY <3>1 DEF UpdateDevice, tables
    <3>6. QED
      BY <3>2, <3>3, <3>4, <3>5 DEF LinkInv, FirstObservationIsLinked
  <2>2. CASE UpdateLastSeen
    <3>1. /\ Len(radio_devices') = Len(radio_devices)
          /\ \A r \in 1..Len(radio_devices) : radio_devices'[r].first = radio_devices[r].first
      <4>1. CASE found \in 1..Len(radio_devices)
        <5>1. radio_devices' = [radio_devices EXCEPT ![found].last = Stamp(1)]
          BY <2>2, <4>1 DEF UpdateLastSeen, Touch
        <5>2. Len(radio_devices') = Len(radio_devices)
          BY <5>1, TableFacts
        <5>3. QED
          BY <5>2, RowsKept
      <4>2. CASE found \notin 1..Len(radio_devices)
        BY <2>2, <4>2 DEF UpdateLastSeen
      <4>3. QED
        BY <4>1, <4>2
    <3>2. UNCHANGED <<radio_observations, seen, id>> /\ pc = "update" /\ pc' \in {"details", "refused"}
      BY <2>2 DEF UpdateLastSeen
    <3>3. QED
      BY <3>1, <3>2 DEF LinkInv, FirstObservationIsLinked, Now
  <2>3. CASE InsertReference
    <3>1. CASE RowsOf(seen[Now]) = {}
      <4>1. Now \in Call /\ seen[Now] \in Identifier
        BY <2>3, LenProperties, ElementOfSeq DEF TypeOK, InsertReference, Now, Call
      <4>2. NewRow \in Row /\ NewRow.first.call = Now
        BY <4>1 DEF NewRow, Row, Time, Stamp
      <4>3. radio_devices' = Append(radio_devices, NewRow)
        BY <2>3, <3>1 DEF InsertReference
      <4> DEFINE n == Len(radio_devices)
      <4>4. /\ n \in Nat
            /\ Len(radio_devices') = n + 1
            /\ \A r \in 1..n : radio_devices'[r] = radio_devices[r]
            /\ radio_devices'[n + 1].first.call = Now
        BY <4>2, <4>3, TableFacts, AppendProperties
      <4>5. id' = n + 1 /\ pc = "insert" /\ pc' = "details" /\ UNCHANGED <<radio_observations, seen>>
        BY <2>3, <3>1 DEF InsertReference, LastInsertRowid
      <4>6. ASSUME NEW o \in 1..Len(radio_observations), NEW r \in 1..(n + 1)
            PROVE  /\ radio_observations[o].at.call # Now
                   /\ radio_devices'[r].first.call = radio_observations[o].at.call
                        => radio_observations[o].device_id = r
                   /\ radio_devices'[r].first.call = Now => r = n + 1
        <5>1. radio_observations[o].at.call # Now
          BY <4>5 DEF LinkInv
        <5>2. CASE r = n + 1
          BY <4>4, <5>1, <5>2
        <5>3. CASE r \in 1..n
          BY <4>4, <4>5, <5>1, <5>3 DEF LinkInv, FirstObservationIsLinked
        <5>4. QED
          BY <4>4, <5>2, <5>3
      <4>7. ASSUME NEW r \in 1..(n + 1), radio_devices'[r].first.call = Now
            PROVE  r = n + 1
        BY <4>4, <4>5, <4>7 DEF LinkInv
      <4>8. QED
        BY <4>4, <4>5, <4>6, <4>7 DEF LinkInv, FirstObservationIsLinked, Now
    <3>2. CASE RowsOf(seen[Now]) # {}
      BY <2>3, <3>2 DEF LinkInv, FirstObservationIsLinked, InsertReference
    <3>3. QED
      BY <3>1, <3>2
  <2>4. CASE InsertObservation
    <3> DEFINE n == Len(radio_observations)
    <3>1. /\ n \in Nat
          /\ Len(radio_observations') = n + 1
          /\ \A o \in 1..n : radio_observations'[o] = radio_observations[o]
          /\ radio_observations'[n + 1].device_id = id
          /\ radio_observations'[n + 1].at.call = Now
      BY <2>4, ObservationAppended, TableFacts DEF Stamp
    <3>2. radio_devices' = radio_devices /\ pc = "observe" /\ pc' = "idle"
      BY <2>4 DEF InsertObservation
    <3>3. ASSUME NEW o \in 1..(n + 1), NEW r \in 1..Len(radio_devices),
                 radio_devices[r].first.call = radio_observations'[o].at.call
          PROVE  radio_observations'[o].device_id = r
      <4>1. CASE o = n + 1
        BY <3>1, <3>2, <3>3, <4>1 DEF LinkInv
      <4>2. CASE o \in 1..n
        BY <3>1, <3>3, <4>2 DEF LinkInv, FirstObservationIsLinked
      <4>3. QED
        BY <3>1, <4>1, <4>2
    <3>4. QED
      BY <3>1, <3>2, <3>3 DEF LinkInv, FirstObservationIsLinked
  <2>5. CASE FindRadioDeviceId \/ UpdateDeviceDetails \/ ReadGps
    BY <2>5 DEF LinkInv, FirstObservationIsLinked, Now, tables, FindRadioDeviceId,
                UpdateDeviceDetails, ReadGps
  <2>6. CASE Create \/ Opened \/ Die \/ Restart
    BY <2>6 DEF LinkInv, FirstObservationIsLinked, tables, Create, Opened, Die, Restart
  <2>7. CASE UNCHANGED vars
    BY <2>7 DEF LinkInv, FirstObservationIsLinked, Now, vars
  <2>8. QED
    BY <2>1, <2>2, <2>3, <2>4, <2>5, <2>6, <2>7 DEF Next
<1>3. LinkInv => FirstObservationIsLinked
  BY DEF LinkInv
<1>4. QED
  BY <1>1, <1>2, <1>3, TypeCorrect, PTL DEF Spec
-------------------------------------------------------------------------------
(* Whose a row is. *)

\* The INSERT of a reference adds one row, at the end, stamped by the call in progress.
LEMMA RowAppended ==
  ASSUME TypeOK, InsertReference, radio_devices' # radio_devices
  PROVE  LET n == Len(radio_devices)
         IN /\ Len(radio_devices') = n + 1
            /\ \A r \in 1..n : radio_devices'[r] = radio_devices[r]
            /\ radio_devices'[n + 1]
                 = [identifier |-> seen[Now], first |-> Stamp(1), last |-> Stamp(1)]
<1>1. Now \in Call /\ seen[Now] \in Identifier
  BY LenProperties, ElementOfSeq DEF TypeOK, InsertReference, Now, Call
<1>2. /\ NewRow \in Row
      /\ NewRow = [identifier |-> seen[Now], first |-> Stamp(1), last |-> Stamp(1)]
  BY <1>1 DEF NewRow, Row, Time, Stamp
<1>3. radio_devices' = Append(radio_devices, NewRow)
  BY DEF InsertReference
<1>4. QED
  BY <1>2, <1>3, TableFacts, AppendProperties

\* An identifier has one row, in which only calls made for it have left their time.
THEOREM RowsAreOwnHolds == Spec => []RowsAreOwn
<1>1. ASSUME Init
      PROVE  RowsAreOwn
  <2>1. Len(radio_devices) = 0
    BY <1>1, EmptySeq DEF Init
  <2>2. QED
    BY <2>1 DEF RowsAreOwn
<1>2. ASSUME TypeOK, ReferenceInv, RowsAreOwn, [Next]_vars
      PROVE  RowsAreOwn'
  <2> USE <1>2
  <2> DEFINE n == Len(radio_devices)
  <2>1. /\ n \in Nat
        /\ \A r \in 1..n : /\ radio_devices[r].first.call \in Call
                           /\ radio_devices[r].last.call \in Call
                           /\ radio_devices[r] \in Row
    BY TableFacts DEF Row, Time
  <2>2. \A r \in 1..n :
          /\ \A q \in 1..n : radio_devices[q].identifier = radio_devices[r].identifier => q = r
          /\ seen[radio_devices[r].first.call] = radio_devices[r].identifier
          /\ seen[radio_devices[r].last.call] = radio_devices[r].identifier
    BY DEF RowsAreOwn, RowsOf
  <2>3. ASSUME NEW i \in Identifier, UpdateDevice(i)
        PROVE  RowsAreOwn'
    <3>1. \A c \in Call : seen'[c] = seen[c]
      BY <2>3, CallsGrow
    <3>2. UNCHANGED radio_devices
      BY <2>3 DEF UpdateDevice, tables
    <3>3. QED
      BY <2>1, <3>1, <3>2 DEF RowsAreOwn, RowsOf
  <2>4. CASE UpdateLastSeen
    <3>1. /\ found \in 1..n /\ radio_devices[found].identifier = seen[Now]
          /\ radio_devices' = [radio_devices EXCEPT ![found].last = Stamp(1)]
          /\ seen' = seen
      BY <2>4 DEF ReferenceInv, LookupIsCurrent, RowsOf, UpdateLastSeen, Touch
    <3>2. Len(radio_devices') = n
      BY <3>1, TableFacts
    <3>3. ASSUME NEW r \in 1..n
          PROVE  /\ radio_devices'[r].identifier = radio_devices[r].identifier
                 /\ radio_devices'[r].first = radio_devices[r].first
                 /\ radio_devices'[r].last = IF r = found THEN Stamp(1) ELSE radio_devices[r].last
      BY <2>1, <3>1, TableFacts DEF Row
    <3>4. QED
      BY <2>2, <3>1, <3>2, <3>3 DEF RowsAreOwn, RowsOf, Stamp
  <2>5. CASE InsertReference /\ radio_devices' # radio_devices
    <3>1. /\ Len(radio_devices') = n + 1
          /\ \A r \in 1..n : radio_devices'[r] = radio_devices[r]
          /\ radio_devices'[n + 1]
               = [identifier |-> seen[Now], first |-> Stamp(1), last |-> Stamp(1)]
      BY <2>5, RowAppended
    <3>2. seen' = seen
      BY <2>5 DEF InsertReference
    <3>3. \A r \in 1..n : radio_devices[r].identifier # seen[Now]
      BY <2>5 DEF ReferenceInv, LookupIsCurrent, RowsOf, InsertReference
    <3>4. /\ radio_devices'[n + 1].identifier = seen[Now]
          /\ radio_devices'[n + 1].first.call = Now /\ radio_devices'[n + 1].last.call = Now
      BY <3>1 DEF Stamp
    <3>5. QED
      BY <2>1, <2>2, <3>1, <3>2, <3>3, <3>4 DEF RowsAreOwn, RowsOf
  <2>6. CASE UNCHANGED <<radio_devices, seen>>
    BY <2>6 DEF RowsAreOwn, RowsOf
  <2>7. QED
    BY <2>3, <2>4, <2>5, <2>6
       DEF Next, vars, tables, InsertReference, FindRadioDeviceId, UpdateDeviceDetails, ReadGps,
           InsertObservation, Die, Restart, Create, Opened
<1>3. QED
  BY <1>1, <1>2, TypeCorrect, ReferenceInvHolds, PTL DEF Spec
===============================================================================
