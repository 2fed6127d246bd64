-------------------------- MODULE DeviceClient_proofs --------------------------
(***************************************************************************)
(* Theorems about DeviceClient: its types, and the identity and the GATT   *)
(* profile of the devices that stay in BlueZ during their fetch.           *)
(***************************************************************************)
EXTENDS DeviceClient, TLAPS

\* One attribute is replaced by a value of its type.
LEMMA ReadType ==
  ASSUME TypeOK, ReadProperty \/ ReadFails
  PROVE  /\ profile' \in [Device -> [Field -> Value]]
         /\ \A d \in Device : profile'[d]["uuids"] # "N/A"
<1>0. pc = "read" /\ next <= Len(Reads)
  BY DEF ReadProperty, ReadFails, Set
<1>1. device \in Device /\ AddressOf[device] \in Address
  BY <1>0, ClientAssumption DEF TypeOK
<1>2. next \in 1..4
  BY <1>0 DEF TypeOK, Reads
<1> DEFINE prop == Reads[next]
<1>3. prop \in Field
  BY <1>2 DEF Reads, Field, Optional
<1>4. PICK value \in {ValueOf(prop), Default(prop, profile[device][prop])} :
        profile' = [profile EXCEPT ![device][prop] = value]
  BY DEF ReadProperty, ReadFails, Set
<1>5. value \in Value
  BY <1>1, <1>3, <1>4 DEF ValueOf, Default, Value, TypeOK
<1>6. prop = "uuids" => value # "N/A"
  BY <1>1, <1>4 DEF ValueOf, Default, TypeOK
<1> HIDE DEF prop
<1>7. QED
  BY <1>1, <1>3, <1>4, <1>5, <1>6 DEF TypeOK

\* What BlueZ does keeps the types of its own state and touches nothing else but history.
LEMMA EnvironmentType ==
  ASSUME TypeOK, Environment
  PROVE  TypeOK'
<1>1. PICK a \in Address : \/ Vanish(a) \/ Appear(a) \/ Connect(a) \/ Disconnect(a) \/ Resolve(a)
                           \/ \E prop \in Optional : Publish(a, prop)
  BY DEF Environment
<1>2. Change
  BY <1>1 DEF Vanish, Appear, Connect, Disconnect, Resolve, Publish
<1>3. disturbed' \in BOOLEAN
  BY <1>1 DEF TypeOK, Vanish, Appear, Connect, Disconnect, Resolve, Publish, Disturb
<1>4. /\ exported' \subseteq Address
      /\ linked' \subseteq exported'
      /\ resolved' \subseteq linked'
  BY <1>1 DEF TypeOK, Vanish, Appear, Connect, Disconnect, Resolve, Publish
<1>5. optional' \subseteq exported' \X Optional
  <2>1. CASE Vanish(a)
    BY <2>1 DEF TypeOK, Vanish
  <2>2. CASE \E prop \in Optional : Publish(a, prop)
    BY <2>2 DEF TypeOK, Publish
  <2>3. CASE Appear(a) \/ Connect(a) \/ Disconnect(a) \/ Resolve(a)
    BY <2>3 DEF TypeOK, Appear, Connect, Disconnect, Resolve
  <2>4. QED
    BY <1>1, <2>1, <2>2, <2>3
<1>6. changes' \in 0..MaxChanges
  BY <1>2, RoundsAssumption DEF TypeOK, Change
<1>7. QED
  BY <1>2, <1>3, <1>4, <1>5, <1>6 DEF TypeOK, Change, local, attributes

\* Every variable keeps its type, whatever BlueZ does.
THEOREM TypeCorrect == Spec => []TypeOK
<1>1. Init => TypeOK
  <2> SUFFICES ASSUME Init PROVE TypeOK
    OBVIOUS
  <2>1. profile \in [Device -> [Field -> Value]] /\ \A d \in Device : profile[d]["uuids"] # "N/A"
    BY ClientAssumption DEF Init, NewDevice, Field, Value, Optional
  <2>2. gatt \in [DOMAIN gatt -> SUBSET Characteristic] /\ DOMAIN gatt \subseteq Service
    BY DEF Init
  <2>3. next \in 1..(Len(Reads) + 1) /\ changes \in 0..MaxChanges /\ elapsed \in 0..Deadline
    BY RoundsAssumption DEF Init, Reads
  <2>4. QED
    BY <2>1, <2>2, <2>3 DEF Init, TypeOK
<1>2. ASSUME TypeOK, [Next]_vars
      PROVE  TypeOK'
  <2> USE <1>2
  <2>1. CASE Environment
    BY <2>1, EnvironmentType
  <2>2. ASSUME NEW d \in Device, FetchProfile(d)
        PROVE  TypeOK'
    <3>1. d # NoDevice
      BY ClientAssumption
    <3>2. QED
      BY <2>2, <3>1 DEF TypeOK, FetchProfile, Reads, bluez, attributes
  <2>3. CASE ReadProperty \/ ReadFails
    <3>1. /\ next <= Len(Reads) /\ next' = next + 1
          /\ UNCHANGED <<bluez, pc, device, connected, elapsed, objects, todo, gatt, fetched,
                         intact>>
      BY <2>3 DEF ReadProperty, ReadFails, Set
    <3>2. next' \in 1..(Len(Reads) + 1)
      BY <3>1 DEF TypeOK, Reads
    <3>3. changes' \in 0..MaxChanges
      BY <2>3, RoundsAssumption DEF TypeOK, ReadProperty, ReadFails, CallFails
    <3>4. disturbed' \in BOOLEAN
      BY <2>3 DEF TypeOK, ReadProperty, ReadFails, CallFails
    <3>5. QED
      BY <2>3, <3>1, <3>2, <3>3, <3>4, ReadType DEF TypeOK, bluez
  <2>4. CASE ReadConnected \/ ConnectedFails
    <3>1. device \in Device
      BY <2>4 DEF TypeOK, ReadConnected, ConnectedFails, SetConnected
    <3>2. changes' \in 0..MaxChanges
      <4>1. changes' = changes \/ (changes < MaxChanges /\ changes' = changes + 1)
        BY <2>4 DEF ReadConnected, ConnectedFails, CallFails
      <4>2. QED
        BY <4>1, RoundsAssumption DEF TypeOK
    <3>3. disturbed' \in BOOLEAN
      BY <2>4 DEF TypeOK, ReadConnected, ConnectedFails, CallFails
    <3>4. connected' \subseteq Device /\ pc = "read" /\ pc' \in {"poll", "return"}
      BY <2>4, <3>1 DEF TypeOK, ReadConnected, ConnectedFails, SetConnected
    <3>5. UNCHANGED <<bluez, device, local, profile, fetched, intact>>
      BY <2>4 DEF ReadConnected, ConnectedFails, SetConnected
    <3>6. QED
      BY <3>2, <3>3, <3>4, <3>5 DEF TypeOK, bluez, local
  <2>5. CASE Poll
    <3>1. elapsed' \in 0..Deadline
      BY <2>5, RoundsAssumption DEF TypeOK, Poll
    <3>2. QED
      BY <2>5, <3>1 DEF TypeOK, Poll, bluez, attributes, history
  <2>6. CASE PollEnd \/ ObjectsThrow \/ CharacteristicsEnd
    BY <2>6 DEF TypeOK, PollEnd, ObjectsThrow, CharacteristicsEnd, bluez, local, attributes,
                history
  <2>7. CASE GetManagedObjects
    BY <2>7 DEF TypeOK, GetManagedObjects, bluez, attributes, history
  <2>8. ASSUME NEW s \in Service, CollectService(s)
        PROVE  TypeOK'
    <3>1. DOMAIN gatt' \subseteq Service /\ gatt' \in [DOMAIN gatt' -> SUBSET Characteristic]
      BY <2>8 DEF TypeOK, CollectService
    <3>2. QED
      BY <2>8, <3>1 DEF TypeOK, CollectService, bluez, attributes, history
  <2>9. CASE ServicesEnd
    BY <2>9 DEF TypeOK, ServicesEnd, bluez, attributes, history
  <2>10. ASSUME NEW c \in Characteristic, CollectCharacteristic(c)
         PROVE  TypeOK'
    <3>1. DOMAIN gatt' = DOMAIN gatt /\ gatt' \in [DOMAIN gatt' -> SUBSET Characteristic]
      BY <2>10 DEF TypeOK, CollectCharacteristic
    <3>2. QED
      BY <2>10, <3>1 DEF TypeOK, CollectCharacteristic, bluez, attributes, history
  <2>11. CASE Return
    <3>1. DOMAIN gatt' \subseteq Service /\ gatt' \in [DOMAIN gatt' -> SUBSET Characteristic]
      BY <2>11 DEF Return
    <3>2. fetched' \subseteq Device /\ intact' \subseteq fetched'
      BY <2>11 DEF TypeOK, Return
    <3>3. elapsed' \in 0..Deadline
      BY <2>11, RoundsAssumption DEF Return
    <3>4. QED
      BY <2>11, <3>1, <3>2, <3>3 DEF TypeOK, Return, bluez, attributes
  <2>12. CASE PollFails
    <3>1. changes' \in 0..MaxChanges /\ disturbed' \in BOOLEAN
      BY <2>12, RoundsAssumption DEF TypeOK, PollFails, CallFails
    <3>2. QED
      BY <2>12, <3>1 DEF TypeOK, PollFails, bluez, local, attributes
  <2>13. CASE UNCHANGED vars
    BY <2>13 DEF TypeOK, vars, bluez, local, attributes, history
  <2>14. QED
    BY <2>1, <2>2, <2>3, <2>4, <2>5, <2>6, <2>7, <2>8, <2>9, <2>10, <2>11, <2>12, <2>13
       DEF Next, Fetch, Failure, Ended
<1>3. QED
  BY <1>1, <1>2, PTL DEF Spec

-------------------------------------------------------------------------------
\* While the object of the device in hand has not gone away and no call about it has failed,
\* it is exported, and what has been read of the identity so far is the device's own.
ReadSoFar ==
  device # NoDevice /\ ~disturbed =>
    /\ AddressOf[device] \in exported
    /\ next > 1 => profile[device]["address"] = AddressOf[device]
    /\ next > 2 => profile[device]["type"] = "published"

\* Whoever is past the reads has made them, and a device is fetched once.
ReadsAreDone ==
  /\ pc \notin {"idle", "read"} => next > 2
  /\ device \notin fetched

IdentityInv == ReadSoFar /\ ReadsAreDone /\ ResidentIsIdentified

\* A read of the device in hand: answered, it gives the device's own value while nothing has
\* gone wrong; failed, it counts as a disturbance.
LEMMA ReadIdentity ==
  ASSUME TypeOK, IdentityInv, ReadProperty \/ ReadFails
  PROVE  IdentityInv'
<1>0. pc = "read" /\ next <= Len(Reads) /\ next' = next + 1
  BY DEF ReadProperty, ReadFails, Set
<1>1. device \in Device /\ device # NoDevice /\ next \in 1..4 /\ next' = next + 1
  BY <1>0 DEF TypeOK, Reads
<1> DEFINE prop == Reads[next]
<1>2. PICK value : /\ profile' = [profile EXCEPT ![device][prop] = value]
                   /\ ~disturbed' => value = ValueOf(prop) /\ ~disturbed
  <2>1. CASE ReadProperty
    <3>1. profile' = [profile EXCEPT ![device][prop] = ValueOf(prop)]
      BY <2>1 DEF ReadProperty, Set
    <3>2. ~disturbed' => ~disturbed
      BY <2>1 DEF ReadProperty
    <3>3. QED
      BY <3>1, <3>2
  <2>2. CASE ReadFails
    <3>1. disturbed'
      BY <2>2 DEF ReadFails, CallFails
    <3>2. profile' = [profile EXCEPT ![device][prop] = Default(prop, profile[device][prop])]
      BY <2>2 DEF ReadFails, Set
    <3>3. QED
      BY <3>1, <3>2
  <2>3. QED
    BY <2>1, <2>2
<1>3. profile \in [Device -> [Field -> Value]]
  BY DEF TypeOK
<1>4. /\ next = 1 => prop = "address"
      /\ next = 2 => prop = "type"
      /\ next > 2 => prop \in Optional
      /\ prop \in Field
  BY <1>1 DEF Reads, Optional, Field
<1>5. ~disturbed => /\ ValueOf("address") = AddressOf[device]
                    /\ ValueOf("type") = "published"
  BY <1>1 DEF IdentityInv, ReadSoFar, ValueOf, HasProperty, Optional
<1>6. UNCHANGED <<device, exported, fetched, intact, pc>>
  BY DEF ReadProperty, ReadFails, Set, bluez
<1> HIDE DEF prop
<1>7. ReadSoFar'
  <2> SUFFICES ASSUME ~disturbed'
               PROVE  /\ AddressOf[device] \in exported
                      /\ profile'[device]["address"] = AddressOf[device]
                      /\ next' > 2 => profile'[device]["type"] = "published"
    BY <1>6 DEF ReadSoFar
  <2>1. profile'[device] = [profile[device] EXCEPT ![prop] = value] /\ value = ValueOf(prop)
    BY <1>1, <1>2, <1>3
  <2>2. profile[device] \in [Field -> Value]
    BY <1>1, <1>3
  <2>3. CASE next = 1
    BY <2>1, <2>2, <2>3, <1>1, <1>2, <1>4, <1>5 DEF Field, IdentityInv, ReadSoFar
  <2>4. CASE next = 2
    BY <2>1, <2>2, <2>4, <1>1, <1>2, <1>4, <1>5 DEF Field, IdentityInv, ReadSoFar
  <2>5. CASE next > 2
    BY <2>1, <2>2, <2>5, <1>1, <1>2, <1>4, <1>5 DEF Field, Optional, IdentityInv, ReadSoFar
  <2>6. QED
    BY <1>1, <2>3, <2>4, <2>5
<1>8. ReadsAreDone'
  BY <1>1, <1>6 DEF IdentityInv, ReadsAreDone
<1>9. ResidentIsIdentified'
  <2>1. \A d \in intact : d \in Device /\ d # device
    BY DEF TypeOK, IdentityInv, ReadsAreDone
  <2>2. \A d \in intact : profile'[d] = profile[d]
    BY <1>1, <1>2, <1>3, <2>1
  <2>3. QED
    BY <1>6, <2>2 DEF IdentityInv, ResidentIsIdentified, StableIdentifier
<1>10. QED
  BY <1>7, <1>8, <1>9 DEF IdentityInv

\* An object that goes away disturbs the fetch of its device, and of no other.
LEMMA EnvironmentIdentity ==
  ASSUME TypeOK, IdentityInv, Environment
  PROVE  IdentityInv'
<1>1. PICK a \in Address : \/ Vanish(a) \/ Appear(a) \/ Connect(a) \/ Disconnect(a) \/ Resolve(a)
                           \/ \E prop \in Optional : Publish(a, prop)
  BY DEF Environment
<1>2. UNCHANGED <<pc, device, next, profile, fetched, intact>>
  BY <1>1 DEF Vanish, Appear, Connect, Disconnect, Resolve, Publish, Change, local, attributes
<1>3. disturbed => disturbed'
  BY <1>1 DEF Vanish, Appear, Connect, Disconnect, Resolve, Publish, Disturb
<1>4. device # NoDevice /\ ~disturbed' /\ AddressOf[device] \in exported
        => AddressOf[device] \in exported'
  BY <1>1 DEF Vanish, Appear, Connect, Disconnect, Resolve, Publish, Disturb, InHand
<1>5. QED
  BY <1>2, <1>3, <1>4 DEF IdentityInv, ReadSoFar, ReadsAreDone, ResidentIsIdentified,
                          StableIdentifier

LEMMA IdentityInvHolds == Spec => []IdentityInv
<1>1. Init => IdentityInv
  BY DEF Init, IdentityInv, ReadSoFar, ReadsAreDone, ResidentIsIdentified
<1>2. ASSUME TypeOK, IdentityInv, [Next]_vars
      PROVE  IdentityInv'
  <2> USE <1>2 DEF IdentityInv
  <2>1. CASE Environment
    BY <2>1, EnvironmentIdentity
  <2>2. ASSUME NEW d \in Device, FetchProfile(d)
        PROVE  IdentityInv'
    <3>1. ~disturbed' => AddressOf[d] \in exported
      BY <2>2 DEF FetchProfile
    <3>2. next' = 1 /\ device' = d /\ pc' = "read" /\ d \notin fetched
      BY <2>2 DEF FetchProfile
    <3>3. UNCHANGED <<exported, profile, fetched, intact>>
      BY <2>2 DEF FetchProfile, bluez, attributes
    <3>4. ReadSoFar' /\ ReadsAreDone'
      BY <3>1, <3>2, <3>3 DEF ReadSoFar, ReadsAreDone
    <3>5. QED
      BY <3>3, <3>4 DEF ResidentIsIdentified, StableIdentifier
  <2>3. CASE ReadProperty \/ ReadFails
    BY <2>3, ReadIdentity
  <2>4. CASE ReadConnected \/ ConnectedFails
    <3>1. next > 2
      BY <2>4 DEF ReadConnected, ConnectedFails, SetConnected, Reads, TypeOK
    <3>2. /\ UNCHANGED <<exported, device, next, profile, fetched, intact>>
          /\ pc' # "idle"
          /\ disturbed => disturbed'
      BY <2>4 DEF ReadConnected, ConnectedFails, SetConnected, CallFails, bluez, local
    <3>3. QED
      BY <3>1, <3>2 DEF ReadSoFar, ReadsAreDone, ResidentIsIdentified, StableIdentifier
  <2>5. CASE Return
    <3>1. device # NoDevice /\ device \in Device /\ next > 2 /\ next > 1
      BY <2>5 DEF Return, ReadsAreDone, TypeOK, Reads
    <3>2. UNCHANGED <<profile, next>>
      BY <2>5 DEF Return, attributes
    <3>3. ReadSoFar' /\ ReadsAreDone'
      BY <2>5, <3>1, ClientAssumption DEF Return, ReadSoFar, ReadsAreDone, TypeOK
    <3>4. ~disturbed => StableIdentifier(device) = <<AddressOf[device], "published">>
      BY <3>1 DEF ReadSoFar, StableIdentifier
    <3>5. intact' \subseteq intact \union {device} /\ (disturbed => intact' = intact)
      BY <2>5 DEF Return
    <3>6. ResidentIsIdentified'
      BY <3>2, <3>4, <3>5 DEF ResidentIsIdentified, StableIdentifier
    <3>7. QED
      BY <3>3, <3>6
  <2>6. ASSUME /\ UNCHANGED <<exported, device, next, profile, fetched, intact>>
               /\ disturbed => disturbed'
               /\ pc \in {"idle", "read"} => pc' = pc
        PROVE  IdentityInv'
    BY <2>6 DEF ReadSoFar, ReadsAreDone, ResidentIsIdentified, StableIdentifier
  <2>7. CASE \/ Poll \/ PollEnd \/ PollFails \/ ObjectsThrow \/ GetManagedObjects \/ ServicesEnd
             \/ CharacteristicsEnd \/ UNCHANGED vars
    BY <2>6, <2>7 DEF Poll, PollEnd, PollFails, CallFails, ObjectsThrow, GetManagedObjects,
                      ServicesEnd, CharacteristicsEnd, vars, bluez, local, attributes, history
  <2>8. CASE \/ \E s \in Service : CollectService(s)
             \/ \E c \in Characteristic : CollectCharacteristic(c)
    BY <2>6, <2>8 DEF CollectService, CollectCharacteristic, bluez, attributes, history
  <2>9. QED
    BY <2>1, <2>2, <2>3, <2>4, <2>5, <2>7, <2>8 DEF Next, Fetch, Failure, Ended
<1>3. QED
  BY <1>1, <1>2, TypeCorrect, PTL DEF Spec

\* A device that stays in BlueZ during its fetch, with no call about it failing, is stored
\* under its own identity, for any number of devices, changes and failures of other calls.
THEOREM ResidentIsIdentifiedHolds == Spec => []ResidentIsIdentified
<1>1. IdentityInv => ResidentIsIdentified
  BY DEF IdentityInv
<1>2. QED
  BY <1>1, IdentityInvHolds, PTL
-------------------------------------------------------------------------------
(* The GATT profile. *)

OwnServices == {s \in Service : OwnerOf[s] = AddressOf[device]}
OwnCharacteristics == {c \in Characteristic : OwnerOf[ServiceOf[c]] = AddressOf[device]}

\* The device in hand has stayed connected, and the wait for its services was not cut short.
InTime == ~disturbed /\ elapsed < Deadline

\* From the wait on such a device is linked, after it its services are resolved and hence
\* all among the objects, and the two loops have dealt with all of them but what is to do.
ServicesInv ==
  /\ pc \in {"idle", "read", "poll", "objects"} => DOMAIN gatt = {}
  /\ pc \in {"poll", "objects"} /\ ~disturbed => AddressOf[device] \in linked
  /\ pc = "objects" /\ InTime => AddressOf[device] \in resolved
  /\ pc \in {"services", "characteristics"} /\ InTime =>
       OwnServices \union OwnCharacteristics \subseteq objects
  /\ pc = "services" /\ InTime =>
       /\ DOMAIN gatt = OwnServices \ todo
       /\ \A s \in DOMAIN gatt : gatt[s] = {}
  /\ pc = "characteristics" /\ InTime =>
       /\ DOMAIN gatt = OwnServices
       /\ \A s \in DOMAIN gatt : gatt[s] = {c \in Characteristic : ServiceOf[c] = s /\ c \notin todo}
  /\ ServicesAreComplete

\* BlueZ drops the services of a device only when it drops the connection.
LEMMA EnvironmentServices ==
  ASSUME TypeOK, ServicesInv, Environment
  PROVE  ServicesInv'
<1>1. PICK a \in Address : \/ Vanish(a) \/ Appear(a) \/ Connect(a) \/ Disconnect(a) \/ Resolve(a)
                           \/ \E prop \in Optional : Publish(a, prop)
  BY DEF Environment
<1>2. UNCHANGED <<pc, device, connected, elapsed, objects, todo, gatt>>
  BY <1>1 DEF Vanish, Appear, Connect, Disconnect, Resolve, Publish, Change, local, attributes
<1>3. disturbed => disturbed'
  BY <1>1 DEF Vanish, Appear, Connect, Disconnect, Resolve, Publish, Disturb
<1>4. device # NoDevice /\ ~disturbed' =>
        /\ AddressOf[device] \in linked => AddressOf[device] \in linked'
        /\ AddressOf[device] \in resolved => AddressOf[device] \in resolved'
  BY <1>1 DEF Vanish, Appear, Connect, Disconnect, Resolve, Publish, Disturb, InHand
<1>5. pc # "idle" => device # NoDevice
  BY DEF TypeOK
<1>6. QED
  BY <1>2, <1>3, <1>4, <1>5
     DEF ServicesInv, ServicesAreComplete, InTime, OwnServices, OwnCharacteristics

\* The GATT profile of a device that stays connected is complete and its own when
\* fetchProfile returns, unless the wait for its services reached its deadline.
THEOREM ServicesAreCompleteHolds == Spec => []ServicesAreComplete
<1>1. Init => ServicesInv
  BY DEF Init, ServicesInv, ServicesAreComplete
<1>2. ASSUME TypeOK, ServicesInv, [Next]_vars
      PROVE  ServicesInv'
  <2> USE <1>2 DEF ServicesInv
  <2>1. CASE Environment
    BY <2>1, EnvironmentServices
  <2>2. ASSUME NEW d \in Device, FetchProfile(d)
        PROVE  ServicesInv'
    BY <2>2 DEF FetchProfile, ServicesAreComplete
  <2>3. CASE ReadProperty \/ ReadFails
    BY <2>3 DEF ReadProperty, ReadFails, Set, ServicesAreComplete
  <2>4. CASE ReadConnected \/ ConnectedFails
    BY <2>4 DEF ReadConnected, ConnectedFails, SetConnected, CallFails, ServicesAreComplete,
                bluez, local
  <2>5. CASE Poll
    BY <2>5 DEF Poll, ServicesAreComplete, bluez, history
  <2>6. CASE PollFails
    BY <2>6 DEF PollFails, CallFails, ServicesAreComplete, InTime, local
  <2>7. CASE PollEnd
    <3>1. AddressOf[device] \in linked /\ ~Late => AddressOf[device] \in resolved
      BY <2>7 DEF PollEnd, WaitIsOver, TypeOK
    <3>2. elapsed < Deadline => ~Late
      BY RoundsAssumption DEF Late, TypeOK
    <3>3. QED
      BY <2>7, <3>1, <3>2 DEF PollEnd, ServicesAreComplete, InTime, bluez, local, history
  <2>8. CASE GetManagedObjects
    <3>1. AddressOf[device] \in Address
      BY <2>8, ClientAssumption DEF GetManagedObjects, TypeOK
    <3>2. AddressOf[device] \in resolved
            => OwnServices \union OwnCharacteristics \subseteq objects'
      BY <2>8, <3>1 DEF GetManagedObjects, Exports, OwnServices, OwnCharacteristics
    <3>3. OwnServices \subseteq objects' => DOMAIN gatt = OwnServices \ todo'
      BY <2>8 DEF GetManagedObjects, OwnServices
    <3>4. UNCHANGED <<device, disturbed, elapsed, gatt>> /\ pc = "objects" /\ pc' = "services"
      BY <2>8 DEF GetManagedObjects, history
    <3>5. DOMAIN gatt = {}
      BY <3>4
    <3>6. QED
      BY <3>2, <3>3, <3>4, <3>5
         DEF ServicesAreComplete, InTime, OwnServices, OwnCharacteristics
  <2>9. ASSUME NEW s \in Service, CollectService(s)
        PROVE  ServicesInv'
    <3>1. /\ UNCHANGED <<device, disturbed, elapsed, objects, pc>> /\ pc = "services"
          /\ todo' = todo \ {s} /\ s \in todo
      BY <2>9 DEF CollectService, history
    <3>2. CASE IsOwn(s)
      <4>1. gatt' = [k \in DOMAIN gatt \union {s} |-> {}] /\ s \in OwnServices
        BY <2>9, <3>2 DEF CollectService, IsOwn, OwnServices
      <4>2. QED
        BY <3>1, <4>1 DEF ServicesAreComplete, InTime, OwnServices, OwnCharacteristics
    <3>3. CASE ~IsOwn(s)
      <4>1. gatt' = gatt /\ s \notin OwnServices
        BY <2>9, <3>3 DEF CollectService, IsOwn, OwnServices
      <4>2. QED
        BY <3>1, <4>1 DEF ServicesAreComplete, InTime, OwnServices, OwnCharacteristics
    <3>4. QED
      BY <3>2, <3>3
  <2>10. CASE ServicesEnd
    <3>1. /\ UNCHANGED <<device, disturbed, elapsed, objects, gatt>>
          /\ pc = "services" /\ pc' = "characteristics"
          /\ todo = {} /\ todo' = objects \intersect Characteristic
      BY <2>10 DEF ServicesEnd, history
    <3>2. ASSUME InTime, NEW s \in OwnServices
          PROVE  {c \in Characteristic : ServiceOf[c] = s /\ c \notin todo'} = {}
      BY <3>1, <3>2 DEF OwnServices, OwnCharacteristics
    <3>3. QED
      BY <3>1, <3>2 DEF ServicesAreComplete, InTime, OwnServices, OwnCharacteristics
  <2>11. ASSUME NEW c \in Characteristic, CollectCharacteristic(c)
         PROVE  ServicesInv'
    <3>1. /\ UNCHANGED <<device, disturbed, elapsed, objects, pc>> /\ pc = "characteristics"
          /\ todo' = todo \ {c} /\ c \in todo
          /\ DOMAIN gatt' = DOMAIN gatt
          /\ \A s \in DOMAIN gatt :
               gatt'[s] = IF s = ServiceOf[c] THEN gatt[s] \union {c} ELSE gatt[s]
      BY <2>11 DEF CollectCharacteristic, history
    <3>2. ASSUME InTime, NEW s \in DOMAIN gatt
          PROVE  gatt'[s] = {k \in Characteristic : ServiceOf[k] = s /\ k \notin todo'}
      BY <3>1, <3>2
    <3>3. QED
      BY <3>1, <3>2 DEF ServicesAreComplete, InTime, OwnServices, OwnCharacteristics
  <2>12. CASE CharacteristicsEnd
    <3>1. UNCHANGED <<device, disturbed, elapsed, gatt, todo>> /\ pc = "characteristics"
          /\ pc' = "return" /\ todo = {}
      BY <2>12 DEF CharacteristicsEnd, history, local
    <3>2. ASSUME InTime, NEW s \in DOMAIN gatt
          PROVE  gatt[s] = {c \in Characteristic : ServiceOf[c] = s}
      BY <3>1, <3>2
    <3>3. QED
      BY <3>1, <3>2 DEF ServicesAreComplete, InTime, OwnServices
  <2>13. CASE Return
    BY <2>13 DEF Return, ServicesAreComplete
  <2>14. CASE ObjectsThrow
    BY <2>14 DEF ObjectsThrow, ServicesAreComplete
  <2>15. CASE UNCHANGED vars
    BY <2>15 DEF vars, bluez, local, attributes, history, ServicesAreComplete, InTime,
                 OwnServices, OwnCharacteristics
  <2>16. QED
    BY <2>1, <2>2, <2>3, <2>4, <2>5, <2>6, <2>7, <2>8, <2>9, <2>10, <2>11, <2>12, <2>13,
       <2>14, <2>15
       DEF Next, Fetch, Failure, Ended
<1>3. ServicesInv => ServicesAreComplete
  BY DEF ServicesInv
<1>4. QED
  BY <1>1, <1>2, <1>3, TypeCorrect, PTL DEF Spec
===============================================================================
