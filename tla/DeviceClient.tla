----------------------------- MODULE DeviceClient -----------------------------
(***************************************************************************)
(* fetchProfile of src/Bluez_DeviceClient.cpp, one property read at a      *)
(* time, against a BlueZ that changes between any two of them: objects     *)
(* vanish and come back, connections come and go, services get resolved;   *)
(* and any call may fail, for instance time out, whatever BlueZ has.       *)
(*                                                                         *)
(* Five of the nineteen properties stand for all: a mandatory one with a   *)
(* default ("address", "type"), one that BlueZ may not have ("name"), one  *)
(* that is left alone when it is missing ("uuids"), and Connected.         *)
(***************************************************************************)
EXTENDS Naturals, Sequences

CONSTANTS
  Device, NoDevice, Address, AddressOf,
  Service, OwnerOf,          \* GATT services and the address of the device of each
  Characteristic, ServiceOf, \* characteristics and the service of each
  Deadline,                  \* the timeout of waitForServicesResolved, in rounds
  MaxChanges                 \* bound: changes of BlueZ's state and failed calls

Optional == {"name", "uuids"}
Field == {"address", "type"} \union Optional
Value == Address \union {"N/A", "published", "initial"}

ASSUME ClientAssumption == /\ NoDevice \notin Device
                           /\ AddressOf \in [Device -> Address]
                           /\ Address \intersect {"N/A", "published", "initial"} = {}
ASSUME GattAssumption == /\ OwnerOf \in [Service -> Address]
                         /\ ServiceOf \in [Characteristic -> Service]
ASSUME RoundsAssumption == Deadline \in Nat \ {0} /\ MaxChanges \in Nat

VARIABLES
  exported,   \* addresses whose object BlueZ has
  optional,   \* pairs of such an address and an optional property of its object
  linked,     \* such addresses with Connected
  resolved,   \* such addresses with ServicesResolved
  changes,    \* how often it changed or failed to answer
  pc,         \* where fetchProfile is
  device,     \* its argument, NoDevice between two calls
  next,       \* index of the next property to read
  profile,    \* the other attributes of each device object
  connected,  \* the device objects whose connected() is true
  elapsed,    \* rounds waited for the services
  objects,    \* the result of GetManagedObjects
  todo,       \* what the loop in progress has still to visit of it
  gatt,       \* profile.services: from a service to its characteristics
  fetched,    \* devices whose fetchProfile has returned
  disturbed,  \* history: the device in hand was missing or disconnected during its fetch,
              \* or BlueZ had the answer to a call about it and the call failed
  intact      \* history: devices fetched without that

bluez == <<exported, optional, linked, resolved>>
attributes == <<profile, connected>>
local == <<next, elapsed, objects, todo, gatt>>
history == <<fetched, disturbed, intact>>
vars == <<bluez, changes, pc, device, local, attributes, history>>

\* Defect, for the mutant runs: the address type is not read.
ReadsWithoutType == <<"address", "name", "uuids">>

\* The order of the reads before that of Connected.
Reads == <<"address", "type", "name", "uuids">>

\* The object that onInterfacesAdded makes.
NewDevice(d) == [f \in Field |-> IF f = "address" THEN AddressOf[d] ELSE "initial"]

Init == /\ exported = Address
        /\ optional = {}
        /\ linked \in SUBSET Address
        /\ resolved = {}
        /\ changes = 0
        /\ pc = "idle"
        /\ device = NoDevice
        /\ next = 1
        /\ profile = [d \in Device |-> NewDevice(d)]
        /\ connected = {}
        /\ elapsed = 0
        /\ objects = {}
        /\ todo = {}
        /\ gatt = [s \in {} |-> {}]
        /\ fetched = {}
        /\ disturbed = FALSE
        /\ intact = {}

InHand(a) == device # NoDevice /\ AddressOf[device] = a

-------------------------------------------------------------------------------
(* BlueZ, which does what it likes. *)

Change ==
  /\ changes < MaxChanges
  /\ changes' = changes + 1
  /\ UNCHANGED <<pc, device, local, attributes, fetched, intact>>

Disturb(a) == disturbed' = (disturbed \/ InHand(a))

Vanish(a) ==
  /\ Change
  /\ a \in exported
  /\ exported' = exported \ {a}
  /\ optional' = {o \in optional : o[1] # a}
  /\ linked' = linked \ {a}
  /\ resolved' = resolved \ {a}
  /\ Disturb(a)

Appear(a) ==
  /\ Change
  /\ a \notin exported
  /\ exported' = exported \union {a}
  /\ UNCHANGED <<optional, linked, resolved, disturbed>>

Publish(a, prop) ==
  /\ Change
  /\ a \in exported
  /\ <<a, prop>> \notin optional
  /\ optional' = optional \union {<<a, prop>>}
  /\ UNCHANGED <<exported, linked, resolved, disturbed>>

Connect(a) ==
  /\ Change
  /\ a \in exported \ linked
  /\ linked' = linked \union {a}
  /\ UNCHANGED <<exported, optional, resolved, disturbed>>

Disconnect(a) ==
  /\ Change
  /\ a \in linked
  /\ linked' = linked \ {a}
  /\ resolved' = resolved \ {a}
  /\ Disturb(a)
  /\ UNCHANGED <<exported, optional>>

Resolve(a) ==
  /\ Change
  /\ a \in linked \ resolved
  /\ resolved' = resolved \union {a}
  /\ UNCHANGED <<exported, optional, linked, disturbed>>

Environment == \E a \in Address :
  \/ Vanish(a) \/ Appear(a) \/ Connect(a) \/ Disconnect(a) \/ Resolve(a)
  \/ \E prop \in Optional : Publish(a, prop)

\* It has the answer to a call about the device in hand, and the call fails.
CallFails ==
  /\ changes < MaxChanges
  /\ changes' = changes + 1
  /\ disturbed' = TRUE

-------------------------------------------------------------------------------
(* fetchProfile: the properties. *)

FetchProfile(d) ==
  /\ pc = "idle"
  /\ d \notin fetched
  /\ device' = d
  /\ next' = 1
  /\ pc' = "read"
  /\ disturbed' = (AddressOf[d] \notin exported)
  /\ UNCHANGED <<bluez, changes, attributes, elapsed, objects, todo, gatt, fetched, intact>>

\* getPropertyUnsafe has an answer to give: the object exists and has the property.
HasProperty(a, prop) == a \in exported /\ (prop \in Optional => <<a, prop>> \in optional)

\* Defect: value_or for every property.
AlwaysDefault(prop, before) == "N/A"

\* value_or, or the test of has_value.
Default(prop, before) == IF prop = "uuids" THEN before ELSE "N/A"

ValueOf(prop) ==
  IF ~HasProperty(AddressOf[device], prop) THEN Default(prop, profile[device][prop])
  ELSE IF prop = "address" THEN AddressOf[device] ELSE "published"

\* The next property gets a value.
Set(value) ==
  /\ pc = "read"
  /\ next <= Len(Reads)
  /\ profile' = [profile EXCEPT ![device][Reads[next]] = value]
  /\ next' = next + 1
  /\ UNCHANGED <<bluez, pc, device, connected, elapsed, objects, todo, gatt, fetched, intact>>

ReadProperty == Set(ValueOf(Reads[next])) /\ UNCHANGED <<changes, disturbed>>

\* getPropertyUnsafe makes nullopt of every sdbus::Error, and a timeout is one: the property
\* is treated like a missing one.
ReadFails ==
  /\ Set(Default(Reads[next], profile[device][Reads[next]]))
  /\ HasProperty(AddressOf[device], Reads[next])
  /\ CallFails

\* Connected gets a value; a device that has it is asked for its services at the end.
SetConnected(value) ==
  /\ pc = "read"
  /\ next > Len(Reads)
  /\ IF value
       THEN connected' = connected \union {device} /\ pc' = "poll"
       ELSE connected' = connected \ {device} /\ pc' = "return"
  /\ UNCHANGED <<bluez, device, local, profile, fetched, intact>>

ReadConnected ==
  SetConnected(AddressOf[device] \in linked) /\ UNCHANGED <<changes, disturbed>>

ConnectedFails ==
  /\ SetConnected(FALSE)
  /\ AddressOf[device] \in exported
  /\ CallFails

-------------------------------------------------------------------------------
(* waitForServicesResolved, and the services. *)

\* Defect: the first answer ends the wait, whatever it is.
AnyAnswer(a) == TRUE

\* The loop returns: the answer is true, or an exception says that the object is gone.
WaitIsOver(a) == a \in resolved \/ a \notin exported

\* Defect: the deadline is computed anew in every round.
NeverLate == FALSE

Late == elapsed >= Deadline

\* A round: an answer of false, and 200 ms of sleep; the call itself may take long.
Poll ==
  /\ pc = "poll"
  /\ ~Late
  /\ ~WaitIsOver(AddressOf[device])
  /\ elapsed' \in (elapsed + 1)..Deadline
  /\ UNCHANGED <<bluez, changes, pc, device, next, attributes, objects, todo, gatt, history>>

\* The wait returns; fetchProfile ignores what.
PollEnd ==
  /\ pc = "poll"
  /\ Late \/ WaitIsOver(AddressOf[device])
  /\ pc' = "objects"
  /\ UNCHANGED <<bluez, changes, device, local, attributes, history>>

\* Every other exception ends the wait as well.
PollFails ==
  /\ pc = "poll"
  /\ ~Late
  /\ AddressOf[device] \in exported
  /\ CallFails
  /\ pc' = "objects"
  /\ UNCHANGED <<bluez, device, local, attributes, fetched, intact>>

\* BlueZ exports the GATT objects of a device one by one until its services are resolved,
\* all of them from then on, and none when the device is gone or disconnected.
Exports(a, set) ==
  LET own == {s \in Service : OwnerOf[s] = a} \union
             {c \in Characteristic : OwnerOf[ServiceOf[c]] = a}
  IN /\ a \in resolved => own \subseteq set
     /\ a \notin linked => own \intersect set = {}

GetManagedObjects ==
  /\ pc = "objects"
  /\ \E set \in SUBSET (Service \union Characteristic) :
       /\ \A a \in Address : Exports(a, set)
       /\ objects' = set
  /\ todo' = objects' \intersect Service
  /\ pc' = "services"
  /\ UNCHANGED <<bluez, changes, device, next, attributes, elapsed, gatt, history>>

\* The call throws, and nothing up to the thread function of the worker catches it.
ObjectsThrow ==
  /\ pc = "objects"
  /\ pc' = "aborted"
  /\ UNCHANGED <<bluez, changes, device, local, attributes, history>>

IsOwn(s) == OwnerOf[s] = AddressOf[device]

\* The first loop: services of this device, with no characteristics yet.
CollectService(s) ==
  /\ pc = "services"
  /\ s \in todo
  /\ todo' = todo \ {s}
  /\ gatt' = IF IsOwn(s) THEN [k \in DOMAIN gatt \union {s} |-> {}] ELSE gatt
  /\ UNCHANGED <<bluez, changes, pc, device, next, attributes, elapsed, objects, history>>

ServicesEnd ==
  /\ pc = "services"
  /\ todo = {}
  /\ todo' = objects \intersect Characteristic
  /\ pc' = "characteristics"
  /\ UNCHANGED <<bluez, changes, device, next, attributes, elapsed, objects, gatt, history>>

\* The second loop: a characteristic is attached to its service, if that was collected.
CollectCharacteristic(c) ==
  /\ pc = "characteristics"
  /\ c \in todo
  /\ todo' = todo \ {c}
  /\ gatt' = [s \in DOMAIN gatt |-> IF s = ServiceOf[c] THEN gatt[s] \union {c} ELSE gatt[s]]
  /\ UNCHANGED <<bluez, changes, pc, device, next, attributes, elapsed, objects, history>>

CharacteristicsEnd ==
  /\ pc = "characteristics"
  /\ todo = {}
  /\ pc' = "return"
  /\ UNCHANGED <<bluez, changes, device, local, attributes, history>>

\* fetchProfile returns and its local profile, only printed, is destroyed.
Return ==
  /\ pc = "return"
  /\ pc' = "idle"
  /\ device' = NoDevice
  /\ elapsed' = 0
  /\ objects' = {}
  /\ todo' = {}
  /\ gatt' = [s \in {} |-> {}]
  /\ fetched' = fetched \union {device}
  /\ intact' = IF disturbed THEN intact ELSE intact \union {device}
  /\ UNCHANGED <<bluez, changes, next, attributes, disturbed>>

-------------------------------------------------------------------------------
Fetch == \/ ReadProperty \/ ReadConnected
         \/ Poll \/ PollEnd
         \/ GetManagedObjects
         \/ \E s \in Service : CollectService(s)
         \/ ServicesEnd
         \/ \E c \in Characteristic : CollectCharacteristic(c)
         \/ CharacteristicsEnd
         \/ Return

\* A call about the device in hand fails; the last one with an exception that nobody catches.
Failure == ReadFails \/ ConnectedFails \/ PollFails \/ ObjectsThrow

\* Every device has been fetched, or the process has ended.
Ended == (pc = "aborted" \/ (pc = "idle" /\ fetched = Device)) /\ UNCHANGED vars

Next == \/ Environment
        \/ \E d \in Device : FetchProfile(d)
        \/ Fetch
        \/ Failure
        \/ Ended

Spec == Init /\ [][Next]_vars

\* The worker runs and its D-Bus calls end; BlueZ need never do anything.
FairSpec == Spec /\ WF_vars(Fetch)
-------------------------------------------------------------------------------
(* Properties. *)

TypeOK ==
  /\ exported \subseteq Address
  /\ optional \subseteq exported \X Optional
  /\ linked \subseteq exported
  /\ resolved \subseteq linked
  /\ changes \in 0..MaxChanges
  /\ pc \in {"idle", "read", "poll", "objects", "services", "characteristics", "return",
            "aborted"}
  /\ device \in Device \union {NoDevice}
  /\ next \in 1..(Len(Reads) + 1)
  /\ profile \in [Device -> [Field -> Value]]
  /\ \A d \in Device : profile[d]["uuids"] # "N/A"
  /\ connected \subseteq Device
  /\ elapsed \in 0..Deadline
  /\ objects \subseteq Service \union Characteristic
  /\ todo \subseteq objects
  /\ DOMAIN gatt \subseteq Service
  /\ gatt \in [DOMAIN gatt -> SUBSET Characteristic]
  /\ fetched \subseteq Device
  /\ disturbed \in BOOLEAN
  /\ intact \subseteq fetched
  /\ device = NoDevice <=> pc = "idle"

\* Device::stableIdentifier
StableIdentifier(d) == <<profile[d]["address"], profile[d]["type"]>>

\* Whatever happens to the other devices, and whatever its own object gains or lacks
\* meanwhile, a device that stays in BlueZ for the whole of its fetch, with no call about it
\* failing, is stored under its own address and type: also the one it was registered under.
\* A property that BlueZ does not have, other than these two, makes no difference.
ResidentIsIdentified ==
  \A d \in intact : StableIdentifier(d) = <<AddressOf[d], "published">>

\* The GATT profile of a device that stays connected is complete, and has nothing of any
\* other device, unless the wait for its services ran into its deadline or a call failed.
ServicesAreComplete ==
  pc = "return" /\ device \in connected /\ ~disturbed /\ elapsed < Deadline =>
    /\ DOMAIN gatt = {s \in Service : OwnerOf[s] = AddressOf[device]}
    /\ \A s \in DOMAIN gatt : gatt[s] = {c \in Characteristic : ServiceOf[c] = s}

\* fetchProfile ends, also when BlueZ never resolves the services of a connected device.
FetchEnds == pc = "read" ~> pc \in {"idle", "aborted"}

\* "get the stable identifier ... AA:BB:CC:DD:EE:FF/<public|random>" (Device.h): the
\* identifiers of two devices with different addresses are different.
IdentifiersDiffer ==
  \A d, e \in fetched : AddressOf[d] # AddressOf[e] => StableIdentifier(d) # StableIdentifier(e)
===============================================================================
