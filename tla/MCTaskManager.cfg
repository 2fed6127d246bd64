SPECIFICATION FairSpec
CONSTANTS
  p1 = p1
  p2 = p2
  d1 = d1
  d2 = d2
  d3 = d3
  a1 = a1
  a2 = a2
  Pusher = {p1, p2}
  Worker = worker
  NoThread = nothread
  Device = {d1, d2, d3}
  NoDevice = nodevice
  Address = {a1, a2}
  AddressOf <- MCAddressOf
INVARIANTS
  TypeOK
  LockDiscipline
  NoLostWakeup
  ReferencesAreBound
  FifoConservation
  RegistryIsNewest
PROPERTIES
  ImplementsDeviceFeed
  PushedIsStored
  DestructorReturns
