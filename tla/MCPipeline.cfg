SPECIFICATION FairSpec
CONSTANTS
  d1 = d1
  d2 = d2
  a1 = a1
  a2 = a2
  Dispatcher = dispatcher
  Worker = worker
  NoThread = nothread
  Device = {d1, d2}
  NoDevice = nodevice
  Address = {a1, a2}
  AddressOf <- MCAddressOf
  Unknown = unknown
  Junk = {0, 1}
  MaxUpdates = 2
  MaxModeRetry = 2
  Report <- MCReport
INVARIANTS
  TypeOK
  ReadIsAllOrNothing
  StopWaitsForOneRead
  RowsAreOfTheirDevices
  StatusTellsTheFix
PROPERTIES
  ImplementsLogbook
  AnnouncedIsObserved
