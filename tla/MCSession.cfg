SPECIFICATION FairSpec
CONSTANTS
  d1 = d1
  d2 = d2
  d3 = d3
  a1 = a1
  a2 = a2
  Main = main_thread
  Dispatcher = dispatcher
  Worker = worker
  NoThread = nothread
  Device = {d1, d2, d3}
  NoDevice = nodevice
  Address = {a1, a2}
  AddressOf <- MCAddressOf
  SignalTarget = {dispatcher, worker}
  MaxInterrupts = 1
INVARIANTS
  TypeOK
  NoLostInterrupt
  WorkerUsesLiveParts
  KnownConnectedAreRemoved
  OnlyInterruptEnds
  OnlyMainWaitsForItself
PROPERTIES
  InterruptExits
