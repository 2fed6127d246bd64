SPECIFICATION Spec
CONSTANTS
  d1 = d1
  d2 = d2
  a1 = a1
  a2 = a2
  s1 = s1
  s2 = s2
  s3 = s3
  c1 = c1
  c2 = c2
  Device = {d1, d2}
  NoDevice = nodevice
  Address = {a1, a2}
  AddressOf <- MCAddressOf
  Service = {s1, s2, s3}
  OwnerOf <- MCOwnerOf
  Characteristic = {c1, c2}
  ServiceOf <- MCServiceOf
  Deadline = 2
  MaxChanges = 3
INVARIANTS
  IdentifiersDiffer
