SPECIFICATION Spec
CONSTANTS
  i1 = i1
  i2 = i2
  Identifier = {i1, i2}
  Junk = {0, 1, 2}
  MaxUpdates = 3
SYMMETRY IdentifierSymmetry
INVARIANTS
  ObservationOfItsDevice
