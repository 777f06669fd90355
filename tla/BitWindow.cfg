SPECIFICATION Spec
CONSTANTS
  Width = 4
  Stride = 2
  StartLimit = 8
  StartBits = 3
  DistanceBits = 3
  Prime = 19
  FieldBits = 5
INVARIANTS
  TypeOK
  AcceptsExactly
PROPERTIES
  ImplementsWindow
CHECK_DEADLOCK FALSE
