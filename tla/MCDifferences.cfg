SPECIFICATION Spec
CONSTANTS
  None = None
  Null = Null
  NaN = NaN
  Holed <- SomeHoled
  Contents <- SomeContents
  MaxChanges = 1
INVARIANT IdenticalIffSame
INVARIANT Symmetric
CHECK_DEADLOCK FALSE
