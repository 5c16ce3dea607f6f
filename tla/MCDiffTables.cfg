SPECIFICATION Spec
CONSTANTS
  None = None
  Null = Null
  NaN = NaN
  Holed <- SomeHoled
  Contents <- SomeContents
  MaxChanges = 1
INVARIANT IdenticalMeansSame
CHECK_DEADLOCK FALSE
