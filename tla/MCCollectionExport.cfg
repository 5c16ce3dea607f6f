SPECIFICATION Spec
CONSTANTS
  Stems <- SomeStems
  Workers = 2
  Existing <- SomeExisting
  MaxFaults = 2
INVARIANT TypeOK
INVARIANT OwnFile
INVARIANT ReturnedComplete
INVARIANT NoLitter
PROPERTY NeverMissing
CHECK_DEADLOCK FALSE
