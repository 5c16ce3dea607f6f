SPECIFICATION Spec
CONSTANTS
  Int32Max = 3
  Int64Max = 127
  ExactLimit = 32
  Steps <- SomeSteps
  Second = 10
  Quantum = 16
  SecondsPerUnit <- SomeUnits
  Day = 2
  Offset <- SomeOffset
  Missing = Missing
  NaReal = NaReal
  None = None
  Writers = {"w1", "w2"}
  Requests <- SomeRequests
  Foreign <- SomeForeign
  MaxFaults = 1
INVARIANT TargetWhole
INVARIANT NoLitter
INVARIANT RoundTrip
INVARIANT TimesClose
INVARIANT FactorsMean
CHECK_DEADLOCK FALSE
