SPECIFICATION Spec
CONSTANTS
  duck = duck
  arrow = arrow
  Exporters = {duck, arrow}
  Engine <- OneOfEach
  Roots <- SomeRoots
  Selections = {{0}, {1}, {0, 2}, {0, 3}}
  Limits = {None, 1, 2}
  StageMaxColumns = 2
  StageMaxBytes = 3
  SafeNames <- SomeNames
  Existing <- SomeFiles
  Old = Old
  Partial = Partial
  None = None
INVARIANT BatchesBounded
INVARIANT NothingLeft
INVARIANT EnginesAgree
INVARIANT EnginesAccept
PROPERTY Publishes
CHECK_DEADLOCK FALSE
