SPECIFICATION Spec
CONSTANTS
  None = None
  Unflagged <- SomeUnflagged
  DefaultCodec = "utf-8"
  Contents <- SomeContents
  Tables <- SomeTables
  Projections <- SomeProjections
  Selections <- SomeSelections
  Codecs = {"latin1"}
  MaxChanges = 1
INVARIANT OneVersion
INVARIANT SchemaKept
INVARIANT RefusedOnlyFor
CHECK_DEADLOCK FALSE
