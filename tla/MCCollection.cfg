SPECIFICATION MCSpec
CONSTANTS
  None = None
  Unflagged <- SomeUnflagged
  Zones <- SomeZones
  DefaultCodec = "utf-8"
  N = 3
  FileContents <- SomeContents
  TableSelectors <- SomeTables
  ColumnLists <- SomeProjections
  Generated <- SomeGenerated
  Unmatched <- SomeUnmatched
  MaxRewrites = 1
INVARIANT FilledIffAbsent
INVARIANT NoPromotion
 
CHECK_DEADLOCK FALSE
