SPECIFICATION Spec
CONSTANTS
  Word = 2
  Chunk = 3
  MaxString = 4
  RefsLen = 1
  MinScan = 2
  StringChunk = 1
  Contents <- SomeContents
  MaxSize = 22
INVARIANT NothingLost
INVARIANT MemoryBounded
INVARIANT TrailingExact
INVARIANT ScannerSees
PROPERTY RefinesCursor
PROPERTY Terminates
CHECK_DEADLOCK FALSE
