SPECIFICATION Spec
CONSTANTS
  Tokens <- SomeTokens
  Programs = {"skip", "project", "catalog"}
  MaxDepth = 3
  MaxRefs = 2
  MaxTokens = 7
INVARIANT TypeOK
INVARIANT SameReferences
INVARIANT LockStep
INVARIANT SameEnd
INVARIANT WriterNumbering
INVARIANT DivergenceIsPolicy
INVARIANT DepthIsSound
CHECK_DEADLOCK FALSE
