SPECIFICATION Spec
CONSTANTS
  p1 = p1
  p2 = p2
  a = a
  b = b
  shared = shared
  Callers = {p1, p2}
  Sources = {a, b}
  Sidecars = {shared}
  SidecarOf <- OneSidecar
  Codecs = {"utf-8"}
  MaxChanges = 2
  None = None
  Partial = Partial
SYMMETRY Interchangeable
INVARIANT CatalogsTrue
INVARIANT NoLitter
PROPERTY SidecarsWhole
PROPERTY AnswersAtOnce
CHECK_DEADLOCK FALSE
