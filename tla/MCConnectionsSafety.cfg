SPECIFICATION Spec
CONSTANTS
  a1 = a1
  c1 = c1
  c2 = c2
  p1 = p1
  k1 = k1
  k2 = k2
  o1 = o1
  o2 = o2
  None = None
  Agents = {a1}
  Conns = {c1, c2}
  Projects = {p1}
  Ops = {o1, o2}
  OpSets <- MCOpSets
  Limits = {0, 1}
  Requests = {1}
  Calls = {k1, k2}
  PageSize = 1
  Window = 1
  MaxTime = 2
  MaxWrites = 2
  MaxExecs = 2
SYMMETRY ConnSymmetry
INVARIANTS
  AuditMatchesCalls
  WindowIsCapped
PROPERTIES
  CallsAreEntitled
  OnlyLastDetachWidens
  DeletionFreesNothing
CHECK_DEADLOCK FALSE
