SPECIFICATION LossSpec
CONSTANTS
  h1 = h1
  k1 = k1
  k2 = k2
  Hosts = {h1}
  Agents = {a1}
  Owner <- OneOwner
  NoConnection = NoConnection
  NoTask = NoTask
  Caps = {k1, k2}
  Connections = {x1, x2}
  Stored = {x1}
  Reachable <- NoPairs
  Tasks = {t1, t2}
  Calls = {c1, c2}
  Ops = {"grant", "request", "createTask", "completeTask"}
  Lists <- MixedLists
  Ttls = {0, 1}
  Standing <- FirstGranted
  MaxTime = 2
  Faults = TRUE
INVARIANT LossesHaveCauses
INVARIANT TaskGrantTimeBoxed
INVARIANT CompletedTaskLeavesNothing
INVARIANT DuplicatesNeedRaces
SYMMETRY Symmetry
CHECK_DEADLOCK FALSE
