SPECIFICATION LossSpec
CONSTANTS
  h1 = h1
  k1 = k1
  k2 = k2
  Hosts = {h1}
  Agents = {a1}
  Owner <- OneOwner
  NoConnection = NoConnection
  NoTask = NoTask
  Caps = {k1, k2}
  Connections = {}
  Stored = {}
  Reachable <- NoPairs
  Tasks = {t1}
  Calls = {c1, c2}
  Ops = {"createTask", "completeTask"}
  Lists <- ShortLists
  Ttls = {0, 1}
  Standing <- NoPairs
  MaxTime = 1
  Faults = FALSE
INVARIANT ZeroStandingAccess
CHECK_DEADLOCK FALSE
