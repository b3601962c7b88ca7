SPECIFICATION Spec
CONSTANTS
  Hosts = {h1}
  NoHost = NoHost
  Agents = {1}
  Registered = {1}
  Calls = {c1}
  Ops = {"register", "reactivate"}
  Keys = {1, 2}
  SessionTtl = 1
  MaxTtl = 2
  AbsoluteTtl = 3
  MaxTime = 3
  Faults = FALSE
PROPERTY ReactivationWorks
CHECK_DEADLOCK FALSE
