SPECIFICATION Spec
CONSTANTS
  Hosts = {h1}
  NoHost = NoHost
  Agents = {1, 2}
  Registered = {1, 2}
  Calls = {c1, c2}
  Ops = {"revoke", "revokeHost"}
  Keys = {1, 2}
  SessionTtl = 1
  MaxTtl = 2
  AbsoluteTtl = 3
  MaxTime = 1
  Faults = FALSE
INVARIANT CascadeReachesAll
CHECK_DEADLOCK FALSE
