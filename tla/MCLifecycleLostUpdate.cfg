SPECIFICATION Spec
CONSTANTS
  Hosts = {h1}
  NoHost = NoHost
  Agents = {1}
  Registered = {}
  Calls = {c1, c2}
  Ops = {"register", "revoke", "reactivate"}
  Keys = {1, 2}
  SessionTtl = 1
  MaxTtl = 2
  AbsoluteTtl = 3
  MaxTime = 1
  Faults = FALSE
PROPERTY RevokedIsFinal
SYMMETRY Symmetry
CHECK_DEADLOCK FALSE
