SPECIFICATION PipelineSpec
CONSTANTS
  Hosts = {h1}
  NoHost = NoHost
  Agents = {1, 2}
  Registered = {1}
  Calls = {c1, c2}
  Ops = {"register", "revoke", "rotateKey", "revokeHost"}
  Keys = {1, 2}
  SessionTtl = 2
  MaxTtl = 3
  AbsoluteTtl = 4
  MaxTime = 1
  Faults = TRUE
  Requests = {r1}
  Tokens <- LongTokens
  Skew = 1
  TicksPerSecond = 2
INVARIANT PipelineTypeOK
INVARIANT RevokedIsRefused
PROPERTY RevokedIsFinal
PROPERTY ImplementsStateMachine
SYMMETRY PipelineSymmetry
CHECK_DEADLOCK FALSE
