SPECIFICATION PipelineSpec
CONSTANTS
  Hosts = {h1}
  NoHost = NoHost
  Agents = {1}
  Registered = {}
  Calls = {c1, c2}
  Ops = {"register", "reactivate"}
  Keys = {1}
  SessionTtl = 1
  MaxTtl = 2
  AbsoluteTtl = 3
  MaxTime = 3
  Faults = TRUE
  Requests = {r1, r2}
  Tokens <- ShortTokens
  Skew = 1
  TicksPerSecond = 2
INVARIANT LifetimesEnforced
PROPERTY AbsoluteNeverExtended
PROPERTY ActiveHasClocks
PROPERTY NoReplayInWindow
SYMMETRY PipelineSymmetry
CHECK_DEADLOCK FALSE
