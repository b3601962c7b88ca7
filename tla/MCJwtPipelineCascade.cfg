SPECIFICATION FairPipelineSpec
CONSTANTS
  Hosts = {h1, h2}
  NoHost = NoHost
  Agents = {1, 2, 3}
  Registered = {1, 2, 3}
  Calls = {c1, c2}
  Ops = {"rotateKey", "revokeHost"}
  Keys = {1}
  SessionTtl = 1
  MaxTtl = 2
  AbsoluteTtl = 3
  MaxTime = 1
  Faults = FALSE
  Requests = {r1}
  Tokens <- LongToken
  Skew = 1
  TicksPerSecond = 2
INVARIANT CascadeReachesAll
PROPERTY RevocationCascades
CHECK_DEADLOCK FALSE
