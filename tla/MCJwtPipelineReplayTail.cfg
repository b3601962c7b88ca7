SPECIFICATION PipelineSpec
CONSTANTS
  Hosts = {h1}
  NoHost = NoHost
  Agents = {1}
  Registered = {1}
  Calls = {c1}
  Ops = {}
  Keys = {1}
  SessionTtl = 9
  MaxTtl = 9
  AbsoluteTtl = 9
  MaxTime = 9
  Faults = FALSE
  Requests = {r1}
  Tokens <- ShortTokens
  Skew = 1
  TicksPerSecond = 2
PROPERTY JtiSingleUse
CHECK_DEADLOCK FALSE
