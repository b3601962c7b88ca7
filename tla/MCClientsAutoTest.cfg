SPECIFICATION ClientsSpec
CONSTANTS
  u1 = u1
  u2 = u2
  Users = {u1, u2}
  Runs <- MCRuns
INVARIANTS AutoTestRuns
CHECK_DEADLOCK FALSE
