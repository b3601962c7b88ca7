SPECIFICATION ClientsSpec
CONSTANTS
  u1 = u1
  u2 = u2
  Users = {u1, u2}
  Runs <- MCRuns
INVARIANTS RulesCanBeUndone
CHECK_DEADLOCK FALSE
