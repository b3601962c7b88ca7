SPECIFICATION Spec
CONSTANTS
  Agents = {a1, a2}
  Tools = {t1}
  Reqs = {r1, r2}
  Regs = {g1, g2}
  TTL = 2
  MaxVersions = 2
  MaxTime = 4
SYMMETRY RouterSymmetry
INVARIANTS
  ServedWereEntitled
  StaleNeedsOverlap
  TelemetryMatchesServed
CHECK_DEADLOCK FALSE
