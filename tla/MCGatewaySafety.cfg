SPECIFICATION Spec
CONSTANTS
  i1 = i1
  Ips = {i1}
  Reqs = {r1, r2, r3}
  Static <- MCStatic
  Patches <- MCPatches
  Other = Other
  IpWindow = 2
  RegisterWindow = 2
  MaxTime = 3
PROPERTY DrainCompletes
INVARIANTS BurstIsBounded SubscribersHearAll PatchesAreAccounted StorageOutlivesClients
CHECK_DEADLOCK FALSE
