SPECIFICATION Spec
CONSTANTS
  txt = txt
  arg1 = arg1
  arg2 = arg2
  nameA = nameA
  nameB = nameB
  u1 = u1
  u2 = u2
  Numbers = {0, 1}
  Scalars = {txt}
  Missing = Missing
  Fields = {arg1, arg2}
  Offered <- MCOffered
  MaxLayers = 3
  Names = {nameA, nameB}
  Star = Star
  Bad = Bad
  Unset = Unset
  Raws <- MCRaws
  MaxRules = 3
  Ids = {1, 2, 3}
  Micros = 2
  Limits = {0, 1, 3}
  MaxPageSize = 2
  MaxMicro = 4
  Testers = {1, 2}
  MaxRotations = 1
  Users = {u1, u2}
  Runs <- MCRuns
INVARIANTS Narrowing NamedIsDecided NoRowTwice SkipsShareAMillisecond FormsAreComplete GreenMeansComplete
  RefusalsAreReplays PartialOnlyEdits RulesLostToPolicyTabsOnly LeftoversHaveCauses
PROPERTIES SessionEnds
CHECK_DEADLOCK FALSE
