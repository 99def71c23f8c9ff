SPECIFICATION FairSpec
CONSTANTS
  f1 = f1
  v1 = v1
  v2 = v2
  r1 = r1
  r2 = r2
  s1 = s1
  None = None
  FlagIds <- OneFlag
  Voters <- TwoVoters
  Weights = {3}
  Requests <- TwoSlots
  Sweeps <- OneSweep
  Opening = 2
  MaxFaults = 1
CHECK_DEADLOCK FALSE
INVARIANTS
  AwardIsCurrent
  PointsFollowLedger
PROPERTIES
  LapsedFlagsClose
