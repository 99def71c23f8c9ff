SPECIFICATION Spec
CONSTANTS
  None = None
  s1 = s1  s2 = s2  s3 = s3
  Callers = {1}
  Sweeper = 0
  Shops = {s1, s2, s3}
  Fee <- MCFee
  Fix = {3000}
  Operators = {"rider", "shop"}
  SweepLimit = 3
  MaxTickets = 3
  MaxOffers = 1
  MaxFaults = 1
CHECK_DEADLOCK FALSE
INVARIANTS
  OneSearch
  VisitsAddUp
PROPERTIES
  NeverStranded
