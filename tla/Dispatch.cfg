SPECIFICATION FairSpec
CONSTANTS
  t1 = t1
  t2 = t2
  w1 = w1
  w2 = w2
  r1 = r1
  r2 = r2
  None = None
  Tickets <- TwoTickets
  Towers <- TwoTowers
  Requests <- TwoSlots
  Alone <- OnlyFirst
  Bustles <- BustleNames
  MaxRounds = 3
  MaxFaults = 1
CONSTRAINT Followed
CHECK_DEADLOCK FALSE
INVARIANTS
  DutyFollowsJob
PROPERTIES
  KeepsPromise
  SweepsAnswer
