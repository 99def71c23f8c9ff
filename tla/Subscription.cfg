SPECIFICATION FairSpec
CONSTANTS
  r1 = r1
  r2 = r2
  WEEKLY = WEEKLY
  Requests <- TwoSlots
  PlanIds <- Weekly
  Days <- Terms
  History = 2
  MaxCharges = 2
  MaxDay = 1
  MaxFailures = 2
CHECK_DEADLOCK FALSE
INVARIANTS
  GrantedOnce
  AnsweredIsGranted
PROPERTIES
  PaidIsGranted
