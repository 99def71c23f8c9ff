SPECIFICATION MCSpec
CONSTANTS
  r1 = r1
  r2 = r2
  Nobody = Nobody
  Requests <- TwoSlots
  MaxCharges = 2
  Bills = {1, 2}
  Deposit = 1
  Faults = TRUE
SYMMETRY SlotSymmetry
CONSTRAINT Bounds
INVARIANTS
  MoneyIsBacked
PROPERTIES
  CashConfirmedOnce
  NeverPendingAgain
  ChargesInTurn
