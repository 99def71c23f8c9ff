SPECIFICATION Spec
CONSTANTS
  r1 = r1
  r2 = r2
  Requests <- TwoSlots
  Payments = {1, 2}
  Cash = {1}
  Amount <- Paid
  Commission <- Share
  MaxRefunds = 1
  MaxBatches = 2
  MaxStamps = 2
  MaxWithdrawals = 1
  Faults = TRUE
CHECK_DEADLOCK FALSE
SYMMETRY SlotSymmetry
CONSTRAINT RefundsOrRepeats
INVARIANTS
  RefundWithinAmount
PROPERTIES
  SettledStaysSettled
  ImplementsPromise
