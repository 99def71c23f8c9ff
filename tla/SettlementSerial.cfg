SPECIFICATION Spec
CONSTANTS
  r1 = r1
  r2 = r2
  Requests <- OneSlot
  Payments = {1, 2}
  Cash = {1}
  Amount <- Paid
  Commission <- Share
  MaxRefunds = 2
  MaxBatches = 2
  MaxStamps = 1
  MaxWithdrawals = 2
  Faults = TRUE
CHECK_DEADLOCK FALSE
CONSTRAINT RefundsAndOneBatch
INVARIANTS
  BooksBalance
