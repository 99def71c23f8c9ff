SPECIFICATION CareSpec
CONSTANTS
  None = None
  Quotes = {10}
  Totals = {10, 15}
  Deposit = 5
  Adjusted = {7}
  Scopes <- MCScopes
  Care <- MCCare
CHECK_DEADLOCK FALSE
INVARIANTS
  RiderWonOwesNothing
