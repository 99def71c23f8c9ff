SPECIFICATION MCSpec
CONSTANTS
  b1 = b1
  b2 = b2
  r1 = r1
  r2 = r2
  None = None
  Bookings <- TwoBookings
  ByVehicle <- OnlySecond
  Deposits <- OnlyFirst
  Requests <- TwoSlots
  Capacity = 1
  OutsideHours = TRUE
  MaxTickets = 3
  MaxFaults = 1
  Couriers = {"c1", "c2"}
  Horizon = 1
  MaxPlans = 2
  MaxLosses = 1
CONSTRAINT Apart
CHECK_DEADLOCK FALSE
INVARIANTS
  SlotIsExact
  OneWorkTicket
  ToldEnough
PROPERTIES
  ArrivalIsKept
  BookingsClose
  RemindersEnd
