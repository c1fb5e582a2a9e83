SPECIFICATION Spec
CONSTANTS
  Bookings = {b1, b2}
  Requests = {r1, r2}
  NoBooking = NoBooking
  Overlap <- SameSlot
  PutStatuses = {}
  Deliveries = {d1}
  RawBody = TRUE
  MaxHandlers = 3
  MaxAttempts = 3
  MaxFaults = 0
INVARIANTS
  SeatIsReserved
CHECK_DEADLOCK FALSE
