SPECIFICATION Spec
CONSTANTS
  Bookings = {b1}
  Requests = {r1}
  NoBooking = NoBooking
  Overlap <- SameSlot
  PutStatuses = {}
  Deliveries = {d1}
  RawBody = TRUE
  MaxHandlers = 3
  MaxAttempts = 3
  MaxFaults = 0
PROPERTIES
  DeletesOnlyUnpaid
CHECK_DEADLOCK FALSE
