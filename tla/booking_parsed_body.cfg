SPECIFICATION FairSpec
CONSTANTS
  Bookings = {b1}
  Requests = {r1}
  NoBooking = NoBooking
  Overlap <- SameSlot
  PutStatuses = {}
  Deliveries = {d1}
  RawBody = FALSE
  MaxHandlers = 3
  MaxAttempts = 3
  MaxFaults = 0
PROPERTIES
  ChargeIsAcknowledged
CHECK_DEADLOCK FALSE
