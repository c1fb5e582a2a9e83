SPECIFICATION FairSpec
CONSTANTS
  Bookings = {b1}
  Requests = {r1}
  NoBooking = NoBooking
  Overlap <- SameSlot
  PutStatuses = {"no_show", "pending_payment"}
  Deliveries = {d1}
  RawBody = TRUE
  MaxHandlers = 3
  MaxAttempts = 1
  MaxFaults = 1
PROPERTIES
  PendingIsResolved
  ChargeIsAcknowledged
CHECK_DEADLOCK FALSE
