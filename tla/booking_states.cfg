SPECIFICATION Spec
CONSTANTS
  Bookings = {b1}
  Requests = {r1, r2}
  NoBooking = NoBooking
  Overlap <- SameSlot
  PutStatuses = {}
  Deliveries = {d1}
  RawBody = TRUE
  MaxHandlers = 3
  MaxAttempts = 3
  MaxFaults = 0
PROPERTIES
  FollowsReadme
CHECK_DEADLOCK FALSE
