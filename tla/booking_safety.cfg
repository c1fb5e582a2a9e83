SPECIFICATION Spec
CONSTANTS
  Bookings = {b1}
  Requests = {r1, r2}
  NoBooking = NoBooking
  Overlap <- SameSlot
  PutStatuses = {"no_show", "completed"}
  Deliveries = {d1, d2}
  RawBody = TRUE
  MaxHandlers = 2
  MaxAttempts = 3
  MaxFaults = 1
SYMMETRY Symmetry
INVARIANTS
  TypeOK
  MoneyAgreesWithStripe
  AckedPaymentIsRecorded
  CompletedWasStarted
  KeptUntilDeadline
PROPERTIES
  KeepsContract
\* Every id may be used up and every request answered.
CHECK_DEADLOCK FALSE
