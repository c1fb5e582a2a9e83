SPECIFICATION DeliverySpec
CONSTANTS
\* NotificationQueue
  Notes = {1, 2}
  Users = {u1}
  Barbers = {p1}
  UserOf <- OneUser
  NoUser = NoUser
  NoNote = NoNote
  Senders = {s1}
  Workers = {w1, w2}
  MaxRetries = 2
  MaxFaults = 0
\* BackgroundJobs
  Jobs = {j1}
  Kinds <- MostKinds
  AdminQueues = {"bookings"}
  Attempts <- QueueAttempts
  MaxMishaps = 0
  MaxRetried = 0
INVARIANTS
  MoneyMovesOnce
