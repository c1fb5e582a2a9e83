SPECIFICATION DeliverySpec
CONSTANTS
\* NotificationQueue
  Notes = {1, 2}
  Users = {u1}
  Barbers = {p1}
  UserOf <- OneUser
  NoUser = NoUser
  NoNote = NoNote
  Senders = {s1}
  Workers = {w1, w2}
  MaxRetries = 2
  MaxFaults = 1
\* BackgroundJobs
  Jobs = {j1}
  Kinds <- MostKinds
  AdminQueues = {"bookings"}
  Attempts <- QueueAttempts
  MaxMishaps = 1
  MaxRetried = 1
CONSTRAINT DeliveryScope
INVARIANTS
  DeliveryTypeOK
  StatusIsEarned
  PendingIsQueued
  OutcomeIsEarned
  NoticesAreTrue
PROPERTIES
  KeepsNoteContract
  PendingIsSettled
  JobsSettle
\* A job that failed, and a notification that was deleted, may be the last.
CHECK_DEADLOCK FALSE
