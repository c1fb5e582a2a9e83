SPECIFICATION DaySpec
CONSTANTS
\* BookingSlots
  Bookings = {1, 2}
  Clients = {c1}
  Instants <- HalfHours
  Lengths = {2}
  Durations = {0, 1, 2}
  MinDuration = 1
  Window = 1
  Hours <- Opening
  PutStatuses = {"cancelled"}
  SavedStatuses = {"accepted"}
\* Presence
  Devices = {d1, d2}
  Members = {u1, u2}
  Rooms = {room1}
  Nobody = Nobody
  MaxUnsaid = 1
CONSTRAINT DayScope
INVARIANTS
  DayTypeOK
  OffersExactlyTheFree
  StaleOnlyByChange
  ConfirmedApart
  ShownIsTrue
  TypistsAreConnected
PROPERTIES
  ScanEnds
  LeavingIsShown
