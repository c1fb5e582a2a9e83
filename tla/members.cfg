SPECIFICATION MembersSpec
CONSTANTS
  e1 = e1
  e2 = e2
  k1 = k1
  k2 = k2
  shop1 = shop1
  owner1 = owner1
\* Registration
  Users = {1, 2}
  Emails = {e1, e2}
  Phones = {p1}
  NoAddress = NoAddress
  NoUser = NoUser
  Signers = {k1, k2}
  MaxAborts = 1
\* Sessions
  Accounts = {a1}
  Tokens = {1, 2, 3}
  NoAccount = NoAccount
  NoToken = NoToken
  Calls = {k1, k2}
  MaxPasswords = 2
  MaxFailures = 1
\* Chat
  Convs = {1, 2}
  Messages = {1, 2}
  Customers = {user1}
  Barbers = {shop1}
  UserOf <- Owners
  Bookings = {booking1}
  None = None
  Blockers = {owner1}
  Talks = {k1, k2}
  MaxChatFaults = 1
\* Catalog
  Services = {1, 2}
  Titles = {e1, e2}
  Profiles = {shop1}
  NoId = NoId
  Editors = {k1, k2}
  MaxServices = 2
  MaxVersion = 2
\* Standing
  People = {a1}
  Numbers = {n1, n2}
  NoNumber = NoNumber
  Payers = {1, 2, 3}
  NoPayer = NoPayer
  NoPerson = NoPerson
  Tasks = {k1, k2}
  MaxPapers = 3
\* PagedLists
  Docs = {k1, k2, d3}
  Limits = {1, 2}
  MaxKey = 3
CONSTRAINT MembersScope
SYMMETRY MembersPerms
INVARIANTS
  MembersTypeOK
  SharedOnlyByRace
  BarberHasProfile
  OldSessionsEnd
  TwinsOverlap
  ToldAreTheSent
  DeletedIsSwept
  DuplicatesOnlyByRace
  BlockStopsBarber
  TitlesDiffer
  PricesFit
  TwiceOnlyByRace
  VerdictSeen
  CustomerKept
  PagesFitTogether
\* The ids of documents may be used up.
CHECK_DEADLOCK FALSE
