SPECIFICATION FairSpec
CONSTANTS
  Visitor = {anna}
  NoVisitor = NoVisitor
  home = home
  Address <- OneAddress
  AddressOf <- SharedAddress
  Slot = {s1, s2}
  MaxRows = 2
  Typed = {"invalid", "valid", "unmailable"}
  MailConfigured = TRUE
  MIN_SECONDS_ON_PAGE = 1
  RATE_LIMIT_BURST = 2
  RATE_LIMIT_PER_SECONDS = 1
  MaxClock = 1
  MaxFaults = 1
INVARIANTS
  TypeOK
  MailFollowsStore
  ThanksMeansStored
PROPERTIES
  StudioGetsTheOrder
