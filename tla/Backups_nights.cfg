SPECIFICATION Spec
CONSTANTS
  Nightly = {launchd}
  ByHand = {hand}
  Compared <- OrdersOnly
  Pid = {p1}
  SKIP_VERIFY = FALSE
  KEEP_DAYS = 0
  KEEP_MIN = 2
  DAY = 1
  Spaced = TRUE
  MaxClock = 2
  MaxRows = 1
  MaxFaults = 2
INVARIANTS
  TypeOK
  VerifiedHoldsTheRows
PROPERTIES
  RestorableRemains
  YoungDumpsStay
  LeftDatabasesStay
