SPECIFICATION ApprovedFairSpec
CONSTANTS
  Operator = {op1, op2}
  OrderId = {o1}
  NoOrder = NoOrder
  MaxRows = 2
  Offered = {"publish_site"}
  SiteFillings <- LongFillings
  ReasonsGiven = FALSE
  PanelStatuses = {"Avbruten"}
  SigningEnabled = TRUE
  MaxFaults = 2
  MaxCrashes = 1
INVARIANTS
  FlagsFollowClaims
  ClaimsFollowPublication
PROPERTIES
  EveryRunEnds
