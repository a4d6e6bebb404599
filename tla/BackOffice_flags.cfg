SPECIFICATION Spec
CONSTANTS
  Operator = {op1}
  OrderId = {o1}
  NoOrder = NoOrder
  MaxRows = 1
  Offered = {"accept_order", "send_proposal", "record_acceptance", "publish_site"}
  SiteFillings <- PlainFillings
  ReasonsGiven = FALSE
  PanelStatuses = {}
  SigningEnabled = TRUE
  MaxFaults = 1
  MaxCrashes = 0
SYMMETRY Symmetry
INVARIANTS
  FlagsMatchClaims
