SPECIFICATION Spec
CONSTANTS
  Operator = {op1}
  OrderId = {o1}
  NoOrder = NoOrder
  MaxRows = 2
  Offered = {"accept_order", "send_proposal", "record_acceptance", "publish_site", "cancel_order", "record_refund"}
  SiteFillings <- PlainFillings
  ReasonsGiven = TRUE
  PanelStatuses = {}
  SigningEnabled = FALSE
  MaxFaults = 1
  MaxCrashes = 1
SYMMETRY Symmetry
INVARIANTS
  TypeOK
  LinkMeansCompleteJob
  RefundMailsMatchRefunds
PROPERTIES
  StatusFollowsLifecycle
