SPECIFICATION Spec
CONSTANTS
  Operator = {op1, op2}
  OrderId = {o1}
  NoOrder = NoOrder
  MaxRows = 1
  Offered = {"accept_order", "cancel_order", "record_refund"}
  SiteFillings <- NoFillings
  ReasonsGiven = TRUE
  PanelStatuses = {}
  SigningEnabled = TRUE
  MaxFaults = 0
  MaxCrashes = 0
SYMMETRY Symmetry
INVARIANTS
  RefundMailsMatchRefunds
