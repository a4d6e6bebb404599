SPECIFICATION AcceptedSpec
CONSTANTS
  Operator = {op1, op2}
  OrderId = {o1}
  NoOrder = NoOrder
  MaxRows = 1
  Offered = {"send_proposal", "record_acceptance", "publish_site", "record_refund"}
  SiteFillings <- NoFillings
  ReasonsGiven = TRUE
  PanelStatuses = {"Avbruten"}
  SigningEnabled = FALSE
  MaxFaults = 1
  MaxCrashes = 0
SYMMETRY Symmetry
INVARIANTS
  NoSkippedSteps
  MailFollowsWrite
  RefundFollowsCancel
  ReportsAreTrue
PROPERTIES
  StampsWriteOnce
