SPECIFICATION Spec
CONSTANTS
  Customer = {c1, c2}
  Nobody = Nobody
  Item = {i1, i2}
  MaxClaims = 2
  MaxKeys = 2
  MaxLosses = 0
  MaxFaults = 0
INVARIANTS
  HistoryConcernsCustomer
