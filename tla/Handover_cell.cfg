SPECIFICATION Spec
CONSTANTS
  Customer = {c1, c2}
  Nobody = Nobody
  Item = {i1, i2}
  MaxClaims = 3
  MaxKeys = 2
  MaxLosses = 1
  MaxFaults = 1
SYMMETRY Symmetry
INVARIANTS
  TypeOK
  ServingMeansSignable
  VerifiedIsTheSource
  VerifiedClaimsComeBack
PROPERTIES
  ChainIsKept
  ReceiptsOnlyGrow
