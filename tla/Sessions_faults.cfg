SPECIFICATION Spec
CONSTANTS
  r1 = r1
  r2 = r2
  u1 = u1
  t1 = t1
  t2 = t2
  t3 = t3
  None = None
  Requests <- MCTwoRequests
  Users <- MCOneUser
  Ids <- MCThreeIds
  AccessTtl = 1
  RefreshTtl = 2
  SubSeconds = 1
  MaxSec = 1
  Headers <- MCBearer
  HashedClaims <- MCSubAndIat
  MayEvict = FALSE
  MayFail = TRUE
SYMMETRY MCSymmetry
INVARIANTS
  TypeOK
  SessionKept
PROPERTIES
  SignedOutStays
