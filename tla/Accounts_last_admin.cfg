SPECIFICATION Spec
CONSTANTS
  r1 = r1
  r2 = r2
  u1 = u1
  u2 = u2
  u3 = u3
  u4 = u4
  m1 = m1
  m2 = m2
  m3 = m3
  h1 = h1
  None = None
  Requests <- MCTwoRequests
  Ids <- MCThreeIds
  Emails <- MCEmails
  Urls <- MCOneUrl
  Ordered <- MCOrdered
  First <- MCFirst
  MayFail = FALSE
SYMMETRY MCSymmetry
INVARIANTS
  AdminKept
