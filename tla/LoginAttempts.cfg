SPECIFICATION FairSpec
CONSTANTS
  r1 = r1
  r2 = r2
  r3 = r3
  known = known
  unknown = unknown
  Requests <- MCThreeRequests
  Emails <- MCEmails
  Registered <- MCRegistered
  MaxAttempts = 3
INVARIANTS
  TypeOK
  OverrunBounded
  TtlOwed
PROPERTIES
  LockHolds
  LockoutEnds
