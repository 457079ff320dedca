SPECIFICATION Spec
CONSTANTS
  r1 = r1
  r2 = r2
  r3 = r3
  emp = emp
  ap = ap
  j1 = j1
  a1 = a1
  a2 = a2
  t1 = t1
  None = None
  Requests <- MCThreeRequests
  Users <- MCUsers
  FirstRole <- MCFirstRole
  Assigned <- MCAssigned
  JobIds <- MCOneJob
  AppIds <- MCTwoApps
  Titles <- MCOneTitle
  Patches <- MCPatches
  Asked <- MCStatuses
SYMMETRY MCSymmetry
INVARIANTS
  TypeOK
  UniqueApplications
  AppsHaveJobs
  ChecksAnticipate
  StatusSigned
  ReviewersEntitled
PROPERTIES
  DeletedStaysDeleted
  ClosedGetsNoApplications
  StatusAsAsked
