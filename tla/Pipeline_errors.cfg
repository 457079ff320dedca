SPECIFICATION Spec
CONSTANTS
  r1 = r1
  r2 = r2
  i1 = i1
  i2 = i2
  None = None
  Requests <- MCRequests
  Instances <- MCInstances
  Hosts <- MCHosts
  Limit <- MCLimit
  MaxRestarts = 1
SYMMETRY Symmetry
INVARIANTS
  ErrorsCounted
