SPECIFICATION Spec
CONSTANTS
  Limit = 2
  MaxRows = 6
  MaxChanges = 4
INVARIANTS
  TypeOK
  MissedExplained
  RepeatsExplained
