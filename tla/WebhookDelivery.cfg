SPECIFICATION FairSpec
CONSTANTS
  e1 = e1
  e2 = e2
  a1 = a1
  Pending = Pending
  Events <- MCEvents
  Apps <- MCApps
INVARIANTS
  TypeOK
  LogTruthful
  OneLogPerEvent
  RedeliveryExplained
  ReceiverCurrent
PROPERTIES
  DeliveryRecorded
  ContractKept
