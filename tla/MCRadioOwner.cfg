SPECIFICATION FairSpec
CONSTANTS
  SlotCount = 1
  MaxOp = 2
  QueueCap = 1
  EdgeCap = 1
  EventBurst = 1
  PriorityBurst = 1
INVARIANTS
  TerminalsAreCurrent
PROPERTIES
  TransmissionsKept
  ListensAgain
  AckEnds
  NormalServed
