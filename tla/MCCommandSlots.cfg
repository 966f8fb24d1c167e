SPECIFICATION FairSpec
CONSTANTS
  Callers = {1, 2, 3}
  SlotCount = 2
  QueueLength = 1
  MaxId = 3
ACTION_CONSTRAINT Crowded
INVARIANTS
  SlotsOwned
  SecretConfined
PROPERTIES
  PromiseKept
  CallsReturn
