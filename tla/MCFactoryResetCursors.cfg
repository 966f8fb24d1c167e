SPECIFICATION Spec
CONSTANTS
  Domains = 3
  Written = {1}
  CursorsKey = 2
  Stores = 1
  MaxResets = 1
  MaxFaults = 1
  MaxUnreadable = 0
INVARIANTS
  CursorsCleared
