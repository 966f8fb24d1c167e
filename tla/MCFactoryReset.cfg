SPECIFICATION LiveSpec
CONSTANTS
  Domains = 3
  Written = {1}
  CursorsKey = 2
  Stores = 3
  MaxResets = 3
  MaxFaults = 4
  MaxUnreadable = 1
INVARIANTS
  InventoryErased
PROPERTIES
  CompleteOnlyWhenClean
  ResetSettles
