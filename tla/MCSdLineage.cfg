SPECIFICATION SpecCards
CONSTANTS
  Domains = 2
  Written = {1}
  CursorsKey = 2
  Stores = 2
  MaxResets = 2
  MaxFaults = 1
  MaxSdFaults = 1
  MaxUnreadable = 1
  Cards = {c1, c2}
  NoCard = NoCard
  PacketLogs = {0, 2}
  DeleteMayFail = FALSE
  SilentSwap = FALSE
CONSTRAINT Instances
SYMMETRY CardSymmetry
INVARIANT OldHistoryFenced
PROPERTIES
  WriteReadable
  ResetSpec
