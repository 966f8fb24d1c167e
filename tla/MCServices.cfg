SPECIFICATION Services
CONSTANTS
  Base = 1
  Build = 2
  Top = 9
  Range = 2
  Horizon = 1
  SntpTop = 6
  Peers = {p, q, r}
  NoPeer = NoPeer
  Twins = {p, q}
  Clients = {a, b}
  ResponseSlots = {s1, s2}
  CacheSize = 1
  MaxStamp = 2
  MaxCalls = 3
  MaxReboots = 1
  MaxRows = 2
  Capacity = 1
  MaxCrashes = 1
  MaxClears = 1
  MaxRemounts = 1
ACTION_CONSTRAINT TwoOfThree
SYMMETRY Alike
INVARIANTS
  TimestampsFresh
  CutResumes
  GenerationNamesExchange
  OwnerMatchesRow
  OpenRowsDriven
  PathJudgedOnce
PROPERTIES
  LoginAcceptedOnce
  RfOnlyAfterDurable
  EffectsAreDurable
  AckTruthSurvives
