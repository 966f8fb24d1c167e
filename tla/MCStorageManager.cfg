SPECIFICATION FairSpec
CONSTANTS
  Manager = Manager
  Console = Console
  Nobody = Nobody
  PingLimit = 2
  FailureLimit = 2
  Attempts = 1
  Debounce = 2
  MaxSwaps = 2
  MaxFaults = 1
  MaxCommands = 1
CONSTRAINT Events
INVARIANT ForcedMeansPaused
PROPERTY BackendFollowsCard
