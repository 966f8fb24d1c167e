SPECIFICATION FairSpec
CONSTANTS
  Users = {u1, u2}
  Main = Main
  Nobody = Nobody
  Worker = Worker
  FailureLimit = 2
  MaxAttempts = 1
  MaxSpent = 2
INVARIANTS
  OffStaysOff
  CrashLoopContained
  ShownIsUp
PROPERTY RetryTaken
CHECK_DEADLOCK FALSE
