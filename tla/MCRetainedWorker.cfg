SPECIFICATION FairSpec
CONSTANTS
  Tasks = {t1, t2}
  Worker = worker
  NoTask = NoTask
  NumStores = 2
  SdOnly = {2}
  Rechecks = {1}
  QueueLength = 1
  MaxRequests = 2
  MaxRevision = 1
ACTION_CONSTRAINT Few
INVARIANTS
  QuiesceExcludesPass
  FlushOkMeansDurable
PROPERTIES
  CallsReturn
  RequestAnswered
