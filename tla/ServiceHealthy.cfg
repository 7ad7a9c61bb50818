CONSTANTS
  Calls = {c1, c2}
  Keys = {k1}
  Clients = {t1, t2}
  Unscoped = {}
  Terms = {x, y}
  RetryAttempts = 2
  StatusRequests <- AllStatuses
  Faults = {"cacheExpiry", "cancel", "risk", "sqs", "db"}
SPECIFICATION FairSpec
INVARIANTS OneProcessorPerKey MismatchRejected NeverSilentlyApproved
PROPERTY EveryCallEnds
CHECK_DEADLOCK FALSE
