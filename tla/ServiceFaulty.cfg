CONSTANTS
  Calls = {c1, c2, c3}
  Keys = {k1}
  Clients = {t1, t2}
  Unscoped = {t2}
  Terms = {x}
  RetryAttempts = 2
  StatusRequests = {}
  Faults <- AllFaults
SPECIFICATION Spec
SYMMETRY CallSymmetry
INVARIANTS TypeOK RetriesAgree ReplyIsDurable OneStreamPerKey
PROPERTY ImplementsLedger
CHECK_DEADLOCK FALSE
