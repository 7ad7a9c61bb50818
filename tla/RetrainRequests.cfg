CONSTANTS
  k1 = k1
  k2 = k2
  ta = ta
  tb = tb
  t1 = t1
  Requests = {q1, q2}
  Jobs = {q1, q2}
  Inputs <- AllInputs
  Kids = {k1, k2}
  FirstKeys = {k1}
  Tenants = {ta, tb}
  Transactions = {t1}
  FirstRows <- NoRows
  NoTenant = NoTenant
  NoToken = NoToken
  JwksTtl = 1
  MaxTime = 1
  Faults <- AllFaults
  Workers = {w1}
  MinDecisions = 1
  MaxDecisions = 1
  MaxFailures = 1
SPECIFICATION FairSystem
INVARIANTS EntitledOnly ReadingsAreCurrent DeletedIsDecided
PROPERTIES CurrentKeysAreAccepted RetiredKeysAreForgotten EveryRequestIsSeenThrough
CHECK_DEADLOCK FALSE
