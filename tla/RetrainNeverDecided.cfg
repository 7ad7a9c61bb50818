CONSTANTS
  k1 = k1
  k2 = k2
  ta = ta
  tb = tb
  t1 = t1
  Requests = {q1}
  Jobs = {q1}
  Inputs <- AllInputs
  Kids = {k1, k2}
  FirstKeys = {k1}
  Tenants = {ta, tb}
  Transactions = {t1}
  FirstRows <- NoRows
  NoTenant = NoTenant
  NoToken = NoToken
  JwksTtl = 1
  MaxTime = 1
  Faults <- NoFaults
  Workers = {w1}
  MinDecisions = 1
  MaxDecisions = 1
  MaxFailures = 0
SPECIFICATION FairSystem
PROPERTY EveryRequestIsDecided
CHECK_DEADLOCK FALSE
