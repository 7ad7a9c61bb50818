CONSTANTS
  Messages = {m1}
  MaxReceives = 2
  Webhooks = {w1, w2}
  Clients = {t1, t2}
  Events = {"risk.completed", "other"}
  Subscriptions <- OneSubscriber
  Calls = {c1}
  MaxAttempts = 2
  Faults = {"http", "db", "sqs", "crash"}
SPECIFICATION FairSpec
INVARIANTS NoSubscriberSkipped TenantIsolation
PROPERTY EveryMessageSettles
CHECK_DEADLOCK FALSE
