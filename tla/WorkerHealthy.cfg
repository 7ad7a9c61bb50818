CONSTANTS
  Transactions = {t1, t2}
  Copies = {1}
  Messages <- AllMessages
  Accounts = {a1}
  Evaluations = {e1}
  MaxReceives = 3
  FlagAfter = 2
  Faults = {"redis", "ttl"}
SPECIFICATION FairSpec
INVARIANTS CountedOnce DeletedAfterEverything
PROPERTY EveryMessageIsProcessed
CHECK_DEADLOCK FALSE
