CONSTANTS
  Transactions = {t1}
  Copies = {1}
  Messages <- AllMessages
  Accounts = {a1}
  Evaluations = {e1}
  MaxReceives = 2
  FlagAfter = 2
  Faults <- AllFaults
SPECIFICATION FairSpec
INVARIANTS AcknowledgedIsRecorded PublishedIsRecorded NoLostUpdate
PROPERTIES EveryMessageSettles ImplementsBook
CHECK_DEADLOCK FALSE
