CONSTANTS
  Transactions = {t1}
  Triggers = {1}
  Manuals = {2}
  Messages <- AllMessages
  MaxReceives = 3
  MaxRetries = 2
  Faults <- AllFaults
SPECIFICATION FairSpec
INVARIANTS TriggerIsAnswered InvestigatedOnce
PROPERTIES ReportIsKept EveryMessageSettles
CHECK_DEADLOCK FALSE
