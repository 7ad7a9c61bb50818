CONSTANTS
  Transactions = {t1}
  Triggers = {1}
  Manuals = {2}
  Messages <- AllMessages
  MaxReceives = 3
  MaxRetries = 3
  Faults = {}
SPECIFICATION FairSpec
PROPERTY ReinvestigationOverwrites
CHECK_DEADLOCK FALSE
