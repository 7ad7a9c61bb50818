CONSTANTS
  e1 = e1
  e2 = e2
  d1 = d1
  r1 = r1
  Evaluations = {e1, e2}
  Names = {"receiver"}
  Txn <- Payments
  NoDevice = NoDevice
  Hour = 1
  Day = 2
  Burst = 2
  MaxTime = 2
  Faults <- AllFaults
SPECIFICATION Spec
INVARIANTS RefreshedIsRemembered FlaggedOncePerBurst KnownWasSeen AverageIsFaithful WindowsNeverOvercount
CHECK_DEADLOCK FALSE
