SPECIFICATION MeterFairSpec
CONSTANTS
  MaxTime = 1
  MaxSeq = 3
  Window = 2
  Expires = 1
  Faults = {"degraded", "reset"}
  MaxReturns = 1
PROPERTY UsageIsSettled
CHECK_DEADLOCK FALSE
