SPECIFICATION Spec
CONSTANTS
  Parts = {"fork", "expiry", "replicas", "volume", "fleet"}
  None = None
PROPERTIES ForksEnd AllocationReturns RecordsSettle
CHECK_DEADLOCK FALSE
