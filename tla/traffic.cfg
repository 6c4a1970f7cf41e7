SPECIFICATION RunSpec
CONSTANTS
  Parts = {"admission", "audit", "logins", "streams", "rates", "gateway", "ready", "rate",
           "channel", "retries"}
  None = None
  NoLease = NoLease
  a1 = a1
  a2 = a2
  \* RequestPipeline: three requests, four logins, three windows, one failure
  Requests = {"q1", "q2", "q3"}
  Traffic <- AllTraffic
  Limit <- Limits
  Logins = {"d1", "d2", "d3", "d4"}
  LoginLimit = 2
  GlobalLimit = 3
  Retained = 1
  Lag = 1
  MaxWindow = 2
  MaxFaults = 1
  \* GatewayStream: five lookups that are lost, late or refused
  LeaseTime = 5
  Interval = 2
  Timeout = 3
  MaxTime = 10
  MaxCalls = 5
  \* GatewayRest: four requests of three sources that share a rate slot
  RestRequests <- Callers
  Source <- SourceOf
  RateSlot <- OneSlot
  Readiness <- ReadinessCallers
  RestLimit = 3
  Window = 2
  MaxActive = 2
  MaxPerSource = 1
  CacheTTL = 1
  RestMaxTime = 4
  \* SdkChannel: two fibers reconnect while frames of two sizes fill the queue
  Fibers = {a1, a2}
  MaxFrames = 2
  MaxBytes = 3
  Sizes = {1, 2}
  MaxAttempts = 0
  MaxSockets = 3
  MaxSent = 2
  Interruptions = 0
SYMMETRY Interchangeable
INVARIANTS AdmissionSafe AuditComplete OpenHasLease SingleFlight NoSilentGap
PROPERTY StreamQuotaHeld
CHECK_DEADLOCK FALSE
