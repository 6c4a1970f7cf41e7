SPECIFICATION RunSpec
CONSTANTS
  Parts = {"payments", "shutdown", "drain", "calls", "waits", "channel", "revocation",
           "lock"}
  NoLease = NoLease
  \* StripeEvents: two deliveries at once, one failure, one commitment
  Events <- InvoiceEvents
  Deliveries = {"d1", "d2"}
  MaxFailures = 1
  MaxAdmitted = 1
  \* Shutdown: two requests and a job
  Requests = {"r1", "r2"}
  Jobs = {"j1"}
  \* GatewayDrain: two streams of a tenant that may have one
  Streams = {"s1", "s2"}
  Tenant <- StreamTenant
  MaxConnections = 1
  MaxEvictions = 1
  \* SdkCalls: a call with two retries, repeated once by its caller
  Calls = {"c1"}
  MaxRetries = 2
  MaxAgain = 1
INVARIANTS StandingFollowsSource ExitIsOrderly OneEffect
PROPERTIES EveryEventCounts EverythingEnds
CHECK_DEADLOCK FALSE
