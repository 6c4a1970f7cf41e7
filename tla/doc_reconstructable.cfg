SPECIFICATION RunSpec
CONSTANTS
  Parts = {"outage"}
  None = None
  x1 = x1
  x2 = x2
  \* MachineTable: two machines of different size on two hosts of different size
  Machines = {"small", "large"}
  MaxBoots = 1
  Hosts = {"h1", "h2"}
  Workers = {"w"}
  NoHost = "noHost"
  NoWorker = "noWorker"
  Demand <- UnevenDemand
  Capacity <- UnevenRoom
  Quota = 2
  \* Fork: two children by a request and the reconciler, with two faults
  Children = {"c1", "c2"}
  Requesters = {"r1"}
  Reconciler = "rec"
  Nobody = "nobody"
  Others = 2
  MaxFaults = 2
  Deletable = {}
  Faults = {"crashes", "restarts", "hostDown", "invalid", "warming", "slow"}
  \* Extend: two keys extend one machine by two requests that are lost and late
  Vms = {"vm1"}
  Keys = {x1, x2}
  Handlers = {"w1", "w2"}
  Stuck = {}
  Ttl = 2
  Extensions = {2}
  Cap = 99
  BatchLimit = 1
  Reporting = {}
  Lossy = TRUE
  MaxRequest = 2
  MaxTime = 4
  \* HostFleet: a provider's host with two grants and two requests in flight
  Grants = {"g1", "g2"}
  HostIds = {"h1", "h2"}
  Callers = {x1, x2}
  Nothing = "nothing"
  MaxGen = 2
  MaxEpoch = 1
  \* Templates: one removed while two replication runs and two machines use it
  Templates = {"t1"}
  Versions = {"v"}
  ArchHosts = {"h1"}
  Replicators = {"w1", "w2"}
  Removers = {"r1"}
  Instances = {x1, x2}
  Principals <- TemplateCallers
  Outages = FALSE
  PromptMarks = FALSE
  MaxFailures = 1
  \* Volumes: one that expires or is deleted, and two deletion workers
  Requests = {"q1"}
  Reservations = {"r1"}
  DeleteWorkers = {x1, x2}
  Limit = 1
  VolumeTtl = 2
  GrantTtl = 1
  Settlement = 1
  Retention = 3
  ClaimTtl = 1
  VolHorizon = 5
  CommitLag = 1
  Lag = 1
  Replays = FALSE
  Removes = TRUE
  MaxVolFaults = 1
  Unset = Unset
INVARIANT LiveIsReconstructable
CHECK_DEADLOCK FALSE
