SPECIFICATION RunSpec
CONSTANTS
  Parts = {"lock_reaper"}
  DeathsAnywhere = 2
  \* CliSession: two CLI processes, two logins, a lost answer or a dead process
  Codes = {"c1", "c2"}
  NoUser = NoUser
  Users = {"u1"}
  MaxGeneration = 1
  MaxFamilies = 2
  MaxInterval = 1
  Procs = {"p1", "p2"}
  NoProc = NoProc
  NoSession = NoSession
  MaxFaults = 1
  \* CredentialLock: four processes, three of which may die outside the reaper
  Processes = {"p1", "p2", "p3", "p4"}
  NoOwner = NoOwner
  MaxDeaths = 3
  ReaperDies = FALSE
  Sleeps = FALSE
  \* Identity and ApiKeys: three requests
  Calls = {1, 2, 3}
  \* Identity: two operators and a tenant organization both belong to
  Persons = {"ann", "bob"}
  Orgs = {"ops", "acme"}
  Operators = {"ops"}
  InitialRoles <- StartRoles
  Bodies <- IdentityBodies
  \* ApiKeys: one existing key, room for another one, one slot of each kind
  Keys = {"k1", "k2", "k3"}
  Staff = {"ann"}
  KeyBodies <- KeyRequests
  Issued = {"k1"}
  MaxActive = 2
  MaxRetained = 3
  Concurrent <- OneOfEach
  Queued <- OneOfEach
  AllocationAttempts = 2
  MaxTurns = 1
INVARIANT Serializes
CHECK_DEADLOCK FALSE
