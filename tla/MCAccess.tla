------------------------------- MODULE MCAccess -------------------------------
(***************************************************************************)
(* Who may do what: logins, the CLI and its lock, identities and API keys, *)
(* for TLC.  Their modules are extended, so that what is checked of them   *)
(* is what is proved; a device login and a CLI that rotates have bounds of *)
(* their own.  A behaviour is of one part, and the others rest: identities *)
(* and API keys have only the locks in common, never in one behaviour.     *)
(***************************************************************************)
EXTENDS CliSession, CredentialLock, Identity, ApiKeys, Integers, Sequences, SequencesExt, TLC

CONSTANTS
  Parts,   \* the parts this run lets happen
  DeathsAnywhere

VARIABLES
  part,   \* the part this behaviour is of
  \* CliSession
  oneStatus, oneCodeExpired, oneRequested, oneApproved, oneApprover, oneInterval,
  onePollDue, oneFamily, oneFamExpired, oneGeneration, oneUsed, oneRested, oneAccess,
  oneMinting, oneGrant, oneTxn, oneRole, onePc, oneHeld, oneStored, oneLock, oneLate, oneFaults

processes == <<onePc, oneHeld, oneStored, oneLock, oneLate, oneFaults>>
clilostState ==
  <<oneStatus, oneCodeExpired, oneRequested, oneApproved, oneApprover, oneInterval,
    onePollDue, oneFamily, oneFamExpired, oneGeneration, oneUsed, oneRested, oneAccess,
    oneMinting, oneGrant, oneTxn, oneRole, onePc, oneHeld, oneStored, oneLock, oneLate,
    oneFaults>>

\* Three requests, each of which asks any of the bodies; as requests are
\* interchangeable, every choice of three is drawn in one order only.
Drawn(bodies) ==
  {[c \in Calls |-> bodies[k[c]]] :
     k \in {k \in [Calls -> 1..Len(bodies)] : k[1] <= k[2] /\ k[2] <= k[3]}}

StartRoles == [m \in Orgs \X Persons |-> IF m[1] = "ops" THEN "admin" ELSE "member"]

Sync(u, id, version, type, target, o, r) ==
  [kind |-> "sync", user |-> u, org |-> "ops",
   event |-> [id |-> id, version |-> version, type |-> type,
              user |-> target, org |-> o, role |-> r]]
SetUser(u, target, disabled) ==
  [kind |-> "user", user |-> u, org |-> "ops", target |-> target, disabled |-> disabled]
SetOrg(u, target, disabled) ==
  [kind |-> "organization", user |-> u, org |-> "ops", target |-> target, disabled |-> disabled]
Session(u, o) == [kind |-> "session", user |-> u, org |-> o]

\* The stream of bob in ops in four versions, one id used twice, one version
\* used twice, a malformed event, and both operators turning on each other.
IdBodies ==
  <<Sync("ann", "e1", 1, "membership.upserted", "bob", "ops", "member"),
   Sync("ann", "e2", 2, "membership.removed", "bob", "ops", "none"),
   Sync("ann", "e3", 3, "membership.upserted", "bob", "ops", "admin"),
   Sync("bob", "e3", 3, "membership.upserted", "bob", "ops", "admin"),
   Sync("bob", "e4", 2, "membership.upserted", "bob", "ops", "member"),
   Sync("ann", "e1", 1, "user.disabled", "bob", "none", "none"),
   Sync("bob", "e5", 1, "user.disabled", "ann", "none", "none"),
   Sync("bob", "e6", 1, "user.disabled", "ann", "ops", "none"),
   SetUser("ann", "bob", TRUE), SetUser("ann", "bob", FALSE), SetUser("bob", "ann", TRUE),
   SetOrg("ann", "acme", TRUE), SetOrg("bob", "acme", FALSE), SetOrg("bob", "ops", TRUE),
   Sync("ann", "e1", 1, "membership.removed", "bob", "acme", "none"),
   Sync("bob", "e2", 2, "membership.upserted", "bob", "acme", "member"),
   Sync("bob", "e3", 1, "membership.removed", "ann", "ops", "none"),
   Session("bob", "acme"), Session("bob", "ops")>>
IdentityBodies == ToSet(IdBodies)

KeySession == [kind |-> "session", key |-> "k1"]
KeyAsks ==
  LET Asks(kind) == [kind |-> kind, user |-> "ann", key |-> "k1"]
  IN  <<[kind |-> "create", user |-> "ann"], Asks("disable"), Asks("enable"),
        Asks("rotate"), Asks("revoke"), KeySession>>
KeyRequests == ToSet(KeyAsks)
OneOfEach == [q \in {"hash", "verify"} |-> 1]

\* The same processes, of which DeathsAnywhere may die anywhere.
LockReaper == INSTANCE CredentialLock WITH
  MaxDeaths <- DeathsAnywhere, ReaperDies <- TRUE

\* Two CLI processes and one login that rotates twice, a lost answer or a dead process.
CliLost == INSTANCE CliSession WITH
  Codes <- {"c1"}, Users <- {"u1"}, MaxGeneration <- 2, MaxFamilies <- 1,
  MaxInterval <- 1, MaxFaults <- 1, status <- oneStatus,
  codeExpired <- oneCodeExpired, requested <- oneRequested, approved <- oneApproved,
  approver <- oneApprover, interval <- oneInterval, pollDue <- onePollDue,
  family <- oneFamily, famExpired <- oneFamExpired, generation <- oneGeneration,
  used <- oneUsed, rested <- oneRested, access <- oneAccess, minting <- oneMinting,
  grant <- oneGrant, txn <- oneTxn, role <- oneRole, pc <- onePc, held <- oneHeld, stored <- oneStored,
  lock <- oneLock, late <- oneLate, faults <- oneFaults
\* One login with everything a client, a user, an operator and time may do to it.
Device == INSTANCE DeviceAuth WITH
  Codes <- {"c1"}, Users <- {"u1"}, MaxGeneration <- 1, MaxFamilies <- 1,
  MaxInterval <- 2, status <- oneStatus, codeExpired <- oneCodeExpired,
  requested <- oneRequested, approved <- oneApproved, approver <- oneApprover,
  interval <- oneInterval, pollDue <- onePollDue, family <- oneFamily,
  famExpired <- oneFamExpired, generation <- oneGeneration, used <- oneUsed,
  rested <- oneRested, access <- oneAccess, minting <- oneMinting, grant <- oneGrant,
  txn <- oneTxn, role <- oneRole
\* It asks for a scope that members have and one that they do not.
DeviceStep ==
  Device!AuthNext /\ oneRequested' \in [{"c1"} -> {{}, {"machines:write", "billing:read"}}]

ASSUME CliAssumption
ASSUME LockAssumption
ASSUME IdentityAssumption
ASSUME ApiKeysAssumption

clilostStateUnused ==
  /\ oneStatus = 0 /\ oneCodeExpired = 0 /\ oneRequested = 0 /\ oneApproved = 0
  /\ oneApprover = 0 /\ oneInterval = 0 /\ onePollDue = 0 /\ oneFamily = 0
  /\ oneFamExpired = 0 /\ oneGeneration = 0 /\ oneUsed = 0 /\ oneRested = 0
  /\ oneAccess = 0 /\ oneMinting = 0 /\ oneGrant = 0 /\ oneTxn = 0 /\ oneRole = 0 /\ onePc = 0
  /\ oneHeld = 0 /\ oneStored = 0 /\ oneLock = 0 /\ oneLate = 0 /\ oneFaults = 0

-----------------------------------------------------------------------------
RunInit ==
  /\ part \in Parts
  /\ CliInit
  /\ \A u \in Users : IF part = "cli" THEN role[u] # "admin" ELSE role[u] = "admin"
  /\ LockInit
  /\ IF part = "cli_rotates" THEN CliLost!CliInit
     ELSE IF part = "device" THEN Device!AuthInit /\ CliLost!NoProcesses
     ELSE clilostStateUnused
  /\ IF part = "identity" THEN body \in Drawn(IdBodies) /\ IdentityInit
     ELSE body = [c \in Calls |-> Session("bob", "acme")] /\ IdentityInit
  /\ IF part = "keys" THEN asked \in Drawn(KeyAsks) /\ KeysInit
     ELSE asked = [c \in Calls |-> KeySession] /\ KeysInit

RunNext ==
  \/ /\ part = "cli" /\ CliNext
     /\ UNCHANGED <<part, lockVars, clilostState, identityVars, keyState>>
  \/ /\ part = "lock" /\ LockNext
     /\ UNCHANGED <<part, sessionVars, clilostState, identityVars, keyState>>
  \/ /\ part = "lock_reaper" /\ LockReaper!LockNext
     /\ UNCHANGED <<part, sessionVars, clilostState, identityVars, keyState>>
  \/ /\ part = "cli_rotates" /\ CliLost!CliNext
     /\ UNCHANGED <<part, sessionVars, lockVars, identityVars, keyState>>
  \/ /\ part = "device" /\ DeviceStep
     /\ UNCHANGED <<part, processes, sessionVars, lockVars, identityVars, keyState>>
  \/ /\ part = "identity" /\ IdentityNext
     /\ UNCHANGED <<part, sessionVars, lockVars, clilostState, keyState>>
  \/ /\ part = "keys" /\ KeysNext
     /\ UNCHANGED <<part, sessionVars, lockVars, clilostState, identityState>>

runVars ==
  <<part, sessionVars, lockVars, clilostState, identityVars, keyState>>

RunSpec == RunInit /\ [][RunNext]_runVars

-----------------------------------------------------------------------------
\* packages/cli/src/credential-lock.ts:28: the lock "Serializes refresh-token rotation
\* across CLI processes", dead owners and dead reapers included.
Serializes == \A p, q \in Inside : p = q

\* What a role permits is done only while the role is still held, although it was read
\* in an earlier statement: identities are changed by operators and keys by
\* administrators (lockLifecycleActor, lockApiKeyAdministrator), and the device login of
\* a removed approver mints no gateway grant and rotates no token.  Nor does a gateway
\* grant outlive its device login or the removal, whatever was in flight, and rotation,
\* as often as it happens, keeps one refresh token usable (auth/device.ts, the triggers
\* of migration 0022).
AuthorizedWhenItHappens ==
  /\ [][/\ part = "device" => Device!RemovedGainsNothing
        /\ part = "identity" => OperatorWhenItHappens
        /\ part = "keys" => AdministratorWhenItHappens]_runVars
  /\ [](part = "device" => Device!AuthSafe)
  /\ [](part = "cli_rotates" => CliLost!LoginsSafe)

\* The processes of the command line are interchangeable.
Interchangeable == Permutations(Procs)
=============================================================================
