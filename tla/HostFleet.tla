----------------------------- MODULE HostFleet ------------------------------
(***************************************************************************)
(* One provider's host: enrollment grants, registration, credential        *)
(* generations, heartbeats, the stale marker and the operator's lifecycle  *)
(* operations (domain/hosts.ts and its routes in                           *)
(* http/routes/internal-hosts.ts).  Requests interleave where the code     *)
(* awaits: registration checks the grant, hashes a credential and only     *)
(* then claims it; a heartbeat authenticates, reads its body and then      *)
(* writes under the generation it authenticated with; issuing a grant      *)
(* takes its snapshot before it waits for the provider's advisory lock.    *)
(***************************************************************************)
EXTENDS Naturals, FiniteSets

CONSTANTS
  Grants,  \* enrollment grant ids
  HostIds, \* host ids that grants reserve
  Callers, \* requests in flight
  Nothing, \* no host id, no grant
  MaxGen,  \* bound on credential_generation
  MaxEpoch \* bound on quarantines and revocations

VARIABLES
  hostRow, \* the provider's row of hosts
  grant,   \* host_enrollment_grants: status and the host id it names
  call,    \* a request: its next statement and what it read before
  epoch,   \* history: quarantines and revocations so far
  bought,  \* history: credentials handed out for each grant
  crossed  \* history: a heartbeat was applied across a quarantine

fleetVars == <<hostRow, grant, call, epoch, bought, crossed>>

FleetAssumption == Nothing \notin HostIds

NoRow == [id |-> Nothing, desired |-> "active", state |-> "stale", cred |-> "revoked",
           gen |-> 0, enrolled |-> FALSE, heard |-> "never", reported |-> FALSE]
NoCall == [pc |-> "idle", grant |-> Nothing, gen |-> 0, epoch |-> 0, saw |-> FALSE, live |-> {}]

FleetInit ==
  /\ hostRow = NoRow
  /\ grant = [g \in Grants |-> [status |-> "none", id |-> Nothing]]
  /\ call = [c \in Callers |-> NoCall]
  /\ epoch = 0 /\ bought = [g \in Grants |-> 0] /\ crossed = FALSE

Exists == hostRow.id # Nothing
\* The row that authenticates, and that lends out its credentials.
Serving == Exists /\ hostRow.state # "stale" /\ hostRow.desired \in {"active", "draining"}
             /\ hostRow.cred = "active"
Open(g) == grant[g].status \in {"live", "expired"}    \* neither consumed nor revoked
Done(c) == call' = [call EXCEPT ![c] = NoCall]

-----------------------------------------------------------------------------
(* Enrollment. *)

\* POST /v1/operator/host-enrollments: the statement takes its snapshot.
IssueBegin(c) ==
  /\ call[c].pc = "idle"
  /\ call' = [call EXCEPT ![c] = [NoCall EXCEPT !.pc = "issue", !.saw = Exists,
                                              !.live = {g \in Grants : Open(g)}]]
  /\ UNCHANGED <<hostRow, grant, epoch, bought, crossed>>

\* host_enrollment_grants_active_provider_idx: one open grant for a provider.
UniqueOpen(revoked) == {g \in Grants : Open(g)} \ revoked = {}

\* issueEnrollment with the lock: a host that was in the snapshot is read in its
\* latest version, one inserted since is not seen; of the grants in the snapshot
\* those still open are revoked; a grant inserted since fails the unique index.
issueEnrollment(c, g, fresh) ==
  LET revoked == {o \in call[c].live : Open(o)}
      seen == call[c].saw
      eligible == seen => ~hostRow.enrolled /\ hostRow.desired = "active" /\ hostRow.cred = "active"
  IN
  /\ call[c].pc = "issue" /\ grant[g].status = "none"
  /\ grant' = IF eligible /\ UniqueOpen(revoked)
       THEN [o \in Grants |->
               IF o = g THEN [status |-> "live", id |-> IF seen THEN hostRow.id ELSE fresh]
               ELSE IF o \in revoked THEN [grant[o] EXCEPT !.status = "revoked"]
               ELSE grant[o]]
       ELSE grant
  /\ Done(c)
  /\ UNCHANGED <<hostRow, epoch, bought, crossed>>

\* POST /v1/operator/host-enrollments/:id/revoke
revokeEnrollment(g) ==
  /\ Open(g)
  /\ grant' = [grant EXCEPT ![g].status = "revoked"]
  /\ UNCHANGED <<hostRow, call, epoch, bought, crossed>>

GrantExpires(g) ==
  /\ grant[g].status = "live"
  /\ grant' = [grant EXCEPT ![g].status = "expired"]
  /\ UNCHANGED <<hostRow, call, epoch, bought, crossed>>

\* register, first statement: the grant is good and names this very identity,
\* totals and cohort.
RegisterEligible(g) == grant[g].status = "live"

\* POST /internal/v1/hosts/register up to the slow hash of the new credential.
RegisterBegin(c, g) ==
  /\ call[c].pc = "idle" /\ RegisterEligible(g)
  /\ call' = [call EXCEPT ![c] = [NoCall EXCEPT !.pc = "register", !.grant = g]]
  /\ UNCHANGED <<hostRow, grant, epoch, bought, crossed>>

Enrolled(id) == [NoRow EXCEPT !.id = id, !.state = "unhealthy", !.cred = "active", !.gen = 1]
Reenrolled == [hostRow EXCEPT !.state = "unhealthy", !.cred = "active", !.gen = @ + 1]
MayReenroll(g) ==
  hostRow.id = grant[g].id /\ ~hostRow.enrolled /\ hostRow.desired = "active" /\ hostRow.cred = "active"

\* register, last statement: the grant is claimed if it is still good; a row that
\* may not be enrolled again refuses the credential, but the grant is spent.
register(c) ==
  LET g == call[c].grant
      claims == grant[g].status = "live"
      wins == claims /\ (~Exists \/ MayReenroll(g))
  IN
  /\ call[c].pc = "register"
  /\ hostRow.gen < MaxGen
  /\ grant' = IF claims THEN [grant EXCEPT ![g].status = "consumed"] ELSE grant
  /\ hostRow' = IF ~wins THEN hostRow ELSE IF Exists THEN Reenrolled ELSE Enrolled(grant[g].id)
  /\ bought' = IF wins THEN [bought EXCEPT ![g] = @ + 1] ELSE bought
  /\ Done(c)
  /\ UNCHANGED <<epoch, crossed>>

-----------------------------------------------------------------------------
(* Heartbeats and the stale marker. *)

\* The current credential of a serving host authenticates and yields its generation.
authenticateHost(c) ==
  /\ call[c].pc = "idle" /\ Serving
  /\ call' = [call EXCEPT ![c] = [NoCall EXCEPT !.pc = "heartbeat", !.gen = hostRow.gen,
                                              !.epoch = epoch]]
  /\ UNCHANGED <<hostRow, grant, epoch, bought, crossed>>

Reported(state) ==
  IF state = "unhealthy" THEN "unhealthy" ELSE IF hostRow.desired = "draining" THEN "draining" ELSE state

Accepted(c, state) ==
  /\ hostRow' = [hostRow EXCEPT !.state = Reported(state), !.heard = "recent", !.enrolled = TRUE,
                          !.reported = TRUE]
  /\ crossed' = (crossed \/ call[c].epoch # epoch)

\* Mutant: the write does not ask for the generation that authenticated.
heartbeatAnyGeneration(c, state) ==
  /\ call[c].pc = "heartbeat"
  /\ IF Serving /\ hostRow.heard # "recent" THEN Accepted(c, state) ELSE UNCHANGED <<hostRow, crossed>>
  /\ Done(c)
  /\ UNCHANGED <<grant, epoch, bought>>

\* heartbeat with a body that names the enrolled cohort and no more resources
\* than the host has; a report without KVM is "unhealthy".
heartbeat(c, state) ==
  /\ call[c].pc = "heartbeat"
  /\ IF Serving /\ hostRow.gen = call[c].gen /\ hostRow.heard # "recent"
     THEN Accepted(c, state) ELSE UNCHANGED <<hostRow, crossed>>
  /\ Done(c)
  /\ UNCHANGED <<grant, epoch, bought>>

\* The body is invalid or the request dies: nothing is written.
RequestFails(c) ==
  /\ call[c].pc # "idle" /\ Done(c)
  /\ UNCHANGED <<hostRow, grant, epoch, bought, crossed>>

HeartbeatAges ==
  /\ hostRow.heard \in {"recent", "due"}
  /\ hostRow' = [hostRow EXCEPT !.heard = IF @ = "recent" THEN "due" ELSE "old"]
  /\ UNCHANGED <<grant, call, epoch, bought, crossed>>

\* Mutant: only hosts that were heard once are looked at.
markStaleHeard ==
  /\ Serving /\ hostRow.heard = "old"
  /\ hostRow' = [hostRow EXCEPT !.state = "stale"]
  /\ UNCHANGED <<grant, call, epoch, bought, crossed>>

\* markStale, from the fleet timer.
markStale ==
  /\ Serving /\ hostRow.heard \in {"never", "old"}
  /\ hostRow' = [hostRow EXCEPT !.state = "stale"]
  /\ UNCHANGED <<grant, call, epoch, bought, crossed>>

-----------------------------------------------------------------------------
(* Operator routes. *)

\* The operator's routes commit one statement.
Becomes(row) == hostRow' = row /\ UNCHANGED <<grant, bought, crossed>>

drain ==
  /\ Exists /\ hostRow.desired \notin {"quarantined", "revoked"} /\ hostRow.cred = "active"
  /\ Becomes([hostRow EXCEPT !.desired = "draining",
                          !.state = IF @ = "ready" THEN "draining" ELSE "unhealthy"])
  /\ UNCHANGED <<call, epoch>>

activate ==
  /\ Exists /\ hostRow.desired # "revoked" /\ hostRow.cred = "active"
  /\ Becomes([hostRow EXCEPT !.desired = "active", !.state = "unhealthy", !.reported = FALSE])
  /\ UNCHANGED <<call, epoch>>

Retired(desired) ==
  [hostRow EXCEPT !.desired = desired, !.state = "stale", !.cred = "revoked", !.reported = FALSE]

quarantine ==
  /\ Exists /\ hostRow.desired # "revoked" /\ epoch < MaxEpoch
  /\ Becomes(Retired("quarantined")) /\ epoch' = epoch + 1 /\ UNCHANGED call

revoke ==
  /\ Exists /\ epoch < MaxEpoch
  /\ Becomes(Retired("revoked")) /\ epoch' = epoch + 1 /\ UNCHANGED call

\* POST /v1/operator/hosts/:id/credentials/rotate up to the hash.
RotateBegin(c) ==
  /\ call[c].pc = "idle"
  /\ call' = [call EXCEPT ![c] = [NoCall EXCEPT !.pc = "rotate"]]
  /\ UNCHANGED <<hostRow, grant, epoch, bought, crossed>>

\* rotateCredentials: a host in quarantine stays there, any other is drained.
rotateCredentials(c) ==
  /\ call[c].pc = "rotate" /\ Done(c)
  /\ Exists /\ hostRow.desired # "revoked" /\ hostRow.gen < MaxGen
  /\ Becomes([hostRow EXCEPT
       !.desired = IF @ = "quarantined" THEN @ ELSE "draining",
       !.state = IF hostRow.desired = "quarantined" THEN "stale" ELSE "unhealthy",
       !.gen = @ + 1, !.cred = "active", !.reported = FALSE])
  /\ UNCHANGED epoch

-----------------------------------------------------------------------------

FleetNext ==
  \/ \E c \in Callers :
       \/ IssueBegin(c)
       \/ \E g \in Grants, id \in HostIds : issueEnrollment(c, g, id)
       \/ \E g \in Grants : RegisterBegin(c, g)
       \/ register(c)
       \/ authenticateHost(c)
       \/ \E state \in {"ready", "draining", "unhealthy"} : heartbeat(c, state)
       \/ RotateBegin(c) \/ rotateCredentials(c)
       \/ RequestFails(c)
  \/ \E g \in Grants : revokeEnrollment(g) \/ GrantExpires(g)
  \/ HeartbeatAges \/ markStale
  \/ drain \/ activate \/ quarantine \/ revoke

FleetSpec == FleetInit /\ [][FleetNext]_fleetVars

-----------------------------------------------------------------------------
(* Properties. *)

\* A host the scheduler may use (state 'ready') is wanted, has a credential and
\* has reported its capacity since it was last activated or rotated, whatever
\* heartbeats were in flight across drain, rotation, quarantine and the stale
\* marker (docs/nehemiah/security-checklist.md:169).
ReadyIsPlaceable ==
  hostRow.state = "ready" =>
    hostRow.desired = "active" /\ hostRow.cred = "active" /\ hostRow.reported /\ hostRow.heard # "never"

\* No heartbeat that authenticated before a quarantine changes the host after
\* the quarantine was lifted by rotation and activation (heartbeat's
\* credential_generation).
NothingCrossesQuarantine == ~crossed

\* A one-use enrollment grant buys one credential, also when several
\* registrations passed the first check together (register).
OneCredentialPerGrant == \A g \in Grants : bought[g] <= 1

\* A provider never has two open enrollment grants, although the statement that
\* issues one reads before it holds the lock (issueEnrollment).
OneOpenGrant == Cardinality({g \in Grants : Open(g)}) <= 1

\* What the scheduler, a quarantine and an enrollment grant may rely on
\* (domain/hosts.ts, routes/internal-hosts.ts).
FleetSafe ==
  ReadyIsPlaceable /\ NothingCrossesQuarantine /\ OneCredentialPerGrant /\ OneOpenGrant

\* Neither a heartbeat nor a registration in flight makes a stale host
\* schedulable: it is unhealthy first, by an operator or a new enrollment
\* (heartbeat, markStale).
StaleIsNotRevived ==
  hostRow.state = "stale" => hostRow'.state \in {"stale", "unhealthy"}

\* A revoked host is gone for good, and a quarantined one leaves the state 'stale'
\* only after its credential was rotated, registrations that passed their first
\* check before included (register, activate, rotateCredentials).
NoReturnUnrotated ==
  /\ hostRow.desired = "revoked" => hostRow'.desired = "revoked" /\ hostRow'.cred = "revoked"
  /\ hostRow.desired = "quarantined" /\ hostRow.cred = "revoked" => hostRow'.state = "stale"
=============================================================================
