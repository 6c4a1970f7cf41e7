------------------------------ MODULE Identity ------------------------------
(***************************************************************************)
(* Users, organizations and memberships as operators and the identity      *)
(* provider change them (domain/identity-lifecycle.ts and its routes), and *)
(* the gateway sessions users open on machines (http/routes/machines.ts).  *)
(* Every request is a transaction that takes PostgreSQL row and advisory   *)
(* locks one after another; requests interleave between any two of them.   *)
(***************************************************************************)
EXTENDS RowLocks

CONSTANTS
  Persons,
  Orgs,
  Operators,   \* fleet_operator_organizations
  Bodies,      \* what a request may ask, see Body
  InitialRoles \* the role every user starts with in every organization

None == "none"

\* An event of the provider: a user event has no organization; a membership
\* event gives the user a role there, or None when the membership is removed.
Membership(e) == e.org # None

Event ==
  [id : STRING, version : Nat, type : {"user.disabled", "membership.upserted", "membership.removed"},
   user : Persons, org : Orgs \cup {None}, role : {"admin", "member", None}]

Body ==
  [kind : {"sync"}, user : Persons, org : Orgs, event : Event]
  \cup [kind : {"user"}, user : Persons, org : Orgs, target : Persons, disabled : BOOLEAN]
  \cup [kind : {"organization"}, user : Persons, org : Orgs, target : Orgs, disabled : BOOLEAN]
  \cup [kind : {"session"}, user : Persons, org : Orgs]

IdentityAssumption ==
  /\ Operators \subseteq Orgs /\ None \notin Orgs \cup Persons /\ Persons \cap Orgs = {}
  /\ InitialRoles \in [Orgs \X Persons -> {"admin", "member", None}]
  /\ Bodies \subseteq Body

VARIABLES
  enabled,    \* disabled_at IS NULL, of each user and organization
  memberRole, \* organization_members
  receipts,   \* identity_provider_sync_receipts
  grants,     \* <<organization, user>> of the unrevoked sessions of users
  body        \* what each request asks

tables == <<enabled, memberRole, receipts, grants>>
identityState == <<tables, body>>
identityVars == <<identityState, txVars>>

IdentityInit ==
  /\ enabled = [x \in Persons \cup Orgs |-> TRUE]
  /\ memberRole = InitialRoles
  /\ receipts = {}
  /\ grants = {}
  /\ body \in [Calls -> Bodies]
  /\ LocksInit

-----------------------------------------------------------------------------
(* Authority. *)

Active(u, o) == enabled[u] /\ enabled[o]

\* An owner or administrator of a fleet operator organization.
IsOperator(u, o) == o \in Operators /\ Active(u, o) /\ memberRole[<<o, u>>] = "admin"

\* A user who may open sessions on the organization's machines.
IsMember(u, o) == Active(u, o) /\ memberRole[<<o, u>>] # None

Lifecycle(b) == b.kind # "session"

\* The parser of the sync body: exactly the fields its event type has.
parseIdentityProviderSync(b) ==
  b.kind = "sync" =>
    /\ b.event.type \in {"membership.upserted", "membership.removed"} <=> Membership(b.event)
    /\ b.event.type = "membership.upserted" <=> b.event.role # None

\* The service checks the same again before it opens its transaction.
validateSyncInput(b) ==
  b.kind = "sync" =>
    /\ b.event.version >= 1
    /\ Membership(b.event) = (b.event.type # "user.disabled")
    /\ (b.event.role # None) = (b.event.type = "membership.upserted")

-----------------------------------------------------------------------------
(* The handlers: authenticate, and call the service. *)

Called(c, allowed) ==
  /\ At(c, "new")
  /\ Goes(c, IF allowed THEN "authorize" ELSE "refused")
  /\ UNCHANGED <<tables, body>>

lifecycle(c) ==
  LET b == body[c] IN
  b.kind \in {"user", "organization"} /\ Called(c, IsOperator(b.user, b.org))

postSync(c) ==
  LET b == body[c] IN
  /\ b.kind = "sync"
  /\ Called(c, /\ IsOperator(b.user, b.org)
               /\ parseIdentityProviderSync(b) /\ validateSyncInput(b))

postSession(c) ==
  LET b == body[c] IN
  b.kind = "session" /\ Called(c, IsMember(b.user, b.org))

ActorRows(b) == {OrgRow(b.org), MemberRow(b.org, b.user), UserRow(b.user)}

\* The stream of an event: the user's, or the user's in one organization.
syncStreamHash(e) == <<e.user, e.org>>

\* What a sync locks after its actor: the event id, the stream, the target.
TargetLocks(e) ==
  <<Update(<<"event", e.id>>), Update(<<"stream", syncStreamHash(e)>>)>>
  \o (IF Membership(e) THEN <<Share(UserRow(e.user)), Share(OrgRow(e.org))>>
      ELSE <<Update(UserRow(e.user))>>)

\* Mutant: the authority rows are not held.
lockLifecycleActorUnheld(c) ==
  LET b == body[c] IN
  /\ Lifecycle(b)
  /\ UNCHANGED <<tables, body>>
  /\ ReadActor(c, IsOperator(b.user, b.org),
       CASE b.kind = "sync" -> TargetLocks(b.event)
         [] b.kind = "user" -> <<Update(UserRow(b.target))>>
         [] b.kind = "organization" -> <<Update(OrgRow(b.target))>>,
       IF b.kind = "sync" THEN "decide" ELSE "write")

lockLifecycleActor(c) ==
  LET b == body[c] IN
  /\ Lifecycle(b)
  /\ UNCHANGED <<tables, body>>
  /\ HoldActor(c, ActorRows(b), IsOperator(b.user, b.org),
       CASE b.kind = "sync" -> TargetLocks(b.event)
         [] b.kind = "user" -> <<Update(UserRow(b.target))>>
         [] b.kind = "organization" -> <<Update(OrgRow(b.target))>>,
       IF b.kind = "sync" THEN "decide" ELSE "write")

-----------------------------------------------------------------------------
(* syncIdentityProvider *)

\* The membership row an event changes, if there is one.
MembershipLock(e) ==
  IF Membership(e) /\ memberRole[<<e.org, e.user>>] # None
  THEN <<Update(MemberRow(e.org, e.user))>> ELSE <<>>

Receipt(e, result) == [event |-> e, result |-> result]

StreamVersions(e) ==
  {r.event.version : r \in {q \in receipts : syncStreamHash(q.event) = syncStreamHash(e)}}

\* Mutant: an older event is applied like a newer one.
DecideHopefully(c) ==
  LET e == body[c].event IN
  /\ At(c, "decide")
  /\ IF (\E r \in receipts : r.event.id = e.id) \/ e.version \in StreamVersions(e)
     THEN EndTx(c, "conflict") /\ UNCHANGED tables
     ELSE /\ Locking(c, MembershipLock(e), "write")
          /\ UNCHANGED <<tables, locks>>
  /\ UNCHANGED body

\* A known event is replayed or conflicts, a known version conflicts, an older
\* one leaves a stale receipt; a newer one locks the row it changes.
Decide(c) ==
  LET e == body[c].event IN
  /\ At(c, "decide")
  /\ IF \E r \in receipts : r.event = e
     THEN EndTx(c, "replayed") /\ UNCHANGED tables
     ELSE IF (\E r \in receipts : r.event.id = e.id) \/ e.version \in StreamVersions(e)
     THEN EndTx(c, "conflict") /\ UNCHANGED tables
     ELSE IF \E v \in StreamVersions(e) : e.version < v
     THEN /\ receipts' = receipts \cup {Receipt(e, "stale")}
          /\ EndTx(c, "stale")
          /\ UNCHANGED <<enabled, memberRole, grants>>
     ELSE /\ Locking(c, MembershipLock(e), "write")
          /\ UNCHANGED <<tables, locks>>
  /\ UNCHANGED body

\* Disabling a user or an organization and removing a member revoke, by
\* trigger, the sessions that hang on them.
identity_revoke_dependents(S) == grants' = grants \ S

syncIdentityProvider(c) ==
  LET e == body[c].event IN
  /\ At(c, "write") /\ body[c].kind = "sync"
  /\ receipts' = receipts \cup {Receipt(e, "applied")}
  /\ IF Membership(e)
     THEN /\ memberRole' = [memberRole EXCEPT ![<<e.org, e.user>>] = e.role]
          /\ identity_revoke_dependents(IF e.role = None THEN {<<e.org, e.user>>} ELSE {})
          /\ UNCHANGED enabled
     ELSE /\ enabled' = [enabled EXCEPT ![e.user] = FALSE]
          /\ identity_revoke_dependents(Orgs \X {e.user})
          /\ UNCHANGED memberRole
  /\ EndTx(c, "done")
  /\ UNCHANGED body

-----------------------------------------------------------------------------
(* disableUser .. enableOrganization *)

setUserDisabled(c) ==
  LET b == body[c] IN
  /\ At(c, "write") /\ b.kind = "user"
  /\ enabled' = [enabled EXCEPT ![b.target] = ~b.disabled]
  /\ identity_revoke_dependents(IF b.disabled THEN Orgs \X {b.target} ELSE {})
  /\ EndTx(c, "done")
  /\ UNCHANGED <<memberRole, receipts, body>>

setOrganizationDisabled(c) ==
  LET b == body[c] IN
  /\ At(c, "write") /\ b.kind = "organization"
  /\ enabled' = [enabled EXCEPT ![b.target] = ~b.disabled]
  /\ identity_revoke_dependents(IF b.disabled THEN {b.target} \X Persons ELSE {})
  /\ EndTx(c, "done")
  /\ UNCHANGED <<memberRole, receipts, body>>

-----------------------------------------------------------------------------
(* POST /v1/machines/:id/sessions of a dashboard user: one statement that   *)
(* holds the issuer's rows with SHARE and inserts the grant.                *)

activeClerkUser(c) ==
  /\ ~Lifecycle(body[c])
  /\ HoldActor(c, ActorRows(body[c]), IsMember(body[c].user, body[c].org), <<>>, "write")
  /\ UNCHANGED <<tables, body>>

insertGrant(c) ==
  LET b == body[c] IN
  /\ At(c, "write") /\ b.kind = "session"
  /\ grants' = grants \cup {<<b.org, b.user>>}
  /\ EndTx(c, "done")
  /\ UNCHANGED <<enabled, memberRole, receipts, body>>

\* DELETE /v1/machines/:id/sessions/:sessionId, and a session's expiry.
revokeGrant(g) ==
  /\ grants' = grants \ {g}
  /\ UNCHANGED <<enabled, memberRole, receipts, body, txVars>>

-----------------------------------------------------------------------------
WaitStep(c) == TakeLock(c) /\ UNCHANGED <<tables, body>>
IdentityAborts(c) == DeadlockVictim(c) /\ UNCHANGED <<tables, body>>

IdentityStep(c) ==
  \/ lifecycle(c) \/ postSync(c) \/ postSession(c) \/ lockLifecycleActor(c)
  \/ activeClerkUser(c) \/ WaitStep(c) \/ Decide(c) \/ syncIdentityProvider(c)
  \/ setUserDisabled(c) \/ setOrganizationDisabled(c) \/ insertGrant(c)

IdentityNext ==
  \/ \E c \in Calls : IdentityStep(c) \/ IdentityAborts(c)
  \/ \E g \in grants : revokeGrant(g)

IdentitySpec == IdentityInit /\ [][IdentityNext]_identityVars

-----------------------------------------------------------------------------
(* Properties *)

\* Delivered in any order, any number of times and by any number of operators
\* at once, the events of a stream leave what its newest applied one says: the
\* newest receipt of a stream was applied and a membership is what it made it.
LatestWins ==
  \A r \in receipts :
    (\A q \in receipts : syncStreamHash(q.event) = syncStreamHash(r.event) =>
                           q.event.version <= r.event.version)
    => /\ r.result = "applied"
       /\ Membership(r.event) => memberRole[<<r.event.org, r.event.user>>] = r.event.role

\* No two transactions come to insert a receipt under one event id, or under
\* one version of a stream ("A global event-ID lock closes cross-stream races
\* on the primary key"): the request would fail where it should conflict.
ReceiptKeysFree ==
  \A c \in Calls : txPc[c] = "write" /\ body[c].kind = "sync" =>
    LET e == body[c].event IN
    ~\E r \in receipts : \/ r.event.id = e.id
                         \/ syncStreamHash(r.event) = syncStreamHash(e)
                            /\ r.event.version = e.version

\* No session outlives what it was opened under: the issuer of a live grant is
\* an enabled user, a member of an enabled organization, however the session
\* races a disable or a removal, and an enable brings none back.
GrantsFollowIdentity == \A g \in grants : Active(g[2], g[1]) /\ memberRole[g] # None

\* Provider events in any order leave what the newest one says, receipts are written
\* under the locks that guard them, and no session outlives the standing of its user
\* (domain/identity-lifecycle.ts, http/routes/machines.ts).
IdentitySafe == LatestWins /\ ReceiptKeysFree /\ GrantsFollowIdentity

\* An operator changes an identity only while he is still an operator: two who
\* disable, demote or remove each other at once never both succeed.
OperatorWhenItHappens ==
  \A c \in Calls : txPc[c] = "write" /\ Lifecycle(body[c]) /\ txPc'[c] = "done"
    => IsOperator(body[c].user, body[c].org)
=============================================================================
