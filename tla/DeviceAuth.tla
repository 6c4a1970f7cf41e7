----------------------------- MODULE DeviceAuth -----------------------------
(***************************************************************************)
(* The control plane's side of device login: DeviceAuthorizationService    *)
(* (apps/nehemiah/src/auth/device.ts), the gateway grants an access token  *)
(* can mint (http/routes/machines.ts) and the retention job                *)
(* (jobs/reap-expired-device-authorizations.ts).                           *)
(*                                                                         *)
(* A code has at most one refresh family, so families are named by codes.  *)
(* Generation  g  names both the refresh token and the access token issued *)
(* together.  An action is one transaction under the row lock of the code  *)
(* or of the family; the unlocked read before it only refuses what the     *)
(* transaction refuses again.  The transactions that give something read   *)
(* the approver's role without a lock and insert in later statements:      *)
(* exchange and refresh happen at once or begin here and commit later, and *)
(* memberships change in between.  Those that only take something away are *)
(* one step: a role that returned meanwhile gives nothing back.            *)
(* Lifetimes are flags that time sets: the evidence windows of the         *)
(* retention job (one hour, one day) are time that passes before it runs,  *)
(* and longer than a gateway grant lives (fifteen minutes).                *)
(***************************************************************************)
EXTENDS Naturals, FiniteSets

CONSTANTS
  Codes,         \* device authorizations
  NoUser,        \* approved_by IS NULL
  Users,         \* dashboard users who may decide a code
  MaxGeneration, \* MAXIMUM_REFRESH_GENERATION
  MaxFamilies,   \* device_retention_capacity.family_rows
  MaxInterval    \* poll_interval_seconds, in steps of five seconds

AuthAssumption == MaxGeneration \in Nat /\ MaxInterval \in Nat \ {0}

VARIABLES
  status,      \* device_authorizations.status; "absent" before, "gone" after
  codeExpired, \* device_authorizations.expires_at <= now
  requested,   \* requested_scopes
  approved,    \* approved_scopes
  approver,    \* approved_by
  interval,    \* poll_interval_seconds
  pollDue,     \* next_poll_at <= now
  family,      \* device_refresh_families
  famExpired,  \* its expires_at <= now
  generation,  \* the newest refresh token
  used,        \* refresh tokens with used_at
  rested,      \* the newest token is MINIMUM_REFRESH_INTERVAL old
  access,      \* device_access_tokens by generation
  minting,     \* an authenticated request is about to insert a gateway grant
  grant,       \* machine_gateway_grants issued by the family
  txn,         \* the transaction that has read the role and has not committed
  role         \* organization_members.role; "none": removed or disabled

codeVars == <<status, codeExpired, requested, approved, approver, interval, pollDue>>
tokenVars == <<family, famExpired, generation, used, rested, access>>
authVars == <<codeVars, tokenVars, minting, grant, txn, role>>

Generations == 0..MaxGeneration
Scopes == {"machines:write", "templates:write", "billing:read"}
Roles == {"admin", "member", "billing", "none"}

\* owner and admin share a row: both are permitted every scope.
rolePermits(r, s) ==
  \/ r = "admin"
  \/ r = "billing" /\ s = "billing:read"
  \/ r = "member" /\ s = "machines:write"

identityPermits(c) ==
  role[approver[c]] # "none" /\ \A s \in approved[c] : rolePermits(role[approver[c]], s)

AuthInit ==
  /\ status = [c \in Codes |-> "absent"] /\ codeExpired = [c \in Codes |-> FALSE]
  /\ requested = [c \in Codes |-> {}] /\ approved = [c \in Codes |-> {}]
  /\ approver = [c \in Codes |-> NoUser]
  /\ interval = [c \in Codes |-> 1] /\ pollDue = [c \in Codes |-> FALSE]
  /\ family = [c \in Codes |-> "none"] /\ famExpired = [c \in Codes |-> FALSE]
  /\ generation = [c \in Codes |-> 0] /\ used = [c \in Codes |-> {}]
  /\ rested = [c \in Codes |-> FALSE]
  /\ access = [c \in Codes |-> [g \in Generations |-> "none"]]
  /\ minting = [c \in Codes |-> FALSE] /\ grant = [c \in Codes |-> "none"]
  /\ txn = [c \in Codes |-> "none"]
  /\ role \in [Users -> Roles \ {"none"}]

-----------------------------------------------------------------------------
(* The code: issued to the CLI, decided in the dashboard, polled. *)

issue(c, S) ==
  /\ status[c] = "absent" /\ S # {}
  /\ status' = [status EXCEPT ![c] = "pending"]
  /\ requested' = [requested EXCEPT ![c] = S]
  /\ UNCHANGED <<codeExpired, approved, approver, interval, pollDue, tokenVars, minting, grant, txn, role>>

CanDecide(c, u) == status[c] = "pending" /\ ~codeExpired[c] /\ role[u] # "none"

deny(c, u) ==
  /\ CanDecide(c, u)
  /\ status' = [status EXCEPT ![c] = "denied"]
  /\ approver' = [approver EXCEPT ![c] = u]
  /\ UNCHANGED <<codeExpired, requested, approved, interval, pollDue, tokenVars, minting, grant, txn, role>>

approve(c, u, S) ==
  /\ CanDecide(c, u)
  /\ S # {} /\ S \subseteq requested[c] /\ \A s \in S : rolePermits(role[u], s)
  /\ status' = [status EXCEPT ![c] = "approved"]
  /\ approver' = [approver EXCEPT ![c] = u]
  /\ approved' = [approved EXCEPT ![c] = S]
  /\ UNCHANGED <<codeExpired, requested, interval, pollDue, tokenVars, minting, grant, txn, role>>

\* exchange of an undecided code: a poll before next_poll_at is told slow_down
\* and lengthens the interval up to a minute.
poll(c) ==
  /\ status[c] = "pending" /\ ~codeExpired[c]
  /\ interval' = [interval EXCEPT ![c] =
       IF pollDue[c] \/ @ = MaxInterval THEN @ ELSE @ + 1]
  /\ pollDue' = [pollDue EXCEPT ![c] = FALSE]
  /\ UNCHANGED <<status, codeExpired, requested, approved, approver, tokenVars, minting, grant, txn, role>>

Families == {c \in Codes : family[c] \notin {"none", "gone"}}

\* exchange of an approved code, when the approver still holds every scope.
CanExchange(c) ==
  status[c] = "approved" /\ ~codeExpired[c] /\ txn[c] = "none" /\ identityPermits(c)

\* The role was read; the code's row stays locked.
exchangeBegin(c) ==
  /\ CanExchange(c)
  /\ txn' = [txn EXCEPT ![c] = "exchange"]
  /\ UNCHANGED <<codeVars, tokenVars, minting, grant, role>>

\* The family, its first refresh token and its first access token, and the code is
\* consumed: all at once, or the rest of a transaction that has read the role.
exchange(c) ==
  /\ CanExchange(c) \/ txn[c] = "exchange"
  /\ Cardinality(Families) < MaxFamilies
  /\ family' = [family EXCEPT ![c] = "live"]
  /\ access' = [access EXCEPT ![c][0] = "live"]
  /\ status' = [status EXCEPT ![c] = "consumed"]
  /\ txn' = [txn EXCEPT ![c] = "none"]
  /\ UNCHANGED <<codeExpired, requested, approved, approver, interval, pollDue, famExpired,
                 generation, used, rested, minting, grant, role>>

\* A transaction that fails, as at the retention limit, leaves nothing.
rollback(c) ==
  /\ txn[c] # "none"
  /\ txn' = [txn EXCEPT ![c] = "none"]
  /\ UNCHANGED <<codeVars, tokenVars, minting, grant, role>>

\* exchange, when the approver has lost the role since: the code is denied.
exchangeInvalidated(c) ==
  /\ status[c] = "approved" /\ ~codeExpired[c] /\ txn[c] = "none" /\ ~identityPermits(c)
  /\ status' = [status EXCEPT ![c] = "denied"]
  /\ approved' = [approved EXCEPT ![c] = {}]
  /\ UNCHANGED <<codeExpired, requested, approver, interval, pollDue, tokenVars, minting, grant, txn, role>>

-----------------------------------------------------------------------------
(* The family: rotation, reuse detection, revocation. *)

\* Revocation of the family, of all its access tokens and of its grants, as
\* refresh (on reuse, at the last generation), revoke and
\* revokeFamilyForIdentity do it.
EndFamily(c, how) ==
  /\ family' = [family EXCEPT ![c] = how]
  /\ access' = [access EXCEPT ![c] =
       [g \in Generations |-> IF @[g] \in {"none", "gone"} THEN @[g] ELSE "revoked"]]
  /\ grant' = [grant EXCEPT ![c] = IF @ = "live" THEN "revoked" ELSE @]
  /\ UNCHANGED <<codeVars, famExpired, generation, used, rested, minting, txn, role>>

\* The row lock of refresh, revoke and authenticateAccess finds the family.
Usable(c) == family[c] = "live" /\ ~famExpired[c]

\* No rotation holds the row lock: who needs it waits.
Free(c) == txn[c] # "refresh"

KnownToken(c, g) == family[c] \notin {"none", "gone"} /\ g <= generation[c]

refreshReuse(c, g) ==
  /\ Free(c) /\ Usable(c) /\ KnownToken(c, g) /\ g \in used[c]
  /\ EndFamily(c, "reused")

refreshInvalidated(c, g) ==
  /\ Free(c) /\ Usable(c) /\ KnownToken(c, g) /\ g \notin used[c] /\ ~identityPermits(c)
  /\ EndFamily(c, "revoked")

CanRotate(c, g) ==
  /\ Free(c) /\ Usable(c) /\ KnownToken(c, g) /\ g \notin used[c]
  /\ identityPermits(c) /\ rested[c]

refreshExhausted(c, g) ==
  /\ CanRotate(c, g) /\ g = MaxGeneration
  /\ EndFamily(c, "revoked")

\* The role was read with the token; the family's row stays locked, so the token
\* stays the newest.
refreshBegin(c, g) ==
  /\ CanRotate(c, g) /\ g < MaxGeneration
  /\ txn' = [txn EXCEPT ![c] = "refresh"]
  /\ UNCHANGED <<codeVars, tokenVars, minting, grant, role>>

\* refresh inserts the next generation and marks this one, at once or as the rest of
\* a transaction that has read the role.
refresh(c, g) ==
  /\ \/ CanRotate(c, g) /\ g < MaxGeneration
     \/ txn[c] = "refresh" /\ g = generation[c]
  /\ generation' = [generation EXCEPT ![c] = g + 1]
  /\ used' = [used EXCEPT ![c] = @ \cup {g}]
  /\ rested' = [rested EXCEPT ![c] = FALSE]
  /\ access' = [access EXCEPT ![c][g + 1] = "live"]
  /\ txn' = [txn EXCEPT ![c] = "none"]
  /\ UNCHANGED <<codeVars, family, famExpired, minting, grant, role>>

\* revoke takes any generation of the family, also a used one.
revoke(c, g) == Free(c) /\ Usable(c) /\ KnownToken(c, g) /\ EndFamily(c, "revoked")

-----------------------------------------------------------------------------
(* The access token: authenticates requests, one of which mints a grant. *)

authenticateAccess(c, g) ==
  /\ Free(c) /\ Usable(c) /\ access[c][g] = "live" /\ identityPermits(c)
  /\ minting' = [minting EXCEPT ![c] = TRUE]
  /\ UNCHANGED <<codeVars, tokenVars, grant, txn, role>>

accessInvalidated(c, g) ==
  /\ Free(c) /\ Usable(c) /\ access[c][g] = "live" /\ ~identityPermits(c)
  /\ EndFamily(c, "revoked")

\* POST /v1/machines/:id/sessions: the INSERT looks the issuer up again, FOR
\* SHARE, and inserts nothing when the family or the membership has ended.
MintGrant(c) ==
  /\ minting[c] /\ Free(c)
  /\ minting' = [minting EXCEPT ![c] = FALSE]
  /\ grant' = [grant EXCEPT ![c] =
       IF Usable(c) /\ role[approver[c]] \in {"admin", "member"} THEN "live" ELSE @]
  /\ UNCHANGED <<codeVars, tokenVars, txn, role>>

-----------------------------------------------------------------------------
(* Time, the memberships and the retention job. *)

CodeExpires(c) ==
  /\ status[c] \notin {"absent", "gone"} /\ ~codeExpired[c]
  /\ codeExpired' = [codeExpired EXCEPT ![c] = TRUE]
  /\ UNCHANGED <<status, requested, approved, approver, interval, pollDue, tokenVars, minting, grant, txn, role>>

PollDue(c) ==
  /\ status[c] = "pending" /\ ~pollDue[c]
  /\ pollDue' = [pollDue EXCEPT ![c] = TRUE]
  /\ UNCHANGED <<status, codeExpired, requested, approved, approver, interval, tokenVars, minting, grant, txn, role>>

FamilyExpires(c) ==
  /\ family[c] \notin {"none", "gone"} /\ ~famExpired[c]
  /\ famExpired' = [famExpired EXCEPT ![c] = TRUE]
  /\ UNCHANGED <<codeVars, family, generation, used, rested, access, minting, grant, txn, role>>

TokenRests(c) ==
  /\ family[c] = "live" /\ ~rested[c]
  /\ rested' = [rested EXCEPT ![c] = TRUE]
  /\ UNCHANGED <<codeVars, family, famExpired, generation, used, access, minting, grant, txn, role>>

\* Fifteen minutes pass after the ten of TokenRests.
AccessExpires(c, g) ==
  /\ access[c][g] = "live" /\ (g < generation[c] \/ rested[c])
  /\ access' = [access EXCEPT ![c][g] = "expired"]
  /\ UNCHANGED <<codeVars, family, famExpired, generation, used, rested, minting, grant, txn, role>>

GrantExpires(c) ==
  /\ grant[c] = "live"
  /\ grant' = [grant EXCEPT ![c] = "expired"]
  /\ UNCHANGED <<codeVars, tokenVars, minting, txn, role>>

\* syncIdentityProvider upserts a membership, a removed one too, and a disabled user
\* may be enabled again.  Nothing else changes.
changeRole(u, r) ==
  /\ r # "none" /\ role[u] # r
  /\ role' = [role EXCEPT ![u] = r]
  /\ UNCHANGED <<codeVars, tokenVars, minting, grant, txn>>

\* A membership is removed, or its user or its organization disabled: in the same
\* transaction triggers revoke every family of the approver that they see, its access
\* tokens and its grants.  They wait for a rotation, whose family they see; they do
\* not see the family of an exchange that has not committed.
remove(u) ==
  LET Seen == {c \in Codes : approver[c] = u /\ family[c] \notin {"none", "gone"}} IN
  /\ role[u] # "none" /\ \A c \in Seen : Free(c)
  /\ role' = [role EXCEPT ![u] = "none"]
  /\ family' = [c \in Codes |->
       IF c \in Seen /\ family[c] = "live" THEN "revoked" ELSE family[c]]
  /\ access' = [c \in Codes |-> [g \in Generations |->
       IF c \in Seen /\ access[c][g] \notin {"none", "gone"} THEN "revoked" ELSE access[c][g]]]
  /\ grant' = [c \in Codes |->
       IF c \in Seen /\ grant[c] = "live" THEN "revoked" ELSE grant[c]]
  /\ UNCHANGED <<codeVars, famExpired, generation, used, rested, minting, txn>>

reapAccess(c, g) ==
  /\ access[c][g] \in {"expired", "revoked"}
  /\ access' = [access EXCEPT ![c][g] = "gone"]
  /\ UNCHANGED <<codeVars, family, famExpired, generation, used, rested, minting, grant, txn, role>>

\* A family that ended a day ago goes with every token and with its authorization.
reapFamily(c) ==
  /\ family[c] \notin {"none", "gone"} /\ (family[c] # "live" \/ famExpired[c])
  /\ Free(c) /\ grant[c] # "live"
  /\ family' = [family EXCEPT ![c] = "gone"]
  /\ access' = [access EXCEPT ![c] = [g \in Generations |-> "gone"]]
  /\ status' = [status EXCEPT ![c] = "gone"]
  /\ UNCHANGED <<codeExpired, requested, approved, approver, interval, pollDue, famExpired,
                 generation, used, rested, minting, grant, txn, role>>

\* An expired code without a family.
reapAuthorization(c) ==
  /\ status[c] \notin {"absent", "gone"} /\ codeExpired[c] /\ family[c] \in {"none", "gone"}
  /\ txn[c] = "none"
  /\ status' = [status EXCEPT ![c] = "gone"]
  /\ UNCHANGED <<codeExpired, requested, approved, approver, interval, pollDue, tokenVars,
                 minting, grant, txn, role>>

-----------------------------------------------------------------------------

ClientRequest(c) ==
  \/ \E S \in SUBSET Scopes : issue(c, S)
  \/ poll(c) \/ exchangeBegin(c) \/ exchange(c) \/ exchangeInvalidated(c) \/ rollback(c)
  \/ \E g \in Generations :
       \/ refreshBegin(c, g) \/ refresh(c, g) \/ refreshReuse(c, g) \/ refreshInvalidated(c, g)
       \/ refreshExhausted(c, g) \/ revoke(c, g)
       \/ authenticateAccess(c, g) \/ accessInvalidated(c, g)
  \/ MintGrant(c)

Decision(c) ==
  \E u \in Users : deny(c, u) \/ \E S \in SUBSET Scopes : approve(c, u, S)

Expiry(c) ==
  \/ CodeExpires(c) \/ PollDue(c) \/ FamilyExpires(c) \/ TokenRests(c) \/ GrantExpires(c)
  \/ \E g \in Generations : AccessExpires(c, g)

Retention(c) ==
  \/ reapFamily(c) \/ reapAuthorization(c)
  \/ \E g \in Generations : reapAccess(c, g)

AuthNext ==
  \/ \E c \in Codes : ClientRequest(c) \/ Decision(c) \/ Expiry(c) \/ Retention(c)
  \/ \E u \in Users : remove(u) \/ \E r \in Roles : changeRole(u, r)

AuthSpec == AuthInit /\ [][AuthNext]_authVars

-----------------------------------------------------------------------------
(* Properties. *)

\* Rotation keeps exactly one refresh token usable: in a live family every
\* generation but the newest is marked used (refresh).
OneUsableToken ==
  \A c \in Codes : family[c] = "live" => used[c] = 0..generation[c] \ {generation[c]}

\* An ended family has no authority left: whichever of reuse detection,
\* logout, lost identity or exhaustion ended it, and whatever was in flight,
\* no access token and no gateway grant of it is live.
EndedIsPowerless ==
  \A c \in Codes : family[c] \in {"revoked", "reused"} =>
    grant[c] # "live" /\ \A g \in Generations : access[c][g] # "live"

\* The approver was removed from the organization, or one of the two was disabled.
Removed(c) == approver[c] \in Users /\ role[approver[c]] = "none"

\* A removal cuts off every login it can see: no gateway grant of the removed is live,
\* also when a session request or a rotation was in flight, and a login they still
\* have never rotated: its exchange was overtaken by the removal
\* (0022_identity_lifecycle.sql, MintGrant, refresh).
RemovedIsCutOff ==
  \A c \in Codes : Removed(c) =>
    grant[c] # "live" /\ (family[c] = "live" => generation[c] = 0)

\* What a login may do on the server: one token refreshes it, none serves it after its
\* end, and after the removal of the one who approved it nothing is left but the first
\* access token of an exchange that the removal overtook (refresh, revoke,
\* revokeFamilyForIdentity, the triggers of migration 0022).
AuthSafe == OneUsableToken /\ EndedIsPowerless /\ RemovedIsCutOff

\* The removed gain nothing: no step mints a gateway grant or rotates a token for a
\* login whose approver is removed, although refresh reads the role without a lock
\* and a session request is authenticated before it inserts (refresh, MintGrant).
RemovedGainsNothing ==
  \A c \in Codes :
    generation'[c] # generation[c] \/ (grant[c] # "live" /\ grant'[c] = "live") => ~Removed(c)
=============================================================================
