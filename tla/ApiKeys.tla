------------------------------ MODULE ApiKeys -------------------------------
(***************************************************************************)
(* API keys: what administrators do with them (auth/api-key.ts, http/      *)
(* routes/api-keys.ts), how a request authenticates with one (http/auth.ts)*)
(* and the gateway sessions it opens (http/routes/machines.ts).  Hashing   *)
(* and verification pass a bounded queue; everything else is a transaction *)
(* with its locks.  One organization.                                      *)
(***************************************************************************)
EXTENDS RowLocks

CONSTANTS
  Keys,              \* key ids
  Staff,             \* dashboard users
  KeyBodies,         \* what requests ask, see KeyBody
  Issued,            \* keys that exist at the start
  MaxActive,         \* unrevoked keys of the organization (trigger)
  MaxRetained,       \* rows of the organization (trigger)
  Concurrent,        \* of each queue: operations that run at once
  Queued,            \* of each queue: operations that may wait
  AllocationAttempts,
  MaxTurns           \* bound on changes to administrators and organization

Queues == {"hash", "verify"}

KeyBody ==
  [kind : {"create"}, user : Staff]
  \cup [kind : {"disable", "enable", "rotate", "revoke"}, user : Staff, key : Keys]
  \cup [kind : {"session"}, key : Keys]

ApiKeysAssumption ==
  /\ KeyBodies \subseteq KeyBody /\ Issued \subseteq Keys /\ IsFiniteSet(Issued)
  /\ Concurrent \in [Queues -> Nat \ {0}] /\ Queued \in [Queues -> Nat]
  /\ MaxActive \in Nat /\ MaxRetained \in Nat /\ AllocationAttempts \in Nat \ {0}
  /\ Cardinality(Issued) <= MaxActive

VARIABLES
  key,       \* api_keys: state and the key it replaces, in the end
  expired,   \* the chains of keys whose expires_at has passed
  admins,    \* users that are owner or admin
  org,       \* whether the organization is enabled
  keySessions, \* keys with an unrevoked session
  asked,     \* what each request asks
  seen,      \* the record a request found under its prefix
  verified,  \* what its verification answered
  tries,     \* prefixes a request has drawn
  active,    \* BoundedCryptoAdmission, of each queue
  waiters,
  turns

keyTables == <<key, expired, admins, org, keySessions>>
crypto == <<active, waiters>>
keyState == <<keyTables, asked, seen, verified, tries, crypto, turns>>
keysVars == <<keyState, txVars>>

Rows == {k \in Keys : key[k].state # "none"}
Unrevoked == {k \in Rows : key[k].state # "revoked"}

KeysInit ==
  /\ key = [k \in Keys |-> [state |-> IF k \in Issued THEN "active" ELSE "none", root |-> k]]
  /\ expired = {} /\ admins = Staff /\ org = TRUE /\ keySessions = {}
  /\ asked \in [Calls -> KeyBodies]
  /\ seen = [c \in Calls |-> "none"] /\ verified = [c \in Calls |-> FALSE]
  /\ tries = [c \in Calls |-> 0]
  /\ active = [q \in Queues |-> 0] /\ waiters = [q \in Queues |-> <<>>]
  /\ turns = 0
  /\ LocksInit

-----------------------------------------------------------------------------
(* BoundedCryptoAdmission.run *)

QueueOf(c) == IF asked[c].kind = "session" THEN "verify" ELSE "hash"

Enter(c) ==
  LET q == QueueOf(c) IN
  /\ At(c, "crypto")
  /\ \/ /\ active[q] < Concurrent[q]
        /\ active' = [active EXCEPT ![q] = @ + 1]
        /\ Goes(c, "running")
        /\ UNCHANGED waiters
     \/ /\ active[q] >= Concurrent[q] /\ Len(waiters[q]) < Queued[q]
        /\ waiters' = [waiters EXCEPT ![q] = Append(@, c)]
        /\ Goes(c, "waiting")
        /\ UNCHANGED active
     \/ /\ active[q] >= Concurrent[q] /\ Len(waiters[q]) >= Queued[q]
        /\ Goes(c, "busy")
        /\ UNCHANGED crypto
  /\ UNCHANGED <<keyTables, asked, seen, verified, tries, turns>>

\* The slot passes to the first that waits.
LeaveCrypto(c, next) ==
  LET q == QueueOf(c) IN
  /\ IF waiters[q] # <<>>
     THEN /\ txPc' = [txPc EXCEPT ![c] = next, ![Head(waiters[q])] = "running"]
          /\ waiters' = [waiters EXCEPT ![q] = Tail(@)]
          /\ UNCHANGED active
     ELSE /\ txPc' = [txPc EXCEPT ![c] = next]
          /\ active' = [active EXCEPT ![q] = @ - 1]
          /\ UNCHANGED waiters
  /\ UNCHANGED <<todo, locks>>

\* The operation answers, or throws: a verification that throws is one that
\* failed, a hash that throws ends the request.
RunEnds(c) ==
  /\ At(c, "running")
  /\ \/ /\ asked[c].kind = "session"
        /\ \E v \in BOOLEAN : verified' = [verified EXCEPT ![c] = v]
        /\ LeaveCrypto(c, "isActive")
     \/ /\ asked[c].kind # "session"
        /\ \E next \in {"organization", "failed"} : LeaveCrypto(c, next)
        /\ UNCHANGED verified
  /\ UNCHANGED <<keyTables, asked, seen, tries, turns>>

-----------------------------------------------------------------------------
(* Authentication and the routes. *)

UsableKey(k) == key[k].state = "active" /\ key[k].root \notin expired

\* The routes of administrators; creating and rotating hash a new secret first.
AdministratorAsks(c, kinds, next) ==
  LET b == asked[c] IN
  /\ At(c, "new") /\ b.kind \in kinds
  /\ Goes(c, IF org /\ b.user \in admins THEN next ELSE "refused")
  /\ UNCHANGED <<keyTables, asked, seen, verified, tries, crypto, turns>>

postKey(c) == AdministratorAsks(c, {"create"}, "crypto")
postDisabled(c) == AdministratorAsks(c, {"disable", "enable"}, "authorize")
postRotate(c) == AdministratorAsks(c, {"rotate"}, "crypto")
deleteKey(c) == AdministratorAsks(c, {"revoke"}, "authorize")

\* The record under the presented prefix, as it is now.
findByPrefix(c) ==
  /\ At(c, "new") /\ asked[c].kind = "session"
  /\ seen' = [seen EXCEPT ![c] = IF org /\ UsableKey(asked[c].key) THEN "usable" ELSE "unusable"]
  /\ Goes(c, "crypto")
  /\ UNCHANGED <<keyTables, asked, verified, tries, crypto, turns>>

\* After the verification the key must be active still, and the record found
\* before it must have been.
authenticate(c) ==
  /\ At(c, "isActive")
  /\ Goes(c, IF verified[c] /\ seen[c] = "usable" /\ org /\ UsableKey(asked[c].key)
             THEN "session" ELSE "refused")
  /\ UNCHANGED <<keyTables, asked, seen, verified, tries, crypto, turns>>

-----------------------------------------------------------------------------
(* PostgresApiKeyStore *)

Organization == OrgRow("org")
KeyRow(k) == <<"api_keys", k>>
AdministratorRows(u) == {Organization, MemberRow("org", u), UserRow(u)}

\* insert and rotate lock the organization before anything else.
LockOrganization(c) ==
  /\ At(c, "organization")
  /\ Locking(c, <<Update(Organization)>>, "authorize")
  /\ UNCHANGED <<locks, keyTables, asked, seen, verified, tries, crypto, turns>>

KeyLocks(b) == IF b.kind = "create" THEN <<>> ELSE <<Update(KeyRow(b.key))>>

lockApiKeyAdministrator(c) ==
  LET b == asked[c] IN
  /\ b.kind # "session"
  /\ HoldActor(c, AdministratorRows(b.user), org /\ b.user \in admins, KeyLocks(b), "write")
  /\ UNCHANGED <<keyTables, asked, seen, verified, tries, crypto, turns>>

\* The trigger on inserts, in the order in which it counts.
WithinBounds(unrevoked) == Cardinality(unrevoked) < MaxActive /\ Cardinality(Rows) < MaxRetained

\* What the organization's other unrevoked keys are when c's is inserted.
Beside(c) == IF asked[c].kind = "rotate" THEN Unrevoked \ {asked[c].key} ELSE Unrevoked

Inserting(c) ==
  /\ At(c, "write") /\ asked[c].kind \in {"create", "rotate"}
  /\ asked[c].kind = "rotate" => org /\ UsableKey(asked[c].key)

\* A drawn prefix may be taken: the request draws another one, up to
\* allocationAttempts times.
Collides(c) ==
  /\ Inserting(c) /\ WithinBounds(Beside(c)) /\ Rows # {}
  /\ tries' = [tries EXCEPT ![c] = @ + 1]
  /\ EndTx(c, IF tries[c] + 1 < AllocationAttempts THEN "crypto" ELSE "unavailable")
  /\ UNCHANGED <<keyTables, asked, seen, verified, crypto, turns>>

\* The insert passes the trigger; others see it when it commits.
insert(c) ==
  /\ Inserting(c)
  /\ IF WithinBounds(Beside(c)) THEN Goes(c, "commit") ELSE EndTx(c, "quota")
  /\ UNCHANGED <<keyTables, asked, seen, verified, tries, crypto, turns>>

create(c) ==
  /\ At(c, "commit") /\ asked[c].kind = "create"
  /\ \E k \in Keys \ Rows : key' = [key EXCEPT ![k] = [state |-> "active", root |-> k]]
  /\ EndTx(c, "done")
  /\ UNCHANGED <<expired, admins, org, keySessions, asked, seen, verified, tries, crypto, turns>>

setDisabled(c) ==
  LET b == asked[c]
      to == IF b.kind = "disable" THEN "disabled" ELSE "active" IN
  /\ At(c, "write") /\ b.kind \in {"disable", "enable"}
  /\ IF b.key \in Unrevoked
     THEN /\ key' = [key EXCEPT ![b.key].state = to]
          /\ keySessions' = IF to = "disabled" THEN keySessions \ {b.key} ELSE keySessions
          /\ EndTx(c, "done")
     ELSE EndTx(c, "notFound") /\ UNCHANGED <<key, keySessions>>
  /\ UNCHANGED <<expired, admins, org, asked, seen, verified, tries, crypto, turns>>

\* The key to rotate has to be usable under its lock.
rotateNothing(c) ==
  /\ At(c, "write") /\ asked[c].kind = "rotate"
  /\ ~(org /\ UsableKey(asked[c].key))
  /\ EndTx(c, "notFound")
  /\ UNCHANGED <<keyTables, asked, seen, verified, tries, crypto, turns>>

\* The old key is revoked first, so that the count leaves room for the new one.
rotate(c) ==
  LET k == asked[c].key IN
  /\ At(c, "commit") /\ asked[c].kind = "rotate"
  /\ \E n \in Keys \ Rows :
       key' = [key EXCEPT ![k].state = "revoked",
                          ![n] = [state |-> "active", root |-> key[k].root]]
  /\ keySessions' = keySessions \ {k}
  /\ EndTx(c, "done")
  /\ UNCHANGED <<expired, admins, org, asked, seen, verified, tries, crypto, turns>>

revokeKey(c) ==
  LET k == asked[c].key IN
  /\ At(c, "write") /\ asked[c].kind = "revoke"
  /\ IF k \in Rows
     THEN /\ key' = [key EXCEPT ![k].state = "revoked"]
          /\ keySessions' = keySessions \ {k}
          /\ EndTx(c, "done")
     ELSE EndTx(c, "notFound") /\ UNCHANGED <<key, keySessions>>
  /\ UNCHANGED <<expired, admins, org, asked, seen, verified, tries, crypto, turns>>

-----------------------------------------------------------------------------
(* The statement that opens a session under a key: the key and then the     *)
(* organization are held with SHARE, then the grant is inserted.            *)

\* Mutant: the issuer is read and not held.
activeApiKeyUnheld(c) ==
  /\ At(c, "session")
  /\ Goes(c, IF org /\ UsableKey(asked[c].key) THEN "grant" ELSE "refused")
  /\ UNCHANGED <<keyTables, asked, seen, verified, tries, crypto, turns>>

activeApiKey(c) ==
  /\ At(c, "session")
  /\ Locking(c, <<Share(KeyRow(asked[c].key)), Share(Organization)>>, "issuer")
  /\ UNCHANGED <<locks, keyTables, asked, seen, verified, tries, crypto, turns>>

issuerHeld(c) ==
  /\ At(c, "issuer")
  /\ IF org /\ UsableKey(asked[c].key) THEN Goes(c, "grant") ELSE EndTx(c, "refused")
  /\ UNCHANGED <<keyTables, asked, seen, verified, tries, crypto, turns>>

insertKeyGrant(c) ==
  /\ At(c, "grant")
  /\ keySessions' = keySessions \cup {asked[c].key}
  /\ EndTx(c, "done")
  /\ UNCHANGED <<key, expired, admins, org, asked, seen, verified, tries, crypto, turns>>

-----------------------------------------------------------------------------
(* Time, and the transactions of module Identity. *)

Turn == turns < MaxTurns /\ turns' = turns + 1
          /\ UNCHANGED <<key, asked, seen, verified, tries, crypto, txVars>>

Expires == Turn /\ \E k \in Rows : expired' = expired \cup {key[k].root} /\ key[k].root \notin expired
             /\ UNCHANGED <<admins, org, keySessions>>

Demoted == Turn /\ \E u \in admins : Unheld(MemberRow("org", u)) /\ admins' = admins \ {u}
             /\ UNCHANGED <<expired, org, keySessions>>

OrganizationTurns ==
  /\ Turn /\ Unheld(Organization)
  /\ org' = ~org
  /\ keySessions' = IF org THEN {} ELSE keySessions
  /\ UNCHANGED <<expired, admins>>

KeyStep(c) ==
  \/ postKey(c) \/ postDisabled(c) \/ postRotate(c) \/ deleteKey(c) \/ findByPrefix(c)
  \/ Enter(c) \/ RunEnds(c) \/ authenticate(c)
  \/ LockOrganization(c) \/ lockApiKeyAdministrator(c)
  \/ (TakeLock(c) /\ UNCHANGED <<keyTables, asked, seen, verified, tries, crypto, turns>>)
  \/ insert(c) \/ create(c) \/ setDisabled(c) \/ rotateNothing(c) \/ rotate(c) \/ revokeKey(c)
  \/ activeApiKey(c) \/ issuerHeld(c) \/ insertKeyGrant(c)

KeyAborts(c) == DeadlockVictim(c) /\ UNCHANGED <<keyTables, asked, seen, verified, tries, crypto, turns>>

KeysNext ==
  \/ \E c \in Calls : KeyStep(c) \/ Collides(c) \/ KeyAborts(c)
  \/ Expires \/ Demoted \/ OrganizationTurns

KeysSpec == KeysInit /\ [][KeysNext]_keysVars

-----------------------------------------------------------------------------
(* Properties *)

\* Rotation replaces: of all keys that descend from one key by rotation at
\* most one is not revoked, however rotations, enables and collisions race.
OneHeirPerKey ==
  \A j, k \in Unrevoked : key[j].root = key[k].root => j = k

\* No session outlives its key: the issuer of a live grant is neither disabled
\* nor revoked and its organization is enabled, also when the session was
\* authenticated before and inserted after.
GrantsFollowKeys == \A k \in keySessions : key[k].state = "active" /\ org

\* The organization never has more unrevoked keys than its quota, although
\* creations and rotations count and insert concurrently.
KeysWithinQuota == Cardinality(Unrevoked) <= MaxActive

\* A slot of the hasher or verifier is held by exactly the operations that
\* run, never more than its limit; nobody waits while one is free.
CryptoSlotsHeld ==
  \A q \in Queues :
    /\ active[q] = Cardinality({c \in Calls : txPc[c] = "running" /\ QueueOf(c) = q})
    /\ active[q] <= Concurrent[q]
    /\ waiters[q] # <<>> => active[q] = Concurrent[q]

\* At most one heir of a rotated key is valid, no session outlives its key, quotas hold,
\* and a crypto slot is held by those who run (auth/api-key.ts).
KeysSafe == OneHeirPerKey /\ GrantsFollowKeys /\ KeysWithinQuota /\ CryptoSlotsHeld

\* Keys are minted, enabled, disabled and revoked by somebody who is still an
\* administrator of an enabled organization when it happens.
AdministratorWhenItHappens ==
  \A c \in Calls :
    txPc[c] \in {"write", "commit"} /\ txPc'[c] = "done" => org /\ asked[c].user \in admins
=============================================================================
