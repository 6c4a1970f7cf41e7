-------------------------- MODULE StreamAdmission ---------------------------
(***************************************************************************)
(* Gateway streams of one organization: StreamAdmissionService             *)
(* (domain/stream-admission.ts), the routing lookup that uses it           *)
(* (http/routes/internal-hosts.ts), the grants it looks up and their       *)
(* reaper.  A routing request is three statements: it is counted, the      *)
(* grant is looked up, the lease is acquired or renewed.  Requests of      *)
(* several gateways interleave between them, and the counting statement    *)
(* takes its clock (statement_timestamp) before it waits for the row.      *)
(***************************************************************************)
EXTENDS Naturals, FiniteSets, FiniteSetsExt

CONSTANTS
  Streams,      \* stream ids
  Grants,       \* machine_gateway_grants
  Project,      \* project of each grant
  Requests,     \* the identities gateways send: id, grant, instance, bandwidth
  Callers,      \* routing requests in flight
  NoLease,      \* no row in gateway_stream_leases, no request
  Slot,         \* requestSlot of each grant in the authority scope
  RateLimit,    \* request limit by scope
  StreamLimit,  \* max_gateway_streams: of the organization and of each project
  BandwidthLimit, \* max_gateway_bandwidth_bps, likewise
  MaxStored,    \* maximumStoredRequestCount
  MaxWindow     \* bound on rate windows

StreamAssumption ==
  /\ \A r \in Requests : r.id \in Streams /\ r.grant \in Grants
  /\ MaxStored > RateLimit.authority /\ MaxStored > RateLimit.project
  /\ MaxStored > RateLimit.organization

VARIABLES
  lease,    \* gateway_stream_leases: the identity it was acquired with
  age,      \* of the lease: "fresh", "due" for renewal, "expired"
  grant,    \* "live", "revoked", "expired", "gone"
  now,      \* the current rate window
  window,   \* gateway_capability_request_windows by scope and slot
  admitted, \* history: requests let through, by bucket and stored window
  pc,       \* next statement of each routing request
  req,      \* its identity
  stamp     \* the window of its statement_timestamp

streamVars == <<lease, age, grant, now, window, admitted, pc, req, stamp>>
rateVars == <<now, window, admitted>>
callVars == <<pc, req, stamp>>

Windows == 0..MaxWindow
Buckets ==
  {<<"authority", Slot[g]>> : g \in Grants} \cup {<<"project", Project[g]>> : g \in Grants}
    \cup {<<"organization", "org">>}
BucketsOf(r) ==
  {<<"authority", Slot[r.grant]>>, <<"project", Project[r.grant]>>, <<"organization", "org">>}

Active(s) == lease[s] # NoLease /\ age[s] # "expired"

StreamInit ==
  /\ lease = [s \in Streams |-> NoLease] /\ age = [s \in Streams |-> "fresh"]
  /\ grant = [g \in Grants |-> "live"]
  /\ now = 0 /\ window = [b \in Buckets |-> [start |-> 0, count |-> 0]]
  /\ admitted = [b \in Buckets |-> [w \in Windows |-> 0]]
  /\ pc = [c \in Callers |-> "idle"] /\ req = [c \in Callers |-> NoLease]
  /\ stamp = [c \in Callers |-> 0]

\* A request that ended leaves nothing behind.
Go(c, to) ==
  /\ pc' = [pc EXCEPT ![c] = to]
  /\ req' = IF to = "idle" THEN [req EXCEPT ![c] = NoLease] ELSE req
  /\ stamp' = IF to = "idle" THEN [stamp EXCEPT ![c] = 0] ELSE stamp

-----------------------------------------------------------------------------
(* GET /internal/v1/routing/machines/:id *)

RouteBegin(c, r) ==
  /\ pc[c] = "idle" /\ pc' = [pc EXCEPT ![c] = "admit"]
  /\ req' = [req EXCEPT ![c] = r]
  /\ stamp' = [stamp EXCEPT ![c] = now]
  /\ UNCHANGED <<lease, age, grant, now, window, admitted>>

\* ON CONFLICT of admitRouteRequest: a newer window starts again at one, an
\* older stamp counts in the window that is stored.
Counted(b, w) ==
  IF w > b.start THEN [start |-> w, count |-> 1]
  ELSE [b EXCEPT !.count = IF @ + 1 > MaxStored THEN MaxStored ELSE @ + 1]

\* admitRouteRequest: free for the exact lease while it is active; otherwise all
\* three windows are counted, and the request passes if none is over its limit.
admitRouteRequest(c) ==
  LET r == req[c]
      free == Active(r.id) /\ lease[r.id] = r
      next == [b \in BucketsOf(r) |-> Counted(window[b], stamp[c])]
      passes == \A b \in BucketsOf(r) : next[b].count <= RateLimit[b[1]]
  IN
  /\ pc[c] = "admit"
  /\ IF free THEN Go(c, "lookup") /\ UNCHANGED <<window, admitted>>
     ELSE /\ window' = [b \in Buckets |-> IF b \in BucketsOf(r) THEN next[b] ELSE window[b]]
          /\ Go(c, IF passes THEN "lookup" ELSE "idle")
          /\ admitted' = IF ~passes THEN admitted ELSE
               [b \in Buckets |-> IF b \in BucketsOf(r)
                 THEN [admitted[b] EXCEPT ![next[b].start] = @ + 1] ELSE admitted[b]]
  /\ UNCHANGED <<lease, age, grant, now>>

\* The grant, its issuer, its machine and its host, all still in order; here
\* they end together as the grant's revocation or expiry.
RouteLookup(c) ==
  /\ pc[c] = "lookup"
  /\ Go(c, IF grant[req[c].grant] = "live" THEN "acquire" ELSE "idle")
  /\ UNCHANGED <<lease, age, grant, rateVars>>

\* Leases that count once the expired ones are deleted, with r added or renewed.
Holding(r) == {s \in Streams : Active(s)} \cup {r.id}
Identity(r, s) == IF s = r.id THEN r ELSE lease[s]
InProject(r, S) == {s \in S : Project[Identity(r, s).grant] = Project[r.grant]}
Bandwidth(r, S) == MapThenSumSet(LAMBDA s : Identity(r, s).bandwidth, S)

WithinQuota(r) ==
  LET all == Holding(r)  mine == InProject(r, all) IN
  /\ Cardinality(all) <= StreamLimit.organization /\ Cardinality(mine) <= StreamLimit.project
  /\ Bandwidth(r, all) <= BandwidthLimit.organization
  /\ Bandwidth(r, mine) <= BandwidthLimit.project

\* Mutant: expired leases are not deleted first, so that the own expired row
\* counts as held although the usage leaves it out.
acquireStale(c) ==
  LET r == req[c] IN
  /\ pc[c] = "acquire" /\ Go(c, "idle")
  /\ IF \/ lease[r.id] = r
        \/ lease[r.id] = NoLease /\ WithinQuota(r)
     THEN lease' = [lease EXCEPT ![r.id] = r] /\ age' = [age EXCEPT ![r.id] = "fresh"]
     ELSE UNCHANGED <<lease, age>>
  /\ UNCHANGED <<grant, rateVars>>

\* acquire, under the organization's and the project's row lock.  A refusal
\* rolls the deletion of the expired leases back.
acquire(c) ==
  LET r == req[c]
      kept == [s \in Streams |-> IF Active(s) THEN lease[s] ELSE NoLease] IN
  /\ pc[c] = "acquire" /\ Go(c, "idle")
  /\ IF kept[r.id] \in {NoLease, r} /\ WithinQuota(r)
     THEN /\ lease' = [kept EXCEPT ![r.id] = r]
          /\ age' = [s \in Streams |-> IF s = r.id \/ kept[s] = NoLease THEN "fresh" ELSE age[s]]
     ELSE UNCHANGED <<lease, age>>
  /\ UNCHANGED <<grant, rateVars>>

\* The statement or its connection fails: the gateway gets no route.
RouteFails(c) ==
  /\ pc[c] # "idle" /\ Go(c, "idle")
  /\ UNCHANGED <<lease, age, grant, rateVars>>

Dropped(s) ==
  /\ lease' = [lease EXCEPT ![s] = NoLease] /\ age' = [age EXCEPT ![s] = "fresh"]
  /\ UNCHANGED <<grant, rateVars, callVars>>

\* DELETE /internal/v1/routing/streams/:id, also long after the stream ended.
release(s, inst) == lease[s] # NoLease /\ lease[s].instance = inst /\ Dropped(s)

reapExpired(s) == lease[s] # NoLease /\ age[s] = "expired" /\ Dropped(s)

-----------------------------------------------------------------------------
(* Grants and time. *)

SetGrant(g, to) ==
  /\ grant' = [grant EXCEPT ![g] = to]
  /\ UNCHANGED <<lease, age, rateVars, callVars>>

\* DELETE /v1/machines/:id/sessions/:sessionId, or the issuer lost its authority.
RevokeGrant(g) == grant[g] = "live" /\ SetGrant(g, "revoked")
GrantExpires(g) == grant[g] \in {"live", "revoked"} /\ SetGrant(g, "expired")
reapExpiredGatewayGrants(g) == grant[g] = "expired" /\ SetGrant(g, "gone")

LeaseAges(s) ==
  /\ Active(s)
  /\ age' = [age EXCEPT ![s] = IF @ = "fresh" THEN "due" ELSE "expired"]
  /\ UNCHANGED <<lease, grant, rateVars, callVars>>

NextWindow ==
  /\ now < MaxWindow /\ now' = now + 1
  /\ UNCHANGED <<lease, age, grant, window, admitted, pc, req, stamp>>

-----------------------------------------------------------------------------

RouteStep(c) == admitRouteRequest(c) \/ RouteLookup(c) \/ acquire(c)

StreamNext ==
  \/ \E c \in Callers : (\E r \in Requests : RouteBegin(c, r)) \/ RouteStep(c) \/ RouteFails(c)
  \/ \E s \in Streams :
       reapExpired(s) \/ LeaseAges(s) \/ \E r \in Requests : release(s, r.instance)
  \/ \E g \in Grants : RevokeGrant(g) \/ GrantExpires(g) \/ reapExpiredGatewayGrants(g)
  \/ NextWindow

StreamSpec == StreamInit /\ [][StreamNext]_streamVars

-----------------------------------------------------------------------------
(* Properties. *)

\* Whichever gateways acquire, renew, lose and reacquire leases at once, the
\* active ones stay within both quotas in number and in bandwidth (acquire).
StreamQuotaHeld ==
  \A s \in Streams : Active(s) => WithinQuota(lease[s])

\* A bucket lets no more requests through in one window than its limit, even
\* when statements stamped before the window are applied after it began
\* (admitRouteRequest: "Hash collisions only deny extra work and can never
\* grant capacity").
RateHeld ==
  \A b \in Buckets, w \in Windows : admitted[b][w] <= RateLimit[b[1]]

\* While a stream's lease is active no other request takes it over: another
\* gateway, grant or bandwidth under the same id is refused, however lookups and
\* expiries interleave (acquire: "stream id was replayed with a different
\* identity").
LeaseIsOwned ==
  \A s \in Streams : Active(s) => lease'[s] \in {lease[s], NoLease}
=============================================================================
