---------------------------- MODULE GatewayStream ----------------------------
(***************************************************************************)
(* One capability stream of the gateway (serveCapability, revalidateStream *)
(* and enforceStreamLease in gateway/router.go) and what the control plane *)
(* knows of it: the grant and the lease of domain/stream-admission.ts.     *)
(* Lookups and the release travel and are processed whenever they arrive,  *)
(* also after the gateway gave them up.  Time is discrete, both clocks     *)
(* agree, and a timer that is due fires before time goes on.               *)
(***************************************************************************)
EXTENDS Integers, FiniteSetsExt

CONSTANTS
  LeaseTime,   \* leaseSeconds
  Interval,    \* CapabilityRevalidationInterval
  Timeout,     \* ControlPlaneTimeout
  MaxTime,     \* bound on the clock
  MaxCalls     \* bound on lookups

GatewayAssumption == {LeaseTime, Interval, Timeout, MaxTime, MaxCalls} \subseteq Nat \ {0}

Calls == 1..MaxCalls
Never == -1

VARIABLES
  now,
  revokedAt,   \* when the grant was revoked
  lease,       \* expires_at of the row in gateway_stream_leases, 0 without one
  call,        \* routing requests: phase at the control plane, expiry it answers
  stream,      \* "lookup", "open", "closing", "done" or "refused"
  openedAt,
  waiting,     \* the request whose answer is awaited, 0 for none
  sentAt,
  calls,       \* number of requests sent
  timer,       \* when enforceStreamLease's timer fires
  tickAt,      \* when revalidateStream's ticker fires
  releaseCall  \* "none", "sent" or "over"

gatewayVars == <<now, revokedAt, lease, call, stream, openedAt, waiting, sentAt, calls, timer, tickAt, releaseCall>>
cpVars == <<revokedAt, lease>>
gwVars == <<stream, openedAt, waiting, sentAt, calls, timer, tickAt, releaseCall>>

Unsent == [phase |-> "unsent", expiry |-> 0]
Sent == [phase |-> "lookup", expiry |-> 0]

\* The first lookup is on its way.
GatewayInit ==
  /\ now = 1 /\ revokedAt = Never /\ lease = 0
  /\ call = [n \in Calls |-> IF n = 1 THEN Sent ELSE Unsent]
  /\ stream = "lookup" /\ openedAt = Never /\ waiting = 1 /\ sentAt = 1 /\ calls = 1
  /\ timer = 0 /\ tickAt = 0 /\ releaseCall = "none"

-----------------------------------------------------------------------------
(* The control plane. *)

CpLookup(n) ==
  /\ call[n].phase = "lookup"
  /\ call' = [call EXCEPT ![n].phase = IF revokedAt = Never THEN "acquire" ELSE "refused"]
  /\ UNCHANGED <<now, cpVars, gwVars>>

\* Acquired or renewed; a stream without an active lease may not fit the quota.
CpAcquire(n) ==
  /\ call[n].phase = "acquire"
  /\ \/ /\ lease' = now + LeaseTime
        /\ call' = [call EXCEPT ![n] = [phase |-> "answered", expiry |-> now + LeaseTime]]
     \/ /\ lease <= now /\ call' = [call EXCEPT ![n].phase = "refused"] /\ UNCHANGED lease
  /\ UNCHANGED <<now, revokedAt, gwVars>>

CpFails(n) ==
  /\ call[n].phase \in {"lookup", "acquire"}
  /\ call' = [call EXCEPT ![n].phase = "refused"]
  /\ UNCHANGED <<now, cpVars, gwVars>>

Revoke ==
  /\ revokedAt = Never /\ revokedAt' = now
  /\ UNCHANGED <<now, lease, call, gwVars>>

Reap ==
  /\ lease \in 1..now /\ lease' = 0
  /\ UNCHANGED <<now, revokedAt, call, gwVars>>

\* The DELETE of the stream arrives, or never does.
CpRelease ==
  /\ releaseCall = "sent" /\ releaseCall' = "over" /\ lease' \in {0, lease}
  /\ UNCHANGED <<now, revokedAt, call, stream, openedAt, waiting, sentAt, calls, timer, tickAt>>

-----------------------------------------------------------------------------
(* The gateway. *)

\* A first lookup may take the whole timeout, a later one at most an interval.
LookupLimit == IF stream = "open" THEN Min({Timeout, Interval}) ELSE Timeout

\* Mutant: the lease is taken to begin when its answer arrives.
LeaseFrom(n) == now + LeaseTime

LeaseEnd(n) == call[n].expiry

Good(n) == call[n].phase = "answered" /\ call[n].expiry > now

Admitted ==
  /\ stream = "lookup" /\ waiting # 0 /\ Good(waiting)
  /\ stream' = "open" /\ openedAt' = now
  /\ timer' = LeaseEnd(waiting) /\ tickAt' = now + Interval /\ waiting' = 0
  /\ UNCHANGED <<now, cpVars, call, sentAt, calls, releaseCall>>

\* A refusal, an answer that is too old or no answer.  The stream is released only
\* when an answer passed Resolve and turned too old after it.
Refused ==
  /\ stream = "lookup" /\ waiting # 0
  /\ \/ call[waiting].phase \in {"answered", "refused"} /\ ~Good(waiting)
     \/ now >= sentAt + LookupLimit
  /\ stream' = "refused" /\ waiting' = 0
  /\ (releaseCall' = "sent" /\ call[waiting].phase = "answered") \/ UNCHANGED releaseCall
  /\ UNCHANGED <<now, cpVars, call, openedAt, sentAt, calls, timer, tickAt>>

Revalidate ==
  /\ stream = "open" /\ waiting = 0 /\ now >= tickAt /\ calls < MaxCalls
  /\ calls' = calls + 1 /\ waiting' = calls' /\ sentAt' = now /\ tickAt' = tickAt + Interval
  /\ call' = [call EXCEPT ![calls'] = Sent]
  /\ UNCHANGED <<now, cpVars, stream, openedAt, timer, releaseCall>>

\* The new expiry is handed to enforceStreamLease, which arms its timer again.
Renewed ==
  /\ stream = "open" /\ waiting # 0 /\ Good(waiting)
  /\ timer' = LeaseEnd(waiting) /\ waiting' = 0
  /\ UNCHANGED <<now, cpVars, call, stream, openedAt, sentAt, calls, tickAt, releaseCall>>

\* The stream's context ends, and with it a lookup that is awaited.
Cancel ==
  /\ stream' = "closing" /\ waiting' = 0
  /\ UNCHANGED <<now, cpVars, call, openedAt, sentAt, calls, timer, tickAt, releaseCall>>

Failed == call[waiting].phase \in {"answered", "refused"} /\ ~Good(waiting)

NotRenewed ==
  /\ stream = "open" /\ waiting # 0 /\ (Failed \/ now >= sentAt + LookupLimit)
  /\ Cancel

LeaseTimer == stream = "open" /\ timer <= now /\ Cancel

\* The client, the host, the capability's expiry or a drain ends the stream.
Ends == stream = "open" /\ Cancel

releaseStream ==
  /\ stream = "closing" /\ stream' = "done" /\ releaseCall' = "sent"
  /\ UNCHANGED <<now, cpVars, call, openedAt, waiting, sentAt, calls, timer, tickAt>>

Due ==
  \/ waiting # 0 /\ now >= sentAt + LookupLimit
  \/ stream = "open" /\ (timer <= now \/ (waiting = 0 /\ tickAt <= now))

GatewayTick ==
  /\ now < MaxTime /\ ~Due /\ now' = now + 1
  /\ UNCHANGED <<cpVars, call, gwVars>>

GatewayNext ==
  \/ \E n \in Calls : CpLookup(n) \/ CpAcquire(n) \/ CpFails(n)
  \/ Revoke \/ Reap \/ CpRelease
  \/ Admitted \/ Refused \/ Revalidate \/ Renewed \/ NotRenewed \/ LeaseTimer \/ Ends
  \/ releaseStream \/ GatewayTick

GatewaySpec == GatewayInit /\ [][GatewayNext]_gatewayVars

-----------------------------------------------------------------------------

\* A stream carries data only while the control plane counts it.
TimerWithinLease == stream = "open" => timer >= now /\ (timer > now => lease >= timer)

\* An open stream whose grant is revoked ends after one revalidation: an interval
\* and a timeout at most, counted from its opening when it was looked up before.
RevokedEnds ==
  stream = "open" /\ revokedAt # Never =>
    now <= Max({revokedAt, openedAt}) + Interval + Min({Timeout, Interval})

\* A stream the gateway keeps open has a lease, which its timer never outlives, and one
\* whose grant was revoked ends in bounded time, whatever lookups are lost, late or
\* refused (gateway/router.go).
OpenHasLease == TimerWithinLease /\ RevokedEnds
=============================================================================
