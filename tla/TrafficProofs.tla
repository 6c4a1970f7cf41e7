--------------------------- MODULE TrafficProofs ---------------------------
(***************************************************************************)
(* The safety of what carries traffic: the gateway stream and its lease,   *)
(* the gateway's REST limiter and readiness cache, the control plane's     *)
(* request pipeline and the SDK's channel.  One inductive invariant for    *)
(* each component; their theorems are stated for every number of requests, *)
(* logins, sources, windows, sockets and callers.                          *)
(***************************************************************************)
EXTENDS GatewayStream, Admission, SdkChannel, TLAPS, FiniteSetTheorems

-----------------------------------------------------------------------------
(* The gateway stream: an open stream has a lease. *)

CallPhases == {"unsent", "lookup", "acquire", "answered", "refused"}

GatewayTypes ==
  /\ now \in Nat /\ revokedAt \in Nat \cup {Never} /\ lease \in Nat
  /\ call \in [Calls -> [phase : CallPhases, expiry : Nat]]
  /\ stream \in {"lookup", "open", "closing", "done", "refused"}
  /\ openedAt \in Nat \cup {Never} /\ waiting \in Calls \cup {0} /\ sentAt \in Nat
  /\ calls \in Calls /\ timer \in Nat /\ tickAt \in Nat
  /\ releaseCall \in {"none", "sent", "over"}

\* An answer promises a lease that is there: until its expiry nothing takes it away
\* from a stream that is looked up or open, and later acquisitions only extend it.
Promised(expiry) == expiry <= now + LeaseTime /\ (expiry > now => lease >= expiry)
LeasePromised ==
  /\ releaseCall # "none" => stream \in {"done", "refused"}
  /\ stream \in {"lookup", "open"} =>
       \A n \in Calls : call[n].phase = "answered" => Promised(call[n].expiry)
  /\ stream = "open" => timer >= now /\ Promised(timer)

\* The gateway never falls behind its ticker, and a lookup is over before the next.
Patience == IF Timeout <= Interval THEN Timeout ELSE Interval
OnTime ==
  stream = "open" =>
    /\ openedAt \in Nat
    /\ waiting = 0 => now <= tickAt /\ tickAt <= now + Interval
    /\ waiting # 0 => sentAt <= now /\ now <= sentAt + Patience /\ tickAt = sentAt + Interval

\* After the revocation only a lookup that was sent before it can still succeed.
Since == IF revokedAt >= openedAt THEN revokedAt ELSE openedAt
RevocationSeen ==
  stream = "open" /\ revokedAt # Never =>
    /\ waiting = 0 => tickAt <= Since + Interval
    /\ waiting # 0 => /\ sentAt <= Since + Interval
                      /\ call[waiting].phase \in {"acquire", "answered"} => sentAt <= Since

GatewayInv == GatewayTypes /\ LeasePromised /\ OnTime /\ RevocationSeen

-----------------------------------------------------------------------------
\* The least and the greatest of two numbers.
LEMMA MinMaxOfTwo ==
  ASSUME NEW a \in Int, NEW b \in Int
  PROVE  /\ Min({a, b}) = IF a <= b THEN a ELSE b
         /\ Max({a, b}) = IF a >= b THEN a ELSE b
<1>1. \E x \in {a, b} : \A y \in {a, b} : x <= y
  OBVIOUS
<1>2. \E x \in {a, b} : \A y \in {a, b} : x >= y
  OBVIOUS
<1>3. Min({a, b}) \in {a, b} /\ \A y \in {a, b} : Min({a, b}) <= y
  BY <1>1 DEF Min
<1>4. Max({a, b}) \in {a, b} /\ \A y \in {a, b} : Max({a, b}) >= y
  BY <1>2 DEF Max
<1> QED
  BY <1>3, <1>4

\* How long an open stream waits for a lookup.
LEMMA LimitIsPatience ==
  ASSUME GatewayAssumption
  PROVE  /\ Patience \in Nat \ {0} /\ Patience <= Interval
         /\ stream = "open" => LookupLimit = Patience
BY MinMaxOfTwo DEF GatewayAssumption, LookupLimit, Patience

\* Nothing is open at first.
LEMMA GatewayInitInv ==
  ASSUME GatewayAssumption, GatewayInit
  PROVE  GatewayInv
<1>1. 1 \in Calls
  BY DEF Calls, GatewayAssumption
<1>2. GatewayTypes
  BY <1>1 DEF GatewayInit, GatewayTypes, Sent, Unsent, CallPhases, Never
<1>3. LeasePromised /\ OnTime /\ RevocationSeen
  BY DEF GatewayInit, LeasePromised, OnTime, RevocationSeen, Sent, Unsent
<1> QED
  BY <1>2, <1>3 DEF GatewayInv

\* Every step keeps the types.
LEMMA GatewayTypesStep ==
  ASSUME GatewayAssumption, GatewayTypes, [GatewayNext]_gatewayVars
  PROVE  GatewayTypes'
<1> USE DEF GatewayTypes, CallPhases, cpVars, gwVars, GatewayAssumption
<1>1. ASSUME NEW n \in Calls, CpLookup(n) \/ CpFails(n)
      PROVE  GatewayTypes'
  BY <1>1 DEF CpLookup, CpFails
<1>2. ASSUME NEW n \in Calls, CpAcquire(n)
      PROVE  GatewayTypes'
  BY <1>2 DEF CpAcquire
<1>3. CASE Revoke \/ Reap \/ CpRelease
  BY <1>3 DEF Revoke, Reap, CpRelease
<1>4. CASE Admitted \/ Renewed
  BY <1>4 DEF Admitted, Renewed, LeaseEnd
<1>5. CASE Refused \/ NotRenewed \/ LeaseTimer \/ Ends \/ releaseStream
  BY <1>5 DEF Refused, NotRenewed, LeaseTimer, Ends, releaseStream, Cancel
<1>6. CASE Revalidate
  <2>1. calls + 1 \in Calls
    BY <1>6 DEF Revalidate, Calls
  <2>2. Sent \in [phase : CallPhases, expiry : Nat]
    BY DEF Sent
  <2> QED
    BY <1>6, <2>1, <2>2 DEF Revalidate
<1>7. CASE GatewayTick
  BY <1>7 DEF GatewayTick
<1>8. CASE UNCHANGED gatewayVars
  BY <1>8 DEF gatewayVars
<1> QED
  BY <1>1, <1>2, <1>3, <1>4, <1>5, <1>6, <1>7, <1>8 DEF GatewayNext

\* No step takes back a lease that an answer has promised.
LEMMA LeasePromisedStep ==
  ASSUME GatewayAssumption, GatewayInv, [GatewayNext]_gatewayVars
  PROVE  LeasePromised'
<1> USE DEF GatewayInv, GatewayTypes, LeasePromised, Promised, cpVars, gwVars, GatewayAssumption
<1>1. ASSUME NEW n \in Calls, CpLookup(n) \/ CpFails(n)
      PROVE  LeasePromised'
  BY <1>1 DEF CpLookup, CpFails
<1>2. ASSUME NEW n \in Calls, CpAcquire(n)
      PROVE  LeasePromised'
  BY <1>2 DEF CpAcquire
<1>3. CASE Revoke \/ Reap \/ CpRelease
  BY <1>3 DEF Revoke, Reap, CpRelease
<1>4. CASE Admitted \/ Renewed
  BY <1>4 DEF Admitted, Renewed, LeaseEnd, Good
<1>5. CASE Refused \/ NotRenewed \/ LeaseTimer \/ Ends \/ releaseStream
  BY <1>5 DEF Refused, NotRenewed, LeaseTimer, Ends, releaseStream, Cancel
<1>6. CASE Revalidate
  BY <1>6 DEF Revalidate, Sent
<1>7. CASE GatewayTick
  BY <1>7 DEF GatewayTick, Due
<1>8. CASE UNCHANGED gatewayVars
  BY <1>8 DEF gatewayVars
<1> QED
  BY <1>1, <1>2, <1>3, <1>4, <1>5, <1>6, <1>7, <1>8 DEF GatewayNext

\* Renewals stay on the ticker: no step lets a tick or a waiting lookup be overdue.
LEMMA OnTimeStep ==
  ASSUME GatewayAssumption, GatewayInv, [GatewayNext]_gatewayVars
  PROVE  OnTime'
<1> USE DEF GatewayInv, GatewayTypes, OnTime, cpVars, gwVars, GatewayAssumption
<1>0. Patience \in Nat \ {0} /\ Patience <= Interval /\ (stream = "open" => LookupLimit = Patience)
  BY LimitIsPatience
<1>1. ASSUME NEW n \in Calls, CpLookup(n) \/ CpFails(n) \/ CpAcquire(n)
      PROVE  OnTime'
  BY <1>1 DEF CpLookup, CpFails, CpAcquire, Patience
<1>3. CASE Revoke \/ Reap \/ CpRelease
  BY <1>3 DEF Revoke, Reap, CpRelease, Patience
<1>4. CASE Admitted \/ Renewed
  BY <1>0, <1>4 DEF Admitted, Renewed
<1>5. CASE Refused \/ NotRenewed \/ LeaseTimer \/ Ends \/ releaseStream
  BY <1>5 DEF Refused, NotRenewed, LeaseTimer, Ends, releaseStream, Cancel
<1>6. CASE Revalidate
  BY <1>0, <1>6 DEF Revalidate, Calls
<1>7. CASE GatewayTick
  BY <1>0, <1>7 DEF GatewayTick, Due
<1>8. CASE UNCHANGED gatewayVars
  BY <1>8 DEF gatewayVars
<1> QED
  BY <1>1, <1>3, <1>4, <1>5, <1>6, <1>7, <1>8 DEF GatewayNext

\* After a revocation the renewal in progress is the last one that can succeed.
LEMMA RevocationSeenStep ==
  ASSUME GatewayAssumption, GatewayInv, [GatewayNext]_gatewayVars
  PROVE  RevocationSeen'
<1> USE DEF GatewayInv, GatewayTypes, RevocationSeen, Since, cpVars, gwVars, GatewayAssumption
<1>1. ASSUME NEW n \in Calls, CpLookup(n) \/ CpFails(n) \/ CpAcquire(n)
      PROVE  RevocationSeen'
  BY <1>1 DEF CpLookup, CpFails, CpAcquire
<1>2. CASE Revoke
  BY <1>2 DEF Revoke, OnTime, Never
<1>3. CASE Reap \/ CpRelease
  BY <1>3 DEF Reap, CpRelease
<1>4. CASE Admitted
  BY <1>4 DEF Admitted, Never
<1>5. CASE Renewed
  BY <1>5 DEF Renewed, OnTime, Good, Never
<1>6. CASE Refused \/ NotRenewed \/ LeaseTimer \/ Ends \/ releaseStream
  BY <1>6 DEF Refused, NotRenewed, LeaseTimer, Ends, releaseStream, Cancel
<1>7. CASE Revalidate
  BY <1>7 DEF Revalidate, OnTime, Sent, Calls, Never
<1>8. CASE GatewayTick
  BY <1>8 DEF GatewayTick
<1>9. CASE UNCHANGED gatewayVars
  BY <1>9 DEF gatewayVars
<1> QED
  BY <1>1, <1>2, <1>3, <1>4, <1>5, <1>6, <1>7, <1>8, <1>9 DEF GatewayNext

\* The invariant covers an open stream by its lease, and bounds a revoked one.
LEMMA GatewaySafe ==
  ASSUME GatewayAssumption, GatewayInv
  PROVE  OpenHasLease
<1> USE DEF GatewayInv, GatewayTypes
<1>1. TimerWithinLease
  BY DEF LeasePromised, Promised, TimerWithinLease
<1>2. ASSUME stream = "open", revokedAt # Never
      PROVE  now <= Max({revokedAt, openedAt}) + Interval + Min({Timeout, Interval})
  <2>1. Max({revokedAt, openedAt}) = Since /\ Min({Timeout, Interval}) = Patience
    <3>1. PICK a \in Int, b \in Int : a = revokedAt /\ b = openedAt
      BY DEF Never
    <3>2. Max({a, b}) = IF a >= b THEN a ELSE b
      BY MinMaxOfTwo
    <3>3. Min({Timeout, Interval}) = Patience
      BY MinMaxOfTwo DEF Patience, GatewayAssumption
    <3> QED
      BY <3>1, <3>2, <3>3 DEF Since
  <2>2. Since \in Int /\ Patience \in Nat \ {0}
    BY LimitIsPatience DEF Since, Never
  <2>3. now <= Since + Interval + Patience
    BY <1>2, <2>2 DEF OnTime, RevocationSeen, GatewayAssumption
  <2> QED
    BY <2>1, <2>3
<1> QED
  BY <1>1, <1>2 DEF OpenHasLease, RevokedEnds

\* An open stream is covered by a lease until its timer fires, and a revoked one ends in
\* time, for any lease, renewal interval and timeout (gateway/proxy.go).
THEOREM OpenStreamsHaveLeases ==
  ASSUME GatewayAssumption
  PROVE  GatewaySpec => []OpenHasLease
<1>1. GatewayInit => GatewayInv
  BY GatewayInitInv
<1>2. GatewayInv /\ [GatewayNext]_gatewayVars => GatewayInv'
  BY GatewayTypesStep, LeasePromisedStep, OnTimeStep, RevocationSeenStep DEF GatewayInv
<1>3. GatewayInv => OpenHasLease
  BY GatewaySafe
<1> QED
  BY <1>1, <1>2, <1>3, PTL DEF GatewaySpec

-----------------------------------------------------------------------------
(* The gateway's REST traffic: readiness probes and rate slots. *)

Served == {"proxy", "ready", "parked", "probe", "leave"}

RestTypes ==
  /\ clock \in Nat
  /\ slots \in [RateSlots -> [started : Nat, count : Nat]]
  /\ at \in [RestRequests -> Nat] /\ verdict \in [RestRequests -> {"none", "allowed", "refused"}]
  /\ pc \in [RestRequests -> Served \cup {"new", "rate", "acquire", "done"}]
  /\ total \in Nat /\ byPeer \in [Peers -> Nat] /\ inFlight \in BOOLEAN

\* The flight is marked while there is a probe, which is then the only one.
Probing == {r \in RestRequests : pc[r] = "probe"}
Flight == IF inFlight THEN \E r \in RestRequests : Probing = {r} ELSE Probing = {}

HoldingOf(s) == {r \in Holding : Source[r] = s}

\* A slot counts requests that it let through within its window, and a request is
\* judged once.
JudgedOnce == \A r \in RestRequests : pc[r] \in {"new", "rate"} => verdict[r] = "none"
InWindow(k) ==
  {q \in RestRequests : /\ verdict[q] = "allowed" /\ RateSlot[Source[q]] = k
                        /\ slots[k].started <= at[q] /\ at[q] < slots[k].started + Window}
SlotsCount == \A k \in RateSlots : slots[k].count <= Cardinality(InWindow(k))

\* A request has read the clock, which starts at 1, once it arrived; a slot's window
\* starts at a reading it judged; and while it has judged requests of one window only,
\* that is the earliest reading, and the slot counts all it let through that read it.
ClockRead == clock >= 1 /\ \A r \in RestRequests : pc[r] # "new" => at[r] >= 1
SlotStarts ==
  \A k \in RateSlots : slots[k].started # 0 => \E q \in Judged(k) : at[q] = slots[k].started
OneWindow(k, t) == \A q \in Judged(k) : t <= at[q] /\ at[q] < t + Window
EarliestCounted ==
  \A k \in RateSlots : \A q \in Judged(k) :
    OneWindow(k, at[q]) =>
      /\ slots[k].started = at[q] /\ slots[k].count <= RestLimit
      /\ Cardinality(ReadAt(k, at[q])) <= slots[k].count
RateInv == ClockRead /\ SlotStarts /\ EarliestCounted

RestInv ==
  /\ RestTypes /\ Flight /\ CountsServed /\ JudgedOnce /\ SlotsCount /\ RefusedForTraffic
  /\ RateInv

-----------------------------------------------------------------------------
\* Sets of requests are finite, and a larger one has no fewer.
LEMMA RequestSets ==
  ASSUME RestAssumption, NEW S \in SUBSET RestRequests
  PROVE  /\ IsFiniteSet(S) /\ Cardinality(S) \in Nat
         /\ \A R \in SUBSET S : Cardinality(R) <= Cardinality(S)
BY FS_Subset, FS_CardinalityType DEF RestAssumption

\* A request counts at a known peer and in a known slot.
LEMMA WhereRequestsCount ==
  ASSUME RestAssumption, NEW r \in RestRequests
  PROVE  Source[r] \in Peers /\ RateSlot[Source[r]] \in RateSlots
BY DEF RestAssumption, Peers, RateSlots, Range

\* The numbers of the assumption, one by one.
LEMMA RestConstants ==
  ASSUME RestAssumption
  PROVE  /\ RestLimit \in Nat \ {0} /\ Window \in Nat \ {0} /\ MaxActive \in Nat \ {0}
         /\ MaxPerSource \in Nat \ {0} /\ CacheTTL \in Nat \ {0}
BY DEF RestAssumption

\* Nothing is served or counted at first.
LEMMA RestInitInv ==
  ASSUME RestAssumption, RestInit
  PROVE  RestInv
<1>0. Cardinality({}) = 0
  BY FS_EmptySet
<1>1. RestTypes /\ JudgedOnce
  BY DEF RestInit, RestTypes, JudgedOnce, Zero
<1>2. Flight
  BY DEF RestInit, Flight, Probing
<1>3. Holding = {} /\ \A s \in Peers : {r \in Holding : Source[r] = s} = {}
  BY DEF RestInit, Holding
<1>4. CountsServed
  BY <1>0, <1>3, RestConstants DEF RestInit, CountsServed
<1>5. \A k \in RateSlots : slots[k].count = 0 /\ Cardinality(InWindow(k)) \in Nat
  BY RequestSets DEF RestInit, Zero, InWindow
<1>6. SlotsCount /\ RefusedForTraffic
  BY <1>5 DEF RestInit, SlotsCount, RefusedForTraffic
<1>7. RateInv
  BY DEF RestInit, RateInv, ClockRead, SlotStarts, EarliestCounted, Judged, Zero
<1> QED
  BY <1>1, <1>2, <1>4, <1>6, <1>7 DEF RestInv

\* Every step keeps the types; a release finds what it gives back.
LEMMA RestTypesStep ==
  ASSUME RestAssumption, RestInv, [RestNext]_restVars
  PROVE  RestTypes' /\ JudgedOnce'
<1> USE DEF RestInv, RestTypes, JudgedOnce, worldVars, rateVars, activeVars, cacheVars, Served
<1>1. CASE RestTick \/ Turns \/ UNCHANGED restVars
  BY <1>1 DEF RestTick, Turns, restVars
<1>2. ASSUME NEW r \in RestRequests, Arrive(r) \/ Leaves(r)
      PROVE  RestTypes' /\ JudgedOnce'
  BY <1>2 DEF Arrive, Leaves, Go
<1>3. ASSUME NEW r \in RestRequests, allow(r)
      PROVE  RestTypes' /\ JudgedOnce'
  <2> DEFINE k == RateSlot[Source[r]]
  <2>1. k \in RateSlots
    BY WhereRequestsCount
  <2>2. CountedIn(slots[k], at[r]) \in [started : Nat, count : Nat]
    BY <2>1 DEF CountedIn
  <2>3. slots' \in [RateSlots -> [started : Nat, count : Nat]]
    BY <1>3, <2>1, <2>2 DEF allow
  <2>4. /\ verdict' \in [RestRequests -> {"none", "allowed", "refused"}]
        /\ pc' \in [RestRequests -> Served \cup {"new", "rate", "acquire", "done"}]
    BY <1>3 DEF allow, Go
  <2>5. JudgedOnce'
    BY <1>3 DEF allow, Go
  <2> QED
    BY <1>3, <2>3, <2>4, <2>5 DEF allow
<1>4. ASSUME NEW r \in RestRequests, acquire(r)
      PROVE  RestTypes' /\ JudgedOnce'
  BY <1>4, WhereRequestsCount DEF acquire, Go
<1>5. ASSUME NEW r \in RestRequests, release(r)
      PROVE  RestTypes' /\ JudgedOnce'
  <2>1. r \in Holding /\ r \in HoldingOf(Source[r])
    BY <1>5 DEF release, Holding, HoldingOf
  <2>2. Holding # {} /\ HoldingOf(Source[r]) # {}
    BY <2>1
  <2>3. total # 0 /\ byPeer[Source[r]] # 0
    <3>1. IsFiniteSet(Holding) /\ IsFiniteSet(HoldingOf(Source[r]))
      BY RequestSets DEF Holding, HoldingOf
    <3> QED
      BY <2>2, <3>1, FS_EmptySet, WhereRequestsCount DEF CountsServed, HoldingOf
  <2>4. total - 1 \in Nat /\ byPeer[Source[r]] - 1 \in Nat
    BY <2>3, WhereRequestsCount
  <2> QED
    BY <1>5, <2>4, WhereRequestsCount DEF release, Go
<1>6. ASSUME NEW r \in RestRequests, get(r) \/ Probed(r) \/ Panics(r) \/ GivesUp(r)
      PROVE  RestTypes' /\ JudgedOnce'
  BY <1>6 DEF get, Probed, Panics, GivesUp, Go, Land
<1> QED
  BY <1>1, <1>2, <1>3, <1>4, <1>5, <1>6 DEF RestNext

\* Only the request that marked the flight probes, and it clears the mark, also by a panic.
LEMMA FlightStep ==
  ASSUME RestAssumption, RestInv, [RestNext]_restVars
  PROVE  Flight'
<1> USE DEF RestInv, RestTypes, worldVars, rateVars, activeVars, cacheVars, Served
<1>1. ASSUME \/ RestTick \/ Turns \/ UNCHANGED restVars
             \/ \E r \in RestRequests : \/ Arrive(r) \/ allow(r) \/ acquire(r) \/ release(r) \/ Leaves(r) \/ GivesUp(r)
      PROVE  Flight'
  <2>1. inFlight' = inFlight /\ Probing' = Probing
    BY <1>1 DEF RestTick, Turns, restVars, Arrive, allow, acquire, release, Leaves, GivesUp, Go, Probing
  <2> QED
    BY <2>1 DEF Flight
<1>2. ASSUME NEW r \in RestRequests, get(r)
      PROVE  Flight'
  <2>1. CASE inFlight' = inFlight /\ Probing' = Probing
    BY <2>1 DEF Flight
  <2>2. CASE ~(inFlight' = inFlight /\ Probing' = Probing)
    <3>1. ~inFlight /\ inFlight' = TRUE /\ pc' = [pc EXCEPT ![r] = "probe"]
      BY <1>2, <2>2 DEF get, Go, Probing
    <3>2. Probing' = {r}
      BY <3>1 DEF Flight, Probing
    <3> QED
      BY <3>1, <3>2 DEF Flight
  <2> QED
    BY <2>1, <2>2
<1>3. ASSUME NEW r \in RestRequests, Probed(r) \/ Panics(r)
      PROVE  Flight'
  <2>1. r \in Probing
    BY <1>3 DEF Probed, Panics, Probing
  <2>2. Probing = {r}
    BY <2>1 DEF Flight
  <2>3. Probing' = {}
    BY <1>3, <2>2 DEF Probed, Panics, Land, Probing
  <2> QED
    BY <1>3, <2>3 DEF Probed, Panics, Flight
<1> QED
  BY <1>1, <1>2, <1>3 DEF RestNext

\* What is counted as active is what is being served, step by step.
LEMMA CountsStep ==
  ASSUME RestAssumption, RestInv, [RestNext]_restVars
  PROVE  CountsServed'
<1> USE DEF RestInv, RestTypes, worldVars, rateVars, activeVars, cacheVars, Served
<1>1. ASSUME \/ RestTick \/ Turns \/ UNCHANGED restVars
             \/ \E r \in RestRequests : \/ Arrive(r) \/ allow(r) \/ Leaves(r) \/ get(r)
                                        \/ Probed(r) \/ Panics(r) \/ GivesUp(r)
      PROVE  CountsServed'
  <2>1. UNCHANGED activeVars /\ Holding' = Holding
    BY <1>1 DEF RestTick, Turns, restVars, Arrive, allow, Leaves, get, Probed, Panics, GivesUp, Go, Land, Holding
  <2> QED
    BY <2>1 DEF CountsServed
<1>2. ASSUME NEW r \in RestRequests, acquire(r)
      PROVE  CountsServed'
  <2> DEFINE s == Source[r]
  <2>1. CASE total >= MaxActive \/ byPeer[s] >= MaxPerSource
    <3>1. UNCHANGED activeVars /\ Holding' = Holding
      BY <1>2, <2>1 DEF acquire, Go, Holding
    <3> QED
      BY <3>1 DEF CountsServed
  <2>2. CASE ~(total >= MaxActive \/ byPeer[s] >= MaxPerSource)
    <3>1. /\ total' = total + 1 /\ byPeer' = [byPeer EXCEPT ![s] = byPeer[s] + 1]
          /\ Holding' = Holding \cup {r} /\ r \notin Holding
      BY <1>2, <2>2 DEF acquire, Go, Holding
    <3>2. /\ HoldingOf(s)' = HoldingOf(s) \cup {r} /\ r \notin HoldingOf(s)
          /\ \A u \in Peers \ {s} : HoldingOf(u)' = HoldingOf(u)
      BY <3>1 DEF HoldingOf
    <3>3. IsFiniteSet(Holding) /\ IsFiniteSet(HoldingOf(s))
      BY RequestSets DEF Holding, HoldingOf
    <3>4. /\ Cardinality(Holding') = Cardinality(Holding) + 1
          /\ Cardinality(HoldingOf(s)') = Cardinality(HoldingOf(s)) + 1
      BY <3>1, <3>2, <3>3, FS_AddElement
    <3>5. s \in Peers
      BY WhereRequestsCount
    <3>6. total' = Cardinality(Holding') /\ total' <= MaxActive
      BY <3>1, <3>4, <2>2, RestConstants DEF CountsServed
    <3>7. \A u \in Peers : byPeer'[u] = Cardinality(HoldingOf(u)') /\ byPeer'[u] <= MaxPerSource
      <4>1. \A u \in Peers : byPeer[u] = Cardinality(HoldingOf(u)) /\ byPeer[u] <= MaxPerSource
        BY DEF CountsServed, HoldingOf
      <4>2. \A u \in Peers \ {s} : byPeer'[u] = byPeer[u]
        BY <3>1
      <4>3. byPeer'[s] = Cardinality(HoldingOf(s)') /\ byPeer'[s] <= MaxPerSource
        BY <3>1, <3>2, <3>4, <3>5, <2>2, <4>1, RestConstants
      <4> QED
        BY <3>2, <4>1, <4>2, <4>3
    <3> QED
      BY <3>6, <3>7 DEF CountsServed, HoldingOf
  <2> QED
    BY <2>1, <2>2
<1>3. ASSUME NEW r \in RestRequests, release(r)
      PROVE  CountsServed'
  <2> DEFINE s == Source[r]
  <2>1. /\ total' = total - 1 /\ byPeer' = [byPeer EXCEPT ![s] = byPeer[s] - 1]
        /\ Holding' = Holding \ {r} /\ r \in Holding
    BY <1>3 DEF release, Go, Holding
  <2>2. /\ HoldingOf(s)' = HoldingOf(s) \ {r} /\ r \in HoldingOf(s)
        /\ \A u \in Peers \ {s} : HoldingOf(u)' = HoldingOf(u)
    BY <2>1 DEF HoldingOf
  <2>3. IsFiniteSet(Holding) /\ IsFiniteSet(HoldingOf(s))
    BY RequestSets DEF Holding, HoldingOf
  <2>4. /\ Cardinality(Holding \ {r}) = Cardinality(Holding) - 1
        /\ Cardinality(HoldingOf(s) \ {r}) = Cardinality(HoldingOf(s)) - 1
    BY <2>1, <2>2, <2>3, FS_RemoveElement
  <2>5. s \in Peers
    BY WhereRequestsCount
  <2>6. total' = Cardinality(Holding') /\ total' <= MaxActive
    BY <2>1, <2>4, RestConstants DEF CountsServed
  <2>7. \A u \in Peers : byPeer'[u] = Cardinality(HoldingOf(u)') /\ byPeer'[u] <= MaxPerSource
    <3>1. \A u \in Peers : byPeer[u] = Cardinality(HoldingOf(u)) /\ byPeer[u] <= MaxPerSource
      BY DEF CountsServed, HoldingOf
    <3>2. \A u \in Peers \ {s} : byPeer'[u] = byPeer[u]
      BY <2>1
    <3>3. byPeer'[s] = Cardinality(HoldingOf(s)') /\ byPeer'[s] <= MaxPerSource
      BY <2>1, <2>2, <2>4, <2>5, <3>1, RestConstants
    <3> QED
      BY <2>2, <3>1, <3>2, <3>3
  <2> QED
    BY <2>6, <2>7 DEF CountsServed, HoldingOf
<1> QED
  BY <1>1, <1>2, <1>3 DEF RestNext

\* Nobody is judged: what slots count and what a refusal rests on stays as it is.
LEMMA RateRests ==
  ASSUME SlotsCount, RefusedForTraffic, UNCHANGED <<slots, verdict>>,
         \A r \in RestRequests : verdict[r] # "none" => at'[r] = at[r]
  PROVE  SlotsCount' /\ RefusedForTraffic'
<1>1. \A k \in RateSlots : InWindow(k)' = InWindow(k)
  BY DEF InWindow
<1>2. SlotsCount'
  BY <1>1 DEF SlotsCount
<1> DEFINE Near(r) == {q \in RestRequests : /\ verdict[q] = "allowed" /\ RateSlot[Source[q]] = RateSlot[Source[r]]
                                            /\ at[q] < at[r] + Window /\ at[r] < at[q] + Window}
<1>3. \A r \in RestRequests : verdict[r] = "refused" => Near(r)' = Near(r)
  OBVIOUS
<1>4. RefusedForTraffic'
  BY <1>3 DEF RefusedForTraffic
<1> QED
  BY <1>2, <1>4

\* A slot that refuses has let its limit through within the window.
LEMMA AllowStep ==
  ASSUME RestAssumption, RestInv, NEW r \in RestRequests, allow(r)
  PROVE  SlotsCount' /\ RefusedForTraffic'
<1> USE DEF RestInv, RestTypes
<1> DEFINE k == RateSlot[Source[r]]
           Near(x) == {q \in RestRequests : /\ verdict[q] = "allowed" /\ RateSlot[Source[q]] = RateSlot[Source[x]]
                                            /\ at[q] < at[x] + Window /\ at[x] < at[q] + Window}
<1>1. /\ k \in RateSlots /\ slots[k].started \in Nat /\ slots[k].count \in Nat /\ at[r] \in Nat
      /\ verdict[r] = "none"
  BY WhereRequestsCount DEF allow, JudgedOnce
<1>2. /\ slots' = [slots EXCEPT ![k] = CountedIn(slots[k], at[r])] /\ at' = at
      /\ verdict' = [verdict EXCEPT ![r] = IF Allowed(slots[k], at[r]) THEN "allowed" ELSE "refused"]
  BY DEF allow
<1>3. \A x \in RestRequests : Near(x) \subseteq Near(x)'
  BY <1>1, <1>2
<1>4. ASSUME NEW j \in RateSlots, j # k
      PROVE  slots'[j].count <= Cardinality(InWindow(j)')
  <2>1. InWindow(j)' = InWindow(j) /\ slots'[j] = slots[j]
    BY <1>2, <1>4 DEF InWindow
  <2> QED
    BY <2>1 DEF SlotsCount
<1>5. CASE ~Allowed(slots[k], at[r])
  <2>1. slots'[k] = slots[k]
    BY <1>1, <1>2, <1>5 DEF Allowed, CountedIn
  <2>2. InWindow(k)' = InWindow(k)
    BY <1>1, <1>2, <1>5, <2>1 DEF InWindow
  <2>3. SlotsCount'
    BY <1>4, <2>1, <2>2 DEF SlotsCount
  <2>4. InWindow(k) \subseteq Near(r)'
    BY <1>1, <1>2, <1>5, RestConstants DEF InWindow, Allowed, NewWindow
  <2>5. Cardinality(InWindow(k)) >= RestLimit
    <3>1. Cardinality(InWindow(k)) \in Nat
      BY RequestSets DEF InWindow
    <3> QED
      BY <1>1, <1>5, <3>1, RestConstants DEF SlotsCount, Allowed
  <2>6. Cardinality(Near(r)') >= RestLimit
    <3>1. Near(r)' \in SUBSET RestRequests /\ InWindow(k) \in SUBSET RestRequests
      BY DEF InWindow
    <3>2. Cardinality(Near(r)') \in Nat /\ Cardinality(InWindow(k)) \in Nat /\ Cardinality(InWindow(k)) <= Cardinality(Near(r)')
      BY <2>4, <3>1, RequestSets
    <3> QED
      BY <2>5, <3>2, RestConstants
  <2>7. ASSUME NEW x \in RestRequests, verdict'[x] = "refused"
        PROVE  Cardinality(Near(x)') >= RestLimit
    <3>1. CASE x = r
      BY <2>6, <3>1
    <3>2. CASE x # r
      <4>1. Cardinality(Near(x)) >= RestLimit
        BY <1>2, <2>7, <3>2 DEF RefusedForTraffic
      <4>2. Cardinality(Near(x)') \in Nat /\ Cardinality(Near(x)) \in Nat /\ Cardinality(Near(x)) <= Cardinality(Near(x)')
        BY <1>3, Near(x)' \in SUBSET RestRequests, Near(x) \in SUBSET RestRequests, RequestSets
      <4> QED
        BY <4>1, <4>2, RestConstants
    <3> QED
      BY <3>1, <3>2
  <2> QED
    BY <2>3, <2>7 DEF RefusedForTraffic
<1>6. CASE Allowed(slots[k], at[r])
  <2>1. ASSUME NEW x \in RestRequests, verdict'[x] = "refused"
        PROVE  Cardinality(Near(x)') >= RestLimit
    <3>1. Cardinality(Near(x)) >= RestLimit
      BY <1>2, <1>6, <2>1 DEF RefusedForTraffic
    <3>2. Cardinality(Near(x)') \in Nat /\ Cardinality(Near(x)) \in Nat /\ Cardinality(Near(x)) <= Cardinality(Near(x)')
      BY <1>3, Near(x)' \in SUBSET RestRequests, Near(x) \in SUBSET RestRequests, RequestSets
    <3> QED
      BY <3>1, <3>2, RestConstants
  <2>2. CASE NewWindow(slots[k], at[r])
    <3>1. slots'[k] = [started |-> at[r], count |-> 1]
      BY <1>1, <1>2, <2>2 DEF CountedIn
    <3>2. r \in InWindow(k)'
      BY <1>1, <1>2, <1>6, <3>1, RestConstants DEF InWindow
    <3>3. InWindow(k)' # {} /\ InWindow(k)' \in SUBSET RestRequests
      BY <3>2 DEF InWindow
    <3>4. Cardinality(InWindow(k)') \in Nat /\ Cardinality(InWindow(k)') # 0
      BY <3>3, RequestSets, FS_EmptySet
    <3>5. slots'[k].count <= Cardinality(InWindow(k)')
      BY <3>1, <3>4
    <3> QED
      BY <1>4, <2>1, <3>5 DEF SlotsCount, RefusedForTraffic
  <2>3. CASE ~NewWindow(slots[k], at[r])
    <3>1. slots'[k] = [slots[k] EXCEPT !.count = slots[k].count + 1]
      BY <1>1, <1>2, <1>6, <2>3 DEF CountedIn, Allowed
    <3>2. slots'[k].started = slots[k].started /\ slots'[k].count = slots[k].count + 1
      BY <1>1, <3>1
    <3>3. InWindow(k)' = InWindow(k) \cup {r} /\ r \notin InWindow(k)
      <4>1. slots[k].started <= at[r] /\ at[r] < slots[k].started + Window
        BY <1>1, <2>3, RestConstants DEF NewWindow
      <4>2. verdict'[r] = "allowed" /\ \A q \in RestRequests \ {r} : verdict'[q] = verdict[q]
        BY <1>2, <1>6
      <4> QED
        BY <1>1, <1>2, <3>2, <4>1, <4>2 DEF InWindow
    <3>4. IsFiniteSet(InWindow(k)) /\ Cardinality(InWindow(k)) \in Nat
      BY RequestSets DEF InWindow
    <3>5. Cardinality(InWindow(k)') = Cardinality(InWindow(k)) + 1
      BY <3>3, <3>4, FS_AddElement
    <3>6. slots'[k].count <= Cardinality(InWindow(k)')
      BY <1>1, <3>2, <3>4, <3>5 DEF SlotsCount
    <3> QED
      BY <1>4, <2>1, <3>6 DEF SlotsCount, RefusedForTraffic
  <2> QED
    BY <2>2, <2>3
<1> QED
  BY <1>5, <1>6

\* Only allow judges a request.
LEMMA RateStepInv ==
  ASSUME RestAssumption, RestInv, [RestNext]_restVars
  PROVE  SlotsCount' /\ RefusedForTraffic'
<1> USE DEF RestInv, RestTypes, worldVars, rateVars
<1>1. ASSUME \/ RestTick \/ Turns \/ UNCHANGED restVars
             \/ \E r \in RestRequests : \/ Arrive(r) \/ acquire(r) \/ release(r) \/ Leaves(r) \/ get(r)
                                        \/ Probed(r) \/ Panics(r) \/ GivesUp(r)
      PROVE  SlotsCount' /\ RefusedForTraffic'
  <2>1. /\ UNCHANGED <<slots, verdict>>
        /\ \A r \in RestRequests : verdict[r] # "none" => at'[r] = at[r]
    BY <1>1 DEF RestTick, Turns, restVars, Arrive, acquire, release, Leaves, get, Probed, Panics, GivesUp, JudgedOnce
  <2> QED
    BY <2>1, RateRests
<1> QED
  BY <1>1, AllowStep DEF RestNext

\* The clock only goes on, and is read once.
LEMMA ClockReadStep ==
  ASSUME RestAssumption, RestInv, [RestNext]_restVars
  PROVE  ClockRead'
<1> USE DEF RestInv, RestTypes, RateInv, ClockRead, worldVars, rateVars, Go
<1>1. CASE RestTick \/ Turns \/ UNCHANGED restVars
  BY <1>1 DEF RestTick, Turns, restVars
<1>2. ASSUME NEW r \in RestRequests,
             \/ Arrive(r) \/ Leaves(r) \/ acquire(r) \/ release(r) \/ get(r)
             \/ Panics(r) \/ Probed(r) \/ GivesUp(r)
      PROVE  ClockRead'
  BY <1>2 DEF Arrive, Leaves, acquire, release, get, Panics, Probed, GivesUp, Land
<1>3. ASSUME NEW r \in RestRequests, allow(r)
      PROVE  ClockRead'
  BY <1>3 DEF allow
<1> QED
  BY <1>1, <1>2, <1>3 DEF RestNext

\* A judgement starts a window, or counts in the one that is open, which then began
\* with the earliest reading.
LEMMA EarliestAllow ==
  ASSUME RestAssumption, RestInv, NEW r \in RestRequests, allow(r)
  PROVE  SlotStarts' /\ EarliestCounted'
<1> USE DEF RestInv, RestTypes, RateInv
<1> DEFINE k == RateSlot[Source[r]]  slot == slots[k]
<1>1. /\ k \in RateSlots /\ slot.started \in Nat /\ slot.count \in Nat /\ at[r] \in Nat
      /\ slot = [started |-> slot.started, count |-> slot.count]
      /\ verdict[r] = "none" /\ at[r] >= 1
  BY WhereRequestsCount DEF allow, JudgedOnce, ClockRead
<1>2. /\ slots' = [slots EXCEPT ![k] = CountedIn(slot, at[r])] /\ at' = at
      /\ verdict' = [verdict EXCEPT ![r] = IF Allowed(slot, at[r]) THEN "allowed" ELSE "refused"]
  BY DEF allow
<1>3. /\ Judged(k)' = Judged(k) \cup {r} /\ r \notin Judged(k)
      /\ \A j \in RateSlots \ {k} : Judged(j)' = Judged(j) /\ slots'[j] = slots[j]
  BY <1>1, <1>2 DEF Judged
<1>4. slots'[k] = CountedIn(slot, at[r])
  BY <1>1, <1>2
<1>5. SlotStarts'
  <2>1. ASSUME NEW j \in RateSlots, slots'[j].started # 0
        PROVE  \E q \in Judged(j)' : at'[q] = slots'[j].started
    <3>1. CASE j # k
      BY <1>2, <1>3, <2>1, <3>1 DEF SlotStarts
    <3>2. CASE j = k /\ NewWindow(slot, at[r])
      BY <1>2, <1>3, <1>4, <3>2 DEF CountedIn
    <3>3. CASE j = k /\ ~NewWindow(slot, at[r])
      <4>1. slots'[k].started = slot.started
        BY <1>1, <1>4, <3>3 DEF CountedIn
      <4>2. slot.started # 0
        BY <3>3 DEF NewWindow
      <4>3. PICK q \in Judged(k) : at[q] = slot.started
        BY <1>1, <4>2 DEF SlotStarts
      <4> QED
        BY <1>2, <1>3, <3>3, <4>1, <4>3
    <3> QED
      BY <3>1, <3>2, <3>3
  <2> QED
    BY <2>1 DEF SlotStarts
<1>6. ASSUME NEW j \in RateSlots, j # k, NEW q \in Judged(j)', OneWindow(j, at[q])'
      PROVE  /\ slots'[j].started = at'[q] /\ slots'[j].count <= RestLimit
             /\ Cardinality(ReadAt(j, at[q])') <= slots'[j].count
  <2>1. q \in Judged(j) /\ OneWindow(j, at[q])
    BY <1>2, <1>3, <1>6 DEF OneWindow
  <2>2. ReadAt(j, at[q])' = ReadAt(j, at[q])
    <3>1. \A x \in Judged(j) : x # r
      BY <1>1, <1>6 DEF Judged
    <3> QED
      BY <1>2, <1>3, <1>6, <3>1 DEF ReadAt, Judged
  <2> QED
    BY <1>2, <1>3, <1>6, <2>1, <2>2 DEF EarliestCounted
<1>7. ASSUME NEW q \in Judged(k)', OneWindow(k, at[q])'
      PROVE  /\ slots'[k].started = at'[q] /\ slots'[k].count <= RestLimit
             /\ Cardinality(ReadAt(k, at[q])') <= slots'[k].count
  <2> DEFINE t == at[q]
  <2>0. q \in RestRequests /\ t \in Nat /\ \A x \in Judged(k) : x \in RestRequests /\ x # r /\ at[x] \in Nat
    BY <1>1 DEF Judged
  <2>1. /\ \A x \in Judged(k) : t <= at[x] /\ at[x] < t + Window
        /\ t <= at[r] /\ at[r] < t + Window
    BY <1>2, <1>3, <1>7 DEF OneWindow
  <2>2. CASE \A x \in Judged(k) : at[x] # t
    <3>1. q = r /\ t = at[r]
      BY <1>3, <1>7, <2>2
    <3>2. NewWindow(slot, at[r])
      <4>1. CASE slot.started = 0
        BY <4>1 DEF NewWindow
      <4>2. CASE slot.started # 0
        <5>1. PICK x \in Judged(k) : at[x] = slot.started
          BY <1>1, <4>2 DEF SlotStarts
        <5>2. t < slot.started
          BY <1>1, <2>0, <2>1, <2>2, <5>1
        <5> QED
          BY <3>1, <5>2 DEF NewWindow
      <4> QED
        BY <4>1, <4>2
    <3>3. slots'[k] = [started |-> t, count |-> 1]
      BY <1>4, <3>1, <3>2 DEF CountedIn
    <3>4. ReadAt(k, at[q])' \subseteq {r}
      BY <1>2, <1>3, <2>2 DEF ReadAt
    <3>5. Cardinality({r}) = 1 /\ IsFiniteSet({r})
      BY FS_Singleton
    <3>6. Cardinality(ReadAt(k, at[q])') <= 1
      BY <3>4, <3>5, FS_Subset
    <3> QED
      BY <1>2, <3>3, <3>6, RestConstants
  <2>3. CASE \E x \in Judged(k) : at[x] = t
    <3>1. PICK x \in Judged(k) : at[x] = t
      BY <2>3
    <3>2. /\ slot.started = t /\ slot.count <= RestLimit
          /\ Cardinality(ReadAt(k, t)) <= slot.count
      <4>1. OneWindow(k, at[x])
        BY <2>1, <3>1 DEF OneWindow
      <4> QED
        BY <1>1, <3>1, <4>1 DEF EarliestCounted
    <3>3. t >= 1
      <4>1. pc[x] # "new"
        BY <2>0 DEF Judged, JudgedOnce
      <4> QED
        BY <2>0, <3>1, <4>1 DEF ClockRead
    <3>4. ~NewWindow(slot, at[r])
      BY <1>1, <2>0, <2>1, <3>2, <3>3, RestConstants DEF NewWindow
    <3>5. ReadAt(k, t) \in SUBSET RestRequests /\ ReadAt(k, at[q])' \in SUBSET RestRequests
      BY <1>3, <2>0 DEF ReadAt, Judged
    <3>6. CASE slot.count < RestLimit
      <4>1. slots'[k] = [started |-> t, count |-> slot.count + 1]
        BY <1>1, <1>4, <3>2, <3>4, <3>6 DEF CountedIn
      <4>2. ReadAt(k, at[q])' \subseteq ReadAt(k, t) \cup {r}
        BY <1>2, <1>3 DEF ReadAt
      <4>3. IsFiniteSet(ReadAt(k, t)) /\ Cardinality(ReadAt(k, t)) \in Nat
        BY <3>5, RequestSets
      <4>4. /\ r \notin ReadAt(k, t) /\ IsFiniteSet(ReadAt(k, t) \cup {r})
            /\ Cardinality(ReadAt(k, t) \cup {r}) = Cardinality(ReadAt(k, t)) + 1
        BY <1>3, <4>3, FS_AddElement DEF ReadAt
      <4>5. /\ Cardinality(ReadAt(k, at[q])') \in Nat
            /\ Cardinality(ReadAt(k, at[q])') <= Cardinality(ReadAt(k, t)) + 1
        BY <3>5, <4>2, <4>4, FS_Subset, RequestSets
      <4> QED
        BY <1>1, <1>2, <3>2, <3>6, <4>1, <4>3, <4>5, RestConstants
    <3>7. CASE ~(slot.count < RestLimit)
      <4>1. slots'[k] = slot /\ ~Allowed(slot, at[r])
        BY <1>4, <3>4, <3>7 DEF CountedIn, Allowed
      <4>2. ReadAt(k, at[q])' = ReadAt(k, t)
        BY <1>1, <1>2, <1>3, <4>1 DEF ReadAt, Judged
      <4> QED
        BY <1>2, <3>2, <4>1, <4>2
    <3> QED
      BY <3>6, <3>7
  <2> QED
    BY <2>2, <2>3
<1>8. EarliestCounted'
  BY <1>6, <1>7 DEF EarliestCounted
<1> QED
  BY <1>5, <1>8

\* Only allow changes what slots count.
LEMMA EarliestStep ==
  ASSUME RestAssumption, RestInv, [RestNext]_restVars
  PROVE  SlotStarts' /\ EarliestCounted'
<1> USE DEF RestInv, RestTypes, RateInv, worldVars, rateVars
<1>1. ASSUME \/ RestTick \/ Turns \/ UNCHANGED restVars
             \/ \E r \in RestRequests : \/ Arrive(r) \/ acquire(r) \/ release(r) \/ Leaves(r) \/ get(r)
                                        \/ Probed(r) \/ Panics(r) \/ GivesUp(r)
      PROVE  SlotStarts' /\ EarliestCounted'
  <2>1. /\ UNCHANGED <<slots, verdict>>
        /\ \A r \in RestRequests : verdict[r] # "none" => at'[r] = at[r]
    BY <1>1 DEF RestTick, Turns, restVars, Arrive, acquire, release, Leaves, get, Probed, Panics, GivesUp, JudgedOnce
  <2>2. \A k \in RateSlots : Judged(k)' = Judged(k) /\ \A q \in Judged(k) : at'[q] = at[q]
    BY <2>1 DEF Judged
  <2>3. SlotStarts'
    BY <2>1, <2>2 DEF SlotStarts
  <2>4. ASSUME NEW k \in RateSlots, NEW q \in Judged(k)', OneWindow(k, at[q])'
        PROVE  /\ slots'[k].started = at'[q] /\ slots'[k].count <= RestLimit
               /\ Cardinality(ReadAt(k, at[q])') <= slots'[k].count
    <3>1. q \in Judged(k) /\ OneWindow(k, at[q]) /\ at'[q] = at[q]
      BY <2>2, <2>4 DEF OneWindow
    <3>2. ReadAt(k, at[q])' = ReadAt(k, at[q])
      BY <2>1, <2>2, <3>1 DEF ReadAt
    <3> QED
      BY <2>1, <3>1, <3>2 DEF EarliestCounted
  <2>5. EarliestCounted'
    BY <2>4 DEF EarliestCounted
  <2> QED
    BY <2>3, <2>5
<1> QED
  BY <1>1, EarliestAllow DEF RestNext

\* So a slot lets through at most its limit of the earliest readings of a window.
LEMMA EarliestPass ==
  ASSUME RestAssumption, RestInv
  PROVE  EarliestWithinLimit
<1>1. ASSUME NEW k \in RateSlots, NEW q \in Judged(k), OneWindow(k, at[q])
      PROVE  Cardinality(ReadAt(k, at[q])) <= RestLimit
  <2>1. slots[k].count <= RestLimit /\ Cardinality(ReadAt(k, at[q])) <= slots[k].count
    BY <1>1 DEF RestInv, RateInv, EarliestCounted
  <2>2. Cardinality(ReadAt(k, at[q])) \in Nat
    BY RequestSets, ReadAt(k, at[q]) \in SUBSET RestRequests DEF ReadAt, Judged
  <2>3. slots[k].count \in Nat
    BY DEF RestInv, RestTypes
  <2> QED
    BY <2>1, <2>2, <2>3, RestConstants
<1> QED
  BY <1>1 DEF EarliestWithinLimit, OneWindow

\* Every step keeps the invariant.
LEMMA RestStepInv ==
  ASSUME RestAssumption, RestInv, [RestNext]_restVars
  PROVE  RestInv'
BY RestTypesStep, FlightStep, CountsStep, RateStepInv, ClockReadStep, EarliestStep DEF RestInv, RateInv

\* At most one readiness probe is in flight, also when it panics, and the limiter counts
\* exactly the requests being served, for any number of requests and peers
\* (gateway/readiness_cache.go, gateway/rest_limiter.go).
THEOREM ReadinessSingleFlight ==
  ASSUME RestAssumption
  PROVE  RestSpec => []SingleFlight
<1>1. RestInit => RestInv
  BY RestInitInv
<1>2. RestInv /\ [RestNext]_restVars => RestInv'
  BY RestStepInv
<1>3. RestInv => SingleFlight
  <2> SUFFICES ASSUME RestInv PROVE SingleFlight
    OBVIOUS
  <2>1. CASE inFlight
    <3>1. PICK r \in RestRequests : Probing = {r}
      BY <2>1 DEF RestInv, Flight
    <3>2. Cardinality(Probing) = 1
      BY <3>1, FS_Singleton
    <3> QED
      BY <2>1, <3>2 DEF RestInv, SingleFlight, OneProbe, Probing
  <2>2. CASE ~inFlight
    <3>1. Cardinality(Probing) = 0
      BY <2>2, FS_EmptySet DEF RestInv, Flight
    <3> QED
      BY <2>2, <3>1 DEF RestInv, SingleFlight, OneProbe, Probing
  <2> QED
    BY <2>1, <2>2
<1> QED
  BY <1>1, <1>2, <1>3, PTL DEF RestSpec

-----------------------------------------------------------------------------
(* The request pipeline: admission windows, audit trail, device logins. *)

Phases == {"idle", "pre", "verify", "post", "record", "handler", "capture", "operation", "completed", "failed",
           "200", "401", "403", "429", "500", "503", "unavailable"}
Outcomes == {None, "limited", "unauthorized", "busy", "post_limited", "succeeded", "forbidden"}
ApiRequest == [pc : Phases, t : Traffic \cup {NoTraffic}, at : Windows, outcome : Outcomes]

PipelineTypes ==
  /\ win \in Windows
  /\ rows \in [Buckets -> [win : Windows, count : Nat]]
  /\ admitted \in [Buckets -> [Windows -> Nat]]
  /\ req \in [Requests -> ApiRequest]
  /\ \A q \in Requests : req[q].pc # "idle" => req[q].t \in Traffic
  /\ attempts \in [Slots -> [win : Windows, succeeded : Nat, denied : Nat]]

\* The pcs of a request whose operation may have begun.
Operating == {"operation", "completed", "failed"}
Trail ==
  \A q \in Requests :
    /\ req[q].pc \in Operating => <<q, "requested">> \in events
    /\ <<q, "requested">> \in events => req[q].pc \in Operating \cup {"200", "500", "503"}

\* What a row has admitted in its window it has counted; later windows are untouched.
RowsCount ==
  \A b \in Buckets :
    /\ admitted[b][rows[b].win] <= rows[b].count
    /\ \A w \in Windows : w > rows[b].win => admitted[b][w] = 0

\* Requests that were counted by a bucket before authentication; only those are in its row.
PreScopes == {"preauth_ip", "preauth_credential", "preauth_api_key"}
Charged(b) == {q \in Requests : req[q].pc \notin {"idle", "pre"} /\ b \in preAuthBuckets(req[q].t)}
RowsCharged == \A b \in Buckets : b[1] \in PreScopes => rows[b].count <= Cardinality(Charged(b))
RefusedCharged ==
  \A q \in Requests : req[q].outcome = "limited" =>
    /\ req[q].pc \notin {"idle", "pre"}
    /\ \E b \in preAuthBuckets(req[q].t) : Cardinality(Charged(b)) > Limit[b[1]]

\* A login has read the clock at or before now; while a window may still be counted in,
\* its rows have counted every login that was issued in it.
LoginTypes ==
  /\ login \in [Logins -> [pc : {"idle", "limit", "issued", "refused"}, src : Sources \cup {None}, at : Windows]]
  /\ logins \in [LoginKeys -> [Windows -> Nat]]
  /\ \A d \in Logins : login[d].at <= win /\ (login[d].pc # "idle" => login[d].src \in Sources)
IssuedAt(w) == {d \in Logins : login[d].pc = "issued" /\ login[d].at = w}
LoginsCounted ==
  \A w \in Windows : win <= w + Lag =>
    /\ \A s \in Sources : Cardinality(Issued(s, w)) <= logins[s][w]
    /\ Cardinality(IssuedAt(w)) <= logins["global"][w]
LoginsLimited ==
  \A w \in Windows :
    /\ \A s \in Sources : Cardinality(Issued(s, w)) <= LoginLimit
    /\ Cardinality(IssuedAt(w)) <= GlobalLimit

PipelineInv ==
  /\ PipelineTypes /\ LoginTypes
  /\ Trail /\ EffectHasTrail /\ WindowHasEvent
  /\ RowsCount /\ AdmittedPerWindow
  /\ RowsCharged /\ RefusedCharged
  /\ LoginsCounted /\ LoginsLimited

-----------------------------------------------------------------------------
\* Sets of requests are finite, and a larger one has no fewer.
LEMMA SetsOfRequests ==
  ASSUME PipelineAssumption, NEW S \in SUBSET Requests
  PROVE  /\ IsFiniteSet(S) /\ Cardinality(S) \in Nat
         /\ \A R \in SUBSET S : Cardinality(R) <= Cardinality(S)
BY FS_Subset, FS_CardinalityType DEF PipelineAssumption

\* What traffic counts in are buckets.
LEMMA TrafficBuckets ==
  ASSUME NEW t \in Traffic
  PROVE  preAuthBuckets(t) \subseteq Buckets /\ postAuthBuckets(t) \subseteq Buckets
BY DEF Buckets

\* Buckets before and after authentication have different scopes.
LEMMA BucketScopes ==
  ASSUME NEW t
  PROVE  /\ \A b \in preAuthBuckets(t) : b[1] \in PreScopes
         /\ \A b \in postAuthBuckets(t) : b[1] \in {"principal", "organization", "project"}
BY DEF preAuthBuckets, prefixBucket, postAuthBuckets, PreScopes

\* Every bucket has a limit.
LEMMA BucketLimits ==
  ASSUME PipelineAssumption, NEW b \in Buckets
  PROVE  Limit[b[1]] \in Nat
<1>1. PICK t \in Traffic : b \in preAuthBuckets(t) \cup postAuthBuckets(t) \cup UNION {prefixBucket(t, s) : s \in Sources}
  BY DEF Buckets
<1>2. CASE b \in preAuthBuckets(t) \cup postAuthBuckets(t)
  <2>1. b[1] \in PreScopes \cup {"principal", "organization", "project"}
    BY <1>2, BucketScopes
  <2> QED
    BY <2>1 DEF PipelineAssumption, PreScopes
<1>3. CASE b \in UNION {prefixBucket(t, s) : s \in Sources}
  <2>1. b[1] = "preauth_api_key"
    BY <1>3 DEF prefixBucket
  <2> QED
    BY <2>1 DEF PipelineAssumption
<1> QED
  BY <1>1, <1>2, <1>3

\* What Moves changes of a request.
LEMMA MovesFields ==
  ASSUME PipelineTypes, NEW q \in Requests, NEW p \in Phases, Moves(q, p)
  PROVE  /\ req' \in [Requests -> ApiRequest]
         /\ \A r \in Requests \ {q} : req'[r] = req[r]
         /\ req'[q].pc = p /\ req'[q].t = req[q].t /\ req'[q].outcome = req[q].outcome
<1>0. req \in [Requests -> ApiRequest] /\ win \in Windows
  BY DEF PipelineTypes
<1> USE DEF ApiRequest, Phases, Moves
<1>1. req'[q].pc = p /\ req'[q].t = req[q].t /\ req'[q].outcome = req[q].outcome
  BY <1>0
<1>2. req' \in [Requests -> ApiRequest]
  <2> DEFINE moved == [req[q] EXCEPT !.pc = p, !.at = win]
  <2>1. moved \in ApiRequest
    BY <1>0
  <2>2. req' = [req EXCEPT ![q] = moved]
    OBVIOUS
  <2> HIDE DEF moved
  <2> QED
    BY <1>0, <2>1, <2>2
<1>3. \A r \in Requests \ {q} : req'[r] = req[r]
  BY <1>0
<1> QED
  BY <1>1, <1>2, <1>3

\* What Records changes of a request.
LEMMA RecordsFields ==
  ASSUME PipelineTypes, NEW q \in Requests, NEW o \in Outcomes, Records(q, o)
  PROVE  /\ req' \in [Requests -> ApiRequest]
         /\ \A r \in Requests \ {q} : req'[r] = req[r]
         /\ req'[q].pc = "record" /\ req'[q].t = req[q].t /\ req'[q].outcome = o
<1>0. req \in [Requests -> ApiRequest] /\ win \in Windows
  BY DEF PipelineTypes
<1> USE DEF ApiRequest, Phases, Records
<1>1. req'[q].pc = "record" /\ req'[q].t = req[q].t /\ req'[q].outcome = o
  BY <1>0
<1>2. req' \in [Requests -> ApiRequest]
  <2> DEFINE new == [req[q] EXCEPT !.pc = "record", !.at = win, !.outcome = o]
  <2>1. req' = [req EXCEPT ![q] = new]
    BY <1>0
  <2>2. new \in ApiRequest
    BY <1>0
  <2> QED
    BY <1>0, <2>1, <2>2 DEF PipelineTypes
<1>3. \A r \in Requests \ {q} : req'[r] = req[r]
  BY <1>0
<1> QED
  BY <1>1, <1>2, <1>3

\* What an arrival changes of a request.
LEMMA ArriveFields ==
  ASSUME PipelineTypes, NEW q \in Requests, NEW t \in Traffic, arrive(q, t)
  PROVE  /\ req' \in [Requests -> ApiRequest]
         /\ \A r \in Requests \ {q} : req'[r] = req[r]
         /\ req'[q].pc = "pre" /\ req'[q].t = t /\ req'[q].outcome = req[q].outcome
<1>0. req \in [Requests -> ApiRequest] /\ win \in Windows
  BY DEF PipelineTypes
<1> USE DEF ApiRequest, Phases, arrive
<1>1. req'[q].pc = "pre" /\ req'[q].t = t /\ req'[q].outcome = req[q].outcome
  BY <1>0
<1>2. req' \in [Requests -> ApiRequest]
  <2> DEFINE new == [req[q] EXCEPT !.pc = "pre", !.t = t, !.at = win]
  <2>1. req' = [req EXCEPT ![q] = new]
    BY <1>0
  <2>2. new \in ApiRequest
    BY <1>0
  <2> QED
    BY <1>0, <2>1, <2>2 DEF PipelineTypes
<1>3. \A r \in Requests \ {q} : req'[r] = req[r]
  BY <1>0
<1> QED
  BY <1>1, <1>2, <1>3

\* What recordAttempt changes of a request.
LEMMA AttemptFields ==
  ASSUME PipelineTypes, NEW q \in Requests, recordAttempt(q)
  PROVE  /\ req' \in [Requests -> ApiRequest]
         /\ \A r \in Requests \ {q} : req'[r] = req[r]
         /\ req'[q].pc \in {"handler", "429", "401", "403"} /\ req'[q].t = req[q].t
         /\ req'[q].outcome = req[q].outcome
<1> DEFINE a == Answer(req[q].outcome)
<1>0. a \in {"handler", "429", "401", "403"}
  BY DEF Answer
<1> HIDE DEF a
<1>4. req' = [req EXCEPT ![q].pc = a]
  BY DEF recordAttempt, a
<1>5. req \in [Requests -> ApiRequest]
  BY DEF PipelineTypes
<1> USE DEF ApiRequest, Phases
<1>1. req'[q].pc = a /\ req'[q].t = req[q].t /\ req'[q].outcome = req[q].outcome
  BY <1>4, <1>5
<1>2. req' \in [Requests -> ApiRequest]
  <2> DEFINE new == [req[q] EXCEPT !.pc = a]
  <2>1. req' = [req EXCEPT ![q] = new]
    BY <1>4, <1>5
  <2>2. new \in ApiRequest
    BY <1>0, <1>5
  <2> QED
    BY <1>5, <2>1, <2>2 DEF PipelineTypes
<1>3. \A r \in Requests \ {q} : req'[r] = req[r]
  BY <1>4, <1>5
<1> QED
  BY <1>0, <1>1, <1>2, <1>3

\* What a step of one request does to the requests.
LEMMA HandleFrame ==
  ASSUME PipelineTypes, NEW q \in Requests, handle(q)
  PROVE  /\ req' \in [Requests -> ApiRequest]
         /\ \A r \in Requests \ {q} : req'[r] = req[r]
         /\ req[q].pc # "idle" => req'[q].t = req[q].t
         /\ req'[q].pc # "idle" /\ req'[q].t \in Traffic
         /\ req[q].pc \notin {"idle", "pre"} => req'[q].pc \notin {"idle", "pre"}
         /\ UNCHANGED <<win, login, logins>>
<1>0. UNCHANGED <<win, login, logins>>
  BY DEF handle, arrive, preAuthenticate, authenticateRawIdentity, admitIdentity, ApiAdmissionUnavailable,
     recordAttempt, recordFails, permits, capture, operation, completed, failed
<1>1. CASE \E t \in Traffic : arrive(q, t)
  <2>1. PICK t \in Traffic : arrive(q, t)
    BY <1>1
  <2> QED
    BY <2>1, <1>0, ArriveFields DEF arrive, At
<1>2. CASE recordAttempt(q)
  BY <1>2, <1>0, AttemptFields DEF recordAttempt, At, PipelineTypes
<1>3. CASE ~recordAttempt(q) /\ ~\E t \in Traffic : arrive(q, t)
  <2>1. \/ \E p \in Phases \ {"idle", "pre"} : Moves(q, p)
        \/ \E o \in Outcomes : Records(q, o)
    BY <1>3 DEF handle, preAuthenticate, authenticateRawIdentity, admitIdentity, ApiAdmissionUnavailable,
       recordFails, permits, capture, operation, completed, failed, Phases, Outcomes
  <2>2. req[q].pc # "idle"
    BY <1>3 DEF handle, preAuthenticate, authenticateRawIdentity, admitIdentity, ApiAdmissionUnavailable,
       recordFails, permits, capture, operation, completed, failed, At
  <2>3. CASE \E p \in Phases \ {"idle", "pre"} : Moves(q, p)
    BY <1>0, <2>2, <2>3, MovesFields DEF PipelineTypes
  <2>4. CASE \E o \in Outcomes : Records(q, o)
    BY <1>0, <2>2, <2>4, RecordsFields DEF PipelineTypes
  <2> QED
    BY <2>1, <2>3, <2>4
<1> QED
  BY <1>1, <1>2, <1>3

\* A statement on a row never moves it back, and counts in the window it leaves it in.
LEMMA Bump ==
  ASSUME NEW r \in [win : Windows, count : Nat], NEW stamp \in Windows
  PROVE  /\ bump(r, stamp) \in [win : Windows, count : Nat]
         /\ bump(r, stamp).win >= r.win
         /\ bump(r, stamp).win = r.win => bump(r, stamp).count = r.count + 1
         /\ bump(r, stamp).win # r.win => bump(r, stamp).win > r.win /\ bump(r, stamp).count = 1
         /\ bump(r, stamp).count >= 1 /\ bump(r, stamp).count <= r.count + 1
BY DEF bump, Windows

\* One statement on several rows keeps every bucket within its limit, however old its timestamp.
LEMMA Consume ==
  ASSUME PipelineAssumption, PipelineTypes, RowsCount, AdmittedPerWindow,
         NEW bs \in SUBSET Buckets, NEW stamp \in Windows, consume(bs, stamp)
  PROVE  /\ rows' \in [Buckets -> [win : Windows, count : Nat]]
         /\ admitted' \in [Buckets -> [Windows -> Nat]]
         /\ RowsCount' /\ AdmittedPerWindow'
<1> USE DEF PipelineTypes
<1>1. ASSUME NEW b \in Buckets, b \notin bs
      PROVE  rows'[b] = rows[b] /\ admitted'[b] = admitted[b]
  BY <1>1 DEF consume
<1>2. ASSUME NEW b \in Buckets, b \in bs
      PROVE  /\ rows'[b] = bump(rows[b], stamp) /\ rows'[b] \in [win : Windows, count : Nat]
             /\ rows'[b].win >= rows[b].win
             /\ rows'[b].win = rows[b].win => rows'[b].count = rows[b].count + 1
             /\ rows'[b].win # rows[b].win => rows'[b].win > rows[b].win /\ rows'[b].count = 1
  BY <1>2, Bump DEF consume
<1>3. ASSUME NEW b \in Buckets, b \in bs, Over(bs, stamp)
      PROVE  admitted'[b] = admitted[b]
  BY <1>3 DEF consume
<1>4. ASSUME NEW b \in Buckets, b \in bs, ~Over(bs, stamp)
      PROVE  /\ admitted'[b] = [admitted[b] EXCEPT ![rows'[b].win] = admitted[b][rows'[b].win] + 1]
             /\ rows'[b].count <= Limit[b[1]]
  <2>1. rows'[b] = bump(rows[b], stamp) /\ rows'[b].count \in Nat
    BY <1>2, <1>4
  <2>2. rows'[b].count <= Limit[b[1]]
    BY <1>4, <2>1, BucketLimits DEF Over
  <2>3. admitted'[b] = [admitted[b] EXCEPT ![rows'[b].win] = admitted[b][rows'[b].win] + 1]
    BY <1>4, <2>1 DEF consume
  <2> QED
    BY <2>2, <2>3
<1>5. rows' \in [Buckets -> [win : Windows, count : Nat]]
  <2>1. \A b \in Buckets : rows'[b] \in [win : Windows, count : Nat]
    BY <1>1, <1>2
  <2>2. rows' = [b \in Buckets |-> rows'[b]]
    BY DEF consume
  <2> QED
    BY <2>1, <2>2
<1>6. ASSUME NEW b \in Buckets
      PROVE  admitted'[b] \in [Windows -> Nat]
  <2>1. admitted[b] \in [Windows -> Nat]
    OBVIOUS
  <2>2. CASE b \in bs /\ ~Over(bs, stamp)
    <3>1. rows'[b].win \in Windows
      BY <1>2, <2>2
    <3>2. admitted'[b] = [admitted[b] EXCEPT ![rows'[b].win] = admitted[b][rows'[b].win] + 1]
      BY <1>4, <2>2
    <3> QED
      BY <2>1, <3>1, <3>2
  <2> QED
    BY <1>1, <1>3, <2>1, <2>2
<1>7. admitted' \in [Buckets -> [Windows -> Nat]]
  <2>1. admitted' = [b \in Buckets |-> admitted'[b]]
    BY DEF consume
  <2> QED
    BY <1>6, <2>1
<1>8. ASSUME NEW b \in Buckets
      PROVE  /\ admitted'[b][rows'[b].win] <= rows'[b].count
             /\ \A w \in Windows : w > rows'[b].win => admitted'[b][w] = 0
             /\ \A w \in Windows : admitted'[b][w] <= Limit[b[1]]
  <2>0. /\ rows[b].win \in Nat /\ rows[b].win \in Windows /\ rows[b].count \in Nat /\ Limit[b[1]] \in Nat
        /\ \A w \in Windows : w \in Nat /\ admitted[b][w] \in Nat
    <3>1. admitted[b] \in [Windows -> Nat] /\ rows[b] \in [win : Windows, count : Nat]
      OBVIOUS
    <3>2. \A w \in Windows : w \in Nat
      BY DEF Windows
    <3> QED
      BY <3>1, <3>2, BucketLimits
  <2>1. /\ admitted[b][rows[b].win] <= rows[b].count
        /\ \A w \in Windows : w > rows[b].win => admitted[b][w] = 0
        /\ \A w \in Windows : admitted[b][w] <= Limit[b[1]]
    BY DEF RowsCount, AdmittedPerWindow
  <2>2. CASE b \notin bs
    BY <1>1, <2>1, <2>2
  <2>3. CASE b \in bs /\ Over(bs, stamp)
    <3>1. /\ admitted'[b] = admitted[b] /\ rows'[b].win \in Windows /\ rows'[b].count \in Nat
          /\ rows'[b].win >= rows[b].win
          /\ rows'[b].win = rows[b].win => rows'[b].count = rows[b].count + 1
          /\ rows'[b].win # rows[b].win => rows'[b].win > rows[b].win
      BY <1>2, <1>3, <2>3
    <3>2. admitted[b][rows'[b].win] <= rows'[b].count
      <4>1. CASE rows'[b].win = rows[b].win
        BY <2>0, <2>1, <3>1, <4>1
      <4>2. CASE rows'[b].win > rows[b].win
        BY <2>0, <2>1, <3>1, <4>2
      <4> QED
        BY <3>1, <4>1, <4>2
    <3>3. \A w \in Windows : w > rows'[b].win => admitted[b][w] = 0
      BY <2>0, <2>1, <3>1
    <3> QED
      BY <2>1, <3>1, <3>2, <3>3
  <2>4. CASE b \in bs /\ ~Over(bs, stamp)
    <3>1. /\ rows'[b].win \in Windows /\ rows'[b].count \in Nat /\ rows'[b].win >= rows[b].win
          /\ rows'[b].win = rows[b].win => rows'[b].count = rows[b].count + 1
          /\ rows'[b].win # rows[b].win => rows'[b].win > rows[b].win /\ rows'[b].count = 1
      BY <1>2, <2>4
    <3>2. /\ admitted'[b][rows'[b].win] = admitted[b][rows'[b].win] + 1
          /\ \A w \in Windows : w # rows'[b].win => admitted'[b][w] = admitted[b][w]
          /\ rows'[b].count <= Limit[b[1]]
      <4>1. /\ admitted'[b] = [admitted[b] EXCEPT ![rows'[b].win] = admitted[b][rows'[b].win] + 1]
            /\ rows'[b].count <= Limit[b[1]]
        BY <1>4, <2>4
      <4>2. admitted[b] \in [Windows -> Nat]
        OBVIOUS
      <4> QED
        BY <3>1, <4>1, <4>2
    <3>3. admitted'[b][rows'[b].win] <= rows'[b].count
      BY <2>0, <2>1, <3>1, <3>2
    <3>4. \A w \in Windows : w > rows'[b].win => admitted'[b][w] = 0
      BY <2>0, <2>1, <3>1, <3>2
    <3>5. \A w \in Windows : admitted'[b][w] <= Limit[b[1]]
      <4>1. admitted'[b][rows'[b].win] \in Nat
        BY <2>0, <3>1, <3>2
      <4>2. admitted'[b][rows'[b].win] <= Limit[b[1]]
        BY <2>0, <3>1, <3>2, <3>3, <4>1
      <4> QED
        BY <2>1, <3>2, <4>2
    <3> QED
      BY <3>3, <3>4, <3>5
  <2> QED
    BY <2>2, <2>3, <2>4
<1> QED
  BY <1>5, <1>7, <1>8 DEF RowsCount, AdmittedPerWindow

\* An old step of the admission: nothing is counted.
LEMMA RowsRest ==
  ASSUME RowsCount, AdmittedPerWindow, UNCHANGED admVars
  PROVE  RowsCount' /\ AdmittedPerWindow'
BY DEF RowsCount, AdmittedPerWindow, admVars

\* What a counter holds after an attempt: this verdict, or what it held in the same window.
LEMMA CountedFields ==
  ASSUME PipelineTypes, NEW q \in Requests, req[q].pc # "idle"
  PROVE  /\ AttemptSlot(q) \in Slots
         /\ Counted(q) \in [win : Windows, succeeded : Nat, denied : Nat]
         /\ Counted(q).succeeded > 0 =>
              \/ Verdict(q) = "succeeded"
              \/ attempts[AttemptSlot(q)].succeeded > 0 /\ Counted(q).win = attempts[AttemptSlot(q)].win
         /\ Counted(q).denied > 0 =>
              \/ Verdict(q) = "denied"
              \/ attempts[AttemptSlot(q)].denied > 0 /\ Counted(q).win = attempts[AttemptSlot(q)].win
<1>1. AttemptSlot(q) \in Slots
  BY DEF PipelineTypes, AttemptSlot, Slots
<1>2. attempts[AttemptSlot(q)] \in [win : Windows, succeeded : Nat, denied : Nat] /\ req[q].at \in Windows
  BY <1>1 DEF PipelineTypes, ApiRequest
<1>3. Verdict(q) \in {"succeeded", "denied"}
  BY DEF Verdict
<1> DEFINE r == attempts[AttemptSlot(q)]
           fresh == [win |-> req[q].at, succeeded |-> 0, denied |-> 0]
           base == IF req[q].at > r.win THEN fresh ELSE r
<1>4. /\ base \in [win : Windows, succeeded : Nat, denied : Nat]
      /\ base.succeeded > 0 => r.succeeded > 0 /\ base.win = r.win
      /\ base.denied > 0 => r.denied > 0 /\ base.win = r.win
  BY <1>2
<1>5. Counted(q) = IF Verdict(q) = "succeeded" THEN [base EXCEPT !.succeeded = base.succeeded + 1]
                   ELSE [base EXCEPT !.denied = base.denied + 1]
  BY DEF Counted
<1> HIDE DEF base
<1> QED
  BY <1>1, <1>3, <1>4, <1>5

\* recordAttempt writes the event of the window it counts in.
LEMMA WindowHasEventStep ==
  ASSUME PipelineTypes, WindowHasEvent, NEW q \in Requests, recordAttempt(q)
  PROVE  /\ attempts' \in [Slots -> [win : Windows, succeeded : Nat, denied : Nat]]
         /\ WindowHasEvent'
<1> DEFINE k == AttemptSlot(q)
           c == Counted(q)
<1>0. req[q].pc # "idle"
  BY DEF recordAttempt, At
<1>1. /\ k \in Slots /\ c \in [win : Windows, succeeded : Nat, denied : Nat]
      /\ c.succeeded > 0 => (Verdict(q) = "succeeded" \/ (attempts[k].succeeded > 0 /\ c.win = attempts[k].win))
      /\ c.denied > 0 => (Verdict(q) = "denied" \/ (attempts[k].denied > 0 /\ c.win = attempts[k].win))
  BY ONLY <1>0, PipelineTypes, CountedFields, q \in Requests
<1>2. attempts' = [attempts EXCEPT ![k] = c] /\ events' = events \cup {<<k, c.win, Verdict(q)>>}
  BY DEF recordAttempt, EventKey
<1> HIDE DEF k, c
<1>3. attempts' \in [Slots -> [win : Windows, succeeded : Nat, denied : Nat]]
  BY <1>1, <1>2 DEF PipelineTypes
<1>4. attempts'[k] = c /\ \A s \in Slots \ {k} : attempts'[s] = attempts[s]
  BY <1>1, <1>2 DEF PipelineTypes
<1>5. ASSUME NEW s \in Slots
      PROVE  /\ attempts'[s].succeeded > 0 => <<s, attempts'[s].win, "succeeded">> \in events'
             /\ attempts'[s].denied > 0 => <<s, attempts'[s].win, "denied">> \in events'
  <2>1. CASE s = k
    BY <1>1, <1>2, <1>4, <2>1 DEF WindowHasEvent
  <2>2. CASE s # k
    BY <1>2, <1>4, <2>2 DEF WindowHasEvent
  <2> QED
    BY <2>1, <2>2
<1> QED
  BY <1>3, <1>5 DEF WindowHasEvent

\* Events are never removed, so a counter that stays keeps its event.
LEMMA WindowRests ==
  ASSUME WindowHasEvent, attempts' = attempts, events \subseteq events'
  PROVE  WindowHasEvent'
BY DEF WindowHasEvent

\* The trail of one request.
Requested(q) == <<q, "requested">>
TrailOf(q) ==
  /\ req[q].pc \in Operating => Requested(q) \in events
  /\ Requested(q) \in events => req[q].pc \in Operating \cup {"200", "500", "503"}
  /\ q \in effects => Requested(q) \in events
  /\ (Requested(q) \in events /\ req[q].pc \in {"200", "500"}) =>
        <<q, "succeeded">> \in events \/ <<q, "failed">> \in events

\* The trails of all requests are the two parts of the invariant,
LEMMA Trails ==
  (\A q \in Requests : TrailOf(q)) <=> Trail /\ EffectHasTrail
BY DEF TrailOf, Trail, EffectHasTrail, Requested

\* also after a step.
LEMMA Trails2 ==
  (\A q \in Requests : TrailOf(q)') <=> Trail' /\ EffectHasTrail'
BY DEF TrailOf, Trail, EffectHasTrail, Requested

\* A step of one request keeps every trail: the intent comes first, the terminal event before the answer.
LEMMA TrailStep ==
  ASSUME PipelineTypes, Trail, EffectHasTrail, NEW q \in Requests, handle(q)
  PROVE  Trail' /\ EffectHasTrail'
<1>0. /\ \A r \in Requests : TrailOf(r)
      /\ \A r \in Requests \ {q} : req'[r] = req[r]
  BY Trails, HandleFrame
<1>1. /\ events \subseteq events'
      /\ \A r \in Requests \ {q} : /\ Requested(r) \in events' => Requested(r) \in events
                                   /\ r \in effects' => r \in effects
  BY DEF handle, arrive, preAuthenticate, authenticateRawIdentity, admitIdentity, ApiAdmissionUnavailable,
     recordAttempt, recordFails, permits, capture, operation, completed, failed, Terminal, audVars, EventKey, Requested
<1>2. \A r \in Requests \ {q} : TrailOf(r)'
  BY <1>0, <1>1 DEF TrailOf
<1>3. TrailOf(q)'
  <2> USE DEF Requested, TrailOf, Operating, At, Phases, Outcomes
  <2>0. TrailOf(q)
    BY <1>0
  <2>1. ASSUME NEW t \in Traffic, arrive(q, t)
        PROVE  TrailOf(q)'
    <3>1. req[q].pc = "idle" /\ req'[q].pc = "pre" /\ UNCHANGED <<events, effects>>
      BY <2>1, ArriveFields DEF arrive, audVars
    <3> QED
      BY <2>0, <3>1
  <2>2. CASE preAuthenticate(q)
    <3>1. req[q].pc = "pre" /\ req'[q].pc \in {"record", "verify"} /\ UNCHANGED <<events, effects>>
      BY <2>2, MovesFields, RecordsFields DEF preAuthenticate, audVars
    <3> QED
      BY <2>0, <3>1
  <2>3. CASE authenticateRawIdentity(q)
    <3>1. req[q].pc = "verify" /\ req'[q].pc \in {"record", "post"} /\ UNCHANGED <<events, effects>>
      BY <2>3, MovesFields, RecordsFields DEF authenticateRawIdentity, audVars
    <3> QED
      BY <2>0, <3>1
  <2>4. CASE admitIdentity(q)
    <3>1. req[q].pc = "post" /\ req'[q].pc = "record" /\ UNCHANGED <<events, effects>>
      BY <2>4, RecordsFields DEF admitIdentity, audVars
    <3> QED
      BY <2>0, <3>1
  <2>5. CASE ApiAdmissionUnavailable(q)
    <3>1. req[q].pc \in {"pre", "post"} /\ req'[q].pc = "unavailable" /\ UNCHANGED <<events, effects>>
      BY <2>5, MovesFields DEF ApiAdmissionUnavailable, audVars
    <3> QED
      BY <2>0, <3>1
  <2>6. CASE recordAttempt(q)
    <3>1. /\ req[q].pc = "record" /\ req'[q].pc \in {"handler", "429", "401", "403"} /\ UNCHANGED effects
          /\ Requested(q) \in events' => Requested(q) \in events
      BY <2>6, AttemptFields DEF recordAttempt, EventKey
    <3> QED
      BY <2>0, <3>1
  <2>7. CASE recordFails(q)
    <3>1. req[q].pc = "record" /\ req'[q].pc = "500" /\ UNCHANGED <<events, effects>>
      BY <2>7, MovesFields DEF recordFails, audVars
    <3> QED
      BY <2>0, <3>1
  <2>8. CASE permits(q)
    <3>1. req[q].pc = "handler" /\ req'[q].pc \in {"record", "capture"} /\ UNCHANGED <<events, effects>>
      BY <2>8, MovesFields, RecordsFields DEF permits, audVars
    <3> QED
      BY <2>0, <3>1
  <2>9. CASE capture(q)
    <3>1. /\ req[q].pc = "capture" /\ UNCHANGED effects
          /\ \/ req'[q].pc = "operation" /\ events' = events \cup {<<q, "requested">>}
             \/ req'[q].pc = "500" /\ events' = events
      BY <2>9, MovesFields DEF capture
    <3> QED
      BY <2>0, <3>1
  <2>10. CASE operation(q)
    <3>1. /\ req[q].pc = "operation" /\ req'[q].pc \in {"completed", "failed"} /\ UNCHANGED events
      BY <2>10, MovesFields DEF operation, audVars
    <3> QED
      BY <2>0, <3>1
  <2>11. CASE completed(q) \/ failed(q)
    <3>1. /\ req[q].pc \in {"completed", "failed"} /\ UNCHANGED effects /\ events \subseteq events'
          /\ \/ req'[q].pc \in {"200", "500"} /\ (<<q, "succeeded">> \in events' \/ <<q, "failed">> \in events')
             \/ req'[q].pc = "503"
      BY <2>11, MovesFields DEF completed, failed, Terminal
    <3> QED
      BY <2>0, <3>1
  <2> QED
    BY <2>1, <2>2, <2>3, <2>4, <2>5, <2>6, <2>7, <2>8, <2>9, <2>10, <2>11 DEF handle
<1> QED
  BY <1>2, <1>3, Trails2

-----------------------------------------------------------------------------
\* A request that was charged stays charged.
LEMMA ChargedGrows ==
  ASSUME PipelineAssumption, PipelineTypes, NEW q \in Requests, handle(q), NEW b
  PROVE  /\ Charged(b) \subseteq Charged(b)'
         /\ Cardinality(Charged(b)) \in Nat /\ Cardinality(Charged(b)') \in Nat
         /\ Cardinality(Charged(b)) <= Cardinality(Charged(b)')
<1>1. Charged(b) \subseteq Charged(b)'
  BY HandleFrame DEF Charged
<1>2. Charged(b) \in SUBSET Requests /\ Charged(b)' \in SUBSET Requests
  BY DEF Charged
<1> QED
  BY <1>1, <1>2, SetsOfRequests

\* preAuthenticate charges the request wherever it counts it.
LEMMA PreCharges ==
  ASSUME PipelineAssumption, PipelineTypes, RowsCharged, NEW q \in Requests, preAuthenticate(q),
         NEW b \in preAuthBuckets(req[q].t)
  PROVE  /\ b \in Buckets /\ rows'[b] = bump(rows[b], req[q].at) /\ rows'[b].count \in Nat
         /\ rows'[b].count <= Cardinality(Charged(b)')
<1> USE DEF PipelineTypes
<1>0. req[q].t \in Traffic /\ req[q].pc = "pre" /\ req[q].at \in Windows
  BY DEF preAuthenticate, At, ApiRequest
<1>1. b \in Buckets /\ b[1] \in PreScopes /\ rows[b] \in [win : Windows, count : Nat]
  BY <1>0, TrafficBuckets, BucketScopes
<1>2. rows'[b] = bump(rows[b], req[q].at)
  BY <1>1 DEF preAuthenticate, consume
<1>3. rows'[b].count \in Nat /\ rows'[b].count <= rows[b].count + 1
  BY <1>0, <1>1, <1>2, Bump
<1>4. handle(q)
  BY DEF handle
<1>5. req'[q].pc \in {"record", "verify"} /\ req'[q].t = req[q].t
  BY MovesFields, RecordsFields DEF preAuthenticate, Phases, Outcomes
<1>6. q \notin Charged(b) /\ q \in Charged(b)'
  BY <1>0, <1>5 DEF Charged
<1>7. Charged(b) \cup {q} \subseteq Charged(b)' /\ Charged(b)' \in SUBSET Requests /\ Charged(b) \in SUBSET Requests
  BY <1>4, <1>6, ChargedGrows DEF Charged
<1>8. IsFiniteSet(Charged(b)) /\ Cardinality(Charged(b)) \in Nat /\ Cardinality(Charged(b) \cup {q}) = Cardinality(Charged(b)) + 1
  BY <1>6, <1>7, SetsOfRequests, FS_AddElement
<1>9. Cardinality(Charged(b) \cup {q}) <= Cardinality(Charged(b)') /\ Cardinality(Charged(b)') \in Nat
  BY <1>7, SetsOfRequests
<1>10. rows[b].count <= Cardinality(Charged(b)) /\ rows[b].count \in Nat
  BY <1>1 DEF RowsCharged
<1> QED
  BY <1>1, <1>2, <1>3, <1>8, <1>9, <1>10

\* Rows count no more than was charged to them, and a refusal rests on charges.
LEMMA ChargeStep ==
  ASSUME PipelineAssumption, PipelineTypes, RowsCharged, RefusedCharged, NEW q \in Requests, handle(q)
  PROVE  RowsCharged' /\ RefusedCharged'
<1>1. ASSUME NEW b \in Buckets, b[1] \in PreScopes
      PROVE  rows'[b].count <= Cardinality(Charged(b)')
  <2>1. CASE rows'[b] = rows[b]
    <3>1. rows[b].count <= Cardinality(Charged(b)) /\ rows[b].count \in Nat
      BY <1>1 DEF RowsCharged, PipelineTypes
    <3> QED
      BY <2>1, <3>1, ChargedGrows
  <2>2. CASE rows'[b] # rows[b]
    <3>1. \/ preAuthenticate(q) /\ b \in preAuthBuckets(req[q].t)
          \/ admitIdentity(q) /\ b \in postAuthBuckets(req[q].t)
      BY <2>2 DEF handle, arrive, preAuthenticate, authenticateRawIdentity, admitIdentity, ApiAdmissionUnavailable,
         recordAttempt, recordFails, permits, capture, operation, completed, failed, consume, admVars
    <3>2. b \notin postAuthBuckets(req[q].t)
      BY <1>1, BucketScopes DEF PreScopes
    <3> QED
      BY <3>1, <3>2, PreCharges
  <2> QED
    BY <2>1, <2>2
<1>2. ASSUME NEW r \in Requests, req[r].outcome = "limited", req'[r].outcome = "limited"
      PROVE  /\ req'[r].pc \notin {"idle", "pre"}
             /\ \E b \in preAuthBuckets(req'[r].t) : Cardinality(Charged(b)') > Limit[b[1]]
  <2>1. req[r].pc \notin {"idle", "pre"} /\ req[r].t \in Traffic
    BY <1>2 DEF RefusedCharged, PipelineTypes
  <2>2. req'[r].pc \notin {"idle", "pre"} /\ req'[r].t = req[r].t
    BY <2>1, HandleFrame
  <2>3. PICK b \in preAuthBuckets(req[r].t) : Cardinality(Charged(b)) > Limit[b[1]]
    BY <1>2 DEF RefusedCharged
  <2>4. Limit[b[1]] \in Nat
    BY <2>1, TrafficBuckets, BucketLimits
  <2>5. Cardinality(Charged(b)') > Limit[b[1]]
    BY <2>3, <2>4, ChargedGrows
  <2> QED
    BY <2>2, <2>5
<1>3. ASSUME NEW r \in Requests, req[r].outcome # "limited", req'[r].outcome = "limited"
      PROVE  /\ req'[r].pc \notin {"idle", "pre"}
             /\ \E b \in preAuthBuckets(req'[r].t) : Cardinality(Charged(b)') > Limit[b[1]]
  <2>1. r = q
    BY <1>3, HandleFrame
  <2>2. ~recordAttempt(q) /\ ~\E t \in Traffic : arrive(q, t)
    BY <1>3, <2>1, AttemptFields, ArriveFields
  <2>3. ~\E p \in Phases : Moves(q, p)
    BY <1>3, <2>1, MovesFields
  <2>4. ~\E o \in Outcomes \ {"limited"} : Records(q, o)
    BY <1>3, <2>1, RecordsFields
  <2>5. preAuthenticate(q) /\ Over(preAuthBuckets(req[q].t), req[q].at)
    BY <2>2, <2>3, <2>4 DEF handle, preAuthenticate, authenticateRawIdentity, admitIdentity, ApiAdmissionUnavailable,
       recordFails, permits, capture, operation, completed, failed, Phases, Outcomes
  <2>6. PICK b \in preAuthBuckets(req[q].t) : bump(rows[b], req[q].at).count > Limit[b[1]]
    BY <2>5 DEF Over
  <2>7. rows'[b].count \in Nat /\ rows'[b].count > Limit[b[1]] /\ rows'[b].count <= Cardinality(Charged(b)') /\ b \in Buckets
    BY <2>5, <2>6, PreCharges
  <2>8. Limit[b[1]] \in Nat /\ Cardinality(Charged(b)') \in Nat
    BY <2>7, BucketLimits, ChargedGrows
  <2>9. req'[q].pc = "record" /\ req'[q].t = req[q].t
    BY <2>5, RecordsFields DEF preAuthenticate, Outcomes
  <2> QED
    BY <2>1, <2>7, <2>8, <2>9
<1> QED
  BY <1>1, <1>2, <1>3 DEF RowsCharged, RefusedCharged

\* Nothing is counted and no request moves.
LEMMA ChargeRests ==
  ASSUME RowsCharged, RefusedCharged, UNCHANGED <<rows, req>>
  PROVE  RowsCharged' /\ RefusedCharged'
<1>1. \A b : Charged(b)' = Charged(b)
  BY DEF Charged
<1> QED
  BY <1>1 DEF RowsCharged, RefusedCharged

\* A request is charged to its own source, or to the whole credential.
LEMMA RefusedForItsOwn ==
  ASSUME PipelineAssumption, PipelineTypes, RefusedCharged
  PROVE  RefusedForOwnTraffic
<1> SUFFICES ASSUME NEW q \in Requests, req[q].outcome = "limited"
    PROVE  \/ Cardinality({r \in Requests : ~At(r, "idle") /\ req[r].t.src = req[q].t.src}) > Limit["preauth_ip"]
           \/ Cardinality({r \in Requests : ~At(r, "idle") /\ req[r].t.cred = req[q].t.cred}) > Limit["preauth_credential"]
           \/ Cardinality({r \in Requests : ~At(r, "idle") /\ (req[r].t.src = req[q].t.src /\ req[r].t.prefix = req[q].t.prefix)})
                > Limit["preauth_api_key"]
  BY DEF RefusedForOwnTraffic, Presenting
<1>1. PICK b \in preAuthBuckets(req[q].t) : Cardinality(Charged(b)) > Limit[b[1]]
  BY DEF RefusedCharged
<1>2. Limit[b[1]] \in Nat
  BY TrafficBuckets, BucketLimits DEF RefusedCharged, PipelineTypes
<1>3. ASSUME NEW S \in SUBSET Requests, Charged(b) \subseteq S
      PROVE  Cardinality(S) > Limit[b[1]]
  <2>1. Cardinality(S) \in Nat /\ Cardinality(Charged(b)) \in Nat /\ Cardinality(Charged(b)) <= Cardinality(S)
    BY <1>3, SetsOfRequests, Charged(b) \in SUBSET Requests DEF Charged
  <2> QED
    BY <1>1, <1>2, <2>1
<1>4. CASE b = <<"preauth_ip", req[q].t.src>>
  <2>1. Charged(b) \subseteq {r \in Requests : ~At(r, "idle") /\ req[r].t.src = req[q].t.src}
    BY <1>4 DEF Charged, preAuthBuckets, prefixBucket, At
  <2> QED
    BY <1>3, <1>4, <2>1
<1>5. CASE b = <<"preauth_credential", req[q].t.cred>>
  <2>1. Charged(b) \subseteq {r \in Requests : ~At(r, "idle") /\ req[r].t.cred = req[q].t.cred}
    BY <1>5 DEF Charged, preAuthBuckets, prefixBucket, At
  <2> QED
    BY <1>3, <1>5, <2>1
<1>6. CASE b = <<"preauth_api_key", <<req[q].t.src, req[q].t.prefix>>>>
  <2>1. Charged(b) \subseteq {r \in Requests : ~At(r, "idle") /\ (req[r].t.src = req[q].t.src /\ req[r].t.prefix = req[q].t.prefix)}
    BY <1>6 DEF Charged, preAuthBuckets, prefixBucket, At
  <2> QED
    BY <1>3, <1>6, <2>1
<1> QED
  BY <1>4, <1>5, <1>6 DEF preAuthBuckets, prefixBucket

-----------------------------------------------------------------------------
\* Sets of logins are finite, and a new login adds one.
LEMMA SetsOfLogins ==
  ASSUME PipelineAssumption, NEW S \in SUBSET Logins
  PROVE  /\ IsFiniteSet(S) /\ Cardinality(S) \in Nat
         /\ \A R \in SUBSET S : Cardinality(R) <= Cardinality(S)
         /\ \A d \in Logins \ S : Cardinality(S \cup {d}) = Cardinality(S) + 1
<1>1. IsFiniteSet(S) /\ Cardinality(S) \in Nat
  BY FS_Subset, FS_CardinalityType DEF PipelineAssumption
<1>2. \A R \in SUBSET S : Cardinality(R) <= Cardinality(S)
  BY <1>1, FS_Subset
<1>3. \A d \in Logins \ S : Cardinality(S \cup {d}) = Cardinality(S) + 1
  BY <1>1, FS_AddElement
<1> QED
  BY <1>1, <1>2, <1>3

\* The numbers of the assumption, one by one.
LEMMA WindowNumbers ==
  ASSUME PipelineAssumption
  PROVE  /\ \A w \in Windows : w \in Nat
         /\ Lag \in Nat /\ Retained \in Nat /\ Lag <= Retained /\ LoginLimit \in Nat /\ GlobalLimit \in Nat
         /\ "global" \notin Sources /\ "global" \in LoginKeys /\ Sources \subseteq LoginKeys
BY DEF PipelineAssumption, Windows, LoginKeys

\* No login is counted, and the clock does not go back: all windows keep what they have.
LEMMA LoginsRest ==
  ASSUME PipelineAssumption, PipelineTypes, LoginTypes, LoginsCounted, LoginsLimited, win' \in Windows, win' >= win,
         UNCHANGED logins, \A w : IssuedAt(w)' = IssuedAt(w) /\ \A s : Issued(s, w)' = Issued(s, w)
  PROVE  LoginsCounted' /\ LoginsLimited'
<1>1. \A w \in Windows : win' <= w + Lag => win <= w + Lag
  BY WindowNumbers DEF PipelineTypes
<1>2. LoginsCounted'
  BY <1>1 DEF LoginsCounted
<1>3. LoginsLimited'
  BY DEF LoginsLimited
<1> QED
  BY <1>2, <1>3

\* A login that only reads its clock counts nothing.
LEMMA IssueStep ==
  ASSUME PipelineAssumption, PipelineTypes, LoginTypes, LoginsCounted, LoginsLimited,
         NEW d \in Logins, NEW s \in Sources, issue(d, s)
  PROVE  LoginTypes' /\ LoginsCounted' /\ LoginsLimited'
<1>1. /\ login[d].pc = "idle" /\ login' = [login EXCEPT ![d] = [pc |-> "limit", src |-> s, at |-> win]]
      /\ UNCHANGED <<win, logins>>
  BY DEF issue
<1>2. \A w : IssuedAt(w)' = IssuedAt(w) /\ \A u : Issued(u, w)' = Issued(u, w)
  BY <1>1 DEF IssuedAt, Issued, LoginTypes
<1>3. LoginTypes'
  BY <1>1, WindowNumbers DEF LoginTypes, PipelineTypes
<1>4. win' \in Windows /\ win' >= win
  BY <1>1, WindowNumbers DEF PipelineTypes
<1> QED
  BY <1>1, <1>2, <1>3, <1>4, LoginsRest

\* A login that counts finds the rows of its window, and is issued only within both limits.
LEMMA ConsumeStep ==
  ASSUME PipelineAssumption, PipelineTypes, LoginTypes, LoginsCounted, LoginsLimited,
         NEW d \in Logins, consumeIssueRateLimits(d)
  PROVE  LoginTypes' /\ LoginsCounted' /\ LoginsLimited'
<1>a. PICK s : s = login[d].src
  OBVIOUS
<1>b. PICK w : w = login[d].at
  OBVIOUS
<1> USE <1>a, <1>b
<1> DEFINE v0 == IF \A k \in {s, "global"} : rateLimit(k, w) = "issued" THEN "issued" ELSE "refused"
<1>1. /\ login[d].pc = "limit" /\ s \in Sources /\ w \in Windows /\ win <= w + Lag /\ w <= win
      /\ UNCHANGED win
  BY DEF consumeIssueRateLimits, LoginTypes
<1>2. login' = [login EXCEPT ![d].pc = v0] /\ v0 \in {"issued", "refused"}
  BY DEF consumeIssueRateLimits
<1>3. logins' = [k \in LoginKeys |-> IF k \in {s, "global"} THEN [Kept(w)[k] EXCEPT ![w] = Kept(w)[k][w] + 1] ELSE Kept(w)[k]]
  BY DEF consumeIssueRateLimits
<1>4. \A k \in LoginKeys : /\ Kept(w)[k] \in [Windows -> Nat]
                           /\ \A v \in Windows : win <= v + Lag => Kept(w)[k][v] = logins[k][v]
  <2>1. \A v \in Windows : win <= v + Lag => ~cleanupRateLimits(v, w)
    BY <1>1, WindowNumbers DEF cleanupRateLimits, PipelineTypes
  <2>2. \A k \in LoginKeys : logins[k] \in [Windows -> Nat]
    BY DEF LoginTypes
  <2> QED
    BY <2>1, <2>2 DEF Kept
<1>5. ASSUME NEW k \in LoginKeys
      PROVE  /\ logins'[k] \in [Windows -> Nat]
             /\ \A v \in Windows : win <= v + Lag => logins'[k][v] >= logins[k][v]
             /\ k \in {s, "global"} => logins'[k][w] = logins[k][w] + 1
  <2>0. Kept(w)[k] \in [Windows -> Nat] /\ \A v \in Windows : win <= v + Lag => Kept(w)[k][v] = logins[k][v]
    BY <1>4
  <2>1. CASE k \in {s, "global"}
    <3>1. logins'[k] = [Kept(w)[k] EXCEPT ![w] = Kept(w)[k][w] + 1]
      BY <1>3, <2>1
    <3> QED
      BY <1>1, <2>0, <3>1
  <2>2. CASE k \notin {s, "global"}
    <3>1. logins'[k] = Kept(w)[k]
      BY <1>3, <2>2
    <3> QED
      BY <2>0, <2>2, <3>1
  <2> QED
    BY <2>1, <2>2
<1>6. LoginTypes'
  <2>1. logins' \in [LoginKeys -> [Windows -> Nat]]
    BY <1>3, <1>5
  <2>2. /\ login' \in [Logins -> [pc : {"idle", "limit", "issued", "refused"}, src : Sources \cup {None}, at : Windows]]
        /\ \A e \in Logins : login'[e].at = login[e].at /\ login'[e].src = login[e].src
        /\ \A e \in Logins : login'[e].pc # "idle" => login[e].pc # "idle"
    BY <1>1, <1>2 DEF LoginTypes
  <2> QED
    BY <1>1, <2>1, <2>2 DEF LoginTypes
<1>7. /\ \A e \in Logins \ {d} : login'[e] = login[e]
      /\ login'[d].pc = v0 /\ login'[d].src = s /\ login'[d].at = w
  BY <1>2 DEF LoginTypes
<1>8. CASE v0 = "refused"
  <2>1. \A v : IssuedAt(v)' = IssuedAt(v) /\ \A u : Issued(u, v)' = Issued(u, v)
    BY <1>1, <1>7, <1>8 DEF IssuedAt, Issued
  <2>2. LoginsLimited'
    BY <2>1 DEF LoginsLimited
  <2>3. ASSUME NEW v \in Windows, win <= v + Lag, NEW k \in LoginKeys, NEW S \in SUBSET Logins, Cardinality(S) <= logins[k][v]
        PROVE  Cardinality(S) <= logins'[k][v]
    BY <1>5, <2>3, SetsOfLogins DEF LoginTypes
  <2>4. LoginsCounted'
    <3>1. \A v \in Windows : IssuedAt(v) \in SUBSET Logins /\ \A u \in Sources : Issued(u, v) \in SUBSET Logins
      BY DEF IssuedAt, Issued
    <3> QED
      BY <1>1, <2>1, <2>3, <3>1, WindowNumbers DEF LoginsCounted
  <2> QED
    BY <1>6, <2>2, <2>4
<1>9. CASE v0 = "issued"
  <2>1. /\ logins[s][w] + 1 <= LoginLimit /\ logins["global"][w] + 1 <= GlobalLimit
    <3>1. rateLimit(s, w) = "issued" /\ rateLimit("global", w) = "issued"
      BY <1>9
    <3>2. Kept(w)[s][w] = logins[s][w] /\ Kept(w)["global"][w] = logins["global"][w] /\ logins[s][w] \in Nat /\ logins["global"][w] \in Nat
      BY <1>1, <1>4, WindowNumbers DEF LoginTypes
    <3>3. s # "global"
      BY <1>1, WindowNumbers
    <3> QED
      BY <3>1, <3>2, <3>3, WindowNumbers DEF rateLimit
  <2>2. /\ IssuedAt(w)' = IssuedAt(w) \cup {d} /\ d \notin IssuedAt(w)
        /\ Issued(s, w)' = Issued(s, w) \cup {d} /\ d \notin Issued(s, w)
    BY <1>1, <1>7, <1>9 DEF IssuedAt, Issued
  <2>3. /\ \A v : v # w => IssuedAt(v)' = IssuedAt(v)
        /\ \A u, v : (u # s \/ v # w) => Issued(u, v)' = Issued(u, v)
    BY <1>1, <1>7, <1>9 DEF IssuedAt, Issued
  <2>4. \A v : IssuedAt(v) \in SUBSET Logins /\ \A u : Issued(u, v) \in SUBSET Logins
    BY DEF IssuedAt, Issued
  <2>5. /\ Cardinality(IssuedAt(w)') = Cardinality(IssuedAt(w)) + 1 /\ Cardinality(IssuedAt(w)) \in Nat
        /\ Cardinality(Issued(s, w)') = Cardinality(Issued(s, w)) + 1 /\ Cardinality(Issued(s, w)) \in Nat
    BY <2>2, <2>4, SetsOfLogins
  <2>6. /\ Cardinality(IssuedAt(w)) <= logins["global"][w] /\ Cardinality(Issued(s, w)) <= logins[s][w]
        /\ logins[s][w] \in Nat /\ logins["global"][w] \in Nat
        /\ logins'[s][w] = logins[s][w] + 1 /\ logins'["global"][w] = logins["global"][w] + 1
    BY <1>1, <1>5, WindowNumbers DEF LoginsCounted, LoginTypes
  <2>7. ASSUME NEW v \in Windows, NEW u \in Sources
        PROVE  Cardinality(Issued(u, v)') <= LoginLimit /\ (win <= v + Lag => Cardinality(Issued(u, v)') <= logins'[u][v])
    <3>1. CASE u = s /\ v = w
      BY <2>1, <2>5, <2>6, <3>1, WindowNumbers
    <3>2. CASE u # s \/ v # w
      <4>1. Issued(u, v)' = Issued(u, v) /\ Cardinality(Issued(u, v)) \in Nat
        BY <2>3, <2>4, <3>2, SetsOfLogins
      <4>2. Cardinality(Issued(u, v)) <= LoginLimit /\ (win <= v + Lag => Cardinality(Issued(u, v)) <= logins[u][v])
        BY DEF LoginsCounted, LoginsLimited
      <4>3. win <= v + Lag => logins'[u][v] >= logins[u][v]
        BY <1>5, WindowNumbers
      <4>4. logins[u][v] \in Nat /\ logins'[u][v] \in Nat
        BY <1>5, WindowNumbers DEF LoginTypes
      <4> QED
        BY <4>1, <4>2, <4>3, <4>4
    <3> QED
      BY <3>1, <3>2
  <2>8. ASSUME NEW v \in Windows
        PROVE  Cardinality(IssuedAt(v)') <= GlobalLimit /\ (win <= v + Lag => Cardinality(IssuedAt(v)') <= logins'["global"][v])
    <3>1. CASE v = w
      BY <2>1, <2>5, <2>6, <3>1, WindowNumbers
    <3>2. CASE v # w
      <4>1. IssuedAt(v)' = IssuedAt(v) /\ Cardinality(IssuedAt(v)) \in Nat
        BY <2>3, <2>4, <3>2, SetsOfLogins
      <4>2. Cardinality(IssuedAt(v)) <= GlobalLimit /\ (win <= v + Lag => Cardinality(IssuedAt(v)) <= logins["global"][v])
        BY DEF LoginsCounted, LoginsLimited
      <4>3. win <= v + Lag => logins'["global"][v] >= logins["global"][v]
        BY <1>5, WindowNumbers
      <4>4. logins["global"][v] \in Nat /\ logins'["global"][v] \in Nat
        BY <1>5, WindowNumbers DEF LoginTypes
      <4> QED
        BY <4>1, <4>2, <4>3, <4>4
    <3> QED
      BY <3>1, <3>2
  <2> QED
    BY <1>1, <1>6, <2>7, <2>8 DEF LoginsCounted, LoginsLimited
<1> QED
  BY <1>2, <1>8, <1>9

-----------------------------------------------------------------------------
\* Nothing is counted or recorded at first.
LEMMA PipelineInitInv ==
  ASSUME PipelineAssumption, PipelineInit
  PROVE  PipelineInv
<1> USE DEF PipelineInit
<1>0. 0 \in Windows /\ Cardinality({}) = 0
  BY FS_EmptySet DEF PipelineAssumption, Windows
<1>1. \A b \in Buckets : rows[b].count = 0 /\ \A w \in Windows : admitted[b][w] = 0
  OBVIOUS
<1>2. \A q \in Requests : req[q].pc = "idle" /\ req[q].outcome = None
  OBVIOUS
<1>3. PipelineTypes
  <2>1. [pc |-> "idle", t |-> NoTraffic, at |-> 0, outcome |-> None] \in ApiRequest
    BY <1>0 DEF ApiRequest, Phases, Outcomes
  <2>2. req \in [Requests -> ApiRequest]
    BY <2>1
  <2>3. rows \in [Buckets -> [win : Windows, count : Nat]] /\ admitted \in [Buckets -> [Windows -> Nat]]
    BY <1>0
  <2>4. attempts \in [Slots -> [win : Windows, succeeded : Nat, denied : Nat]]
    BY <1>0
  <2> QED
    BY <1>0, <1>2, <2>2, <2>3, <2>4 DEF PipelineTypes
<1>4. LoginTypes
  BY <1>0 DEF LoginTypes
<1>5. Trail /\ EffectHasTrail /\ WindowHasEvent
  BY <1>2 DEF Trail, EffectHasTrail, WindowHasEvent, Operating
<1>6. RowsCount /\ AdmittedPerWindow
  BY <1>0, <1>1, BucketLimits DEF RowsCount, AdmittedPerWindow
<1>7. RowsCharged
  <2>1. \A b \in Buckets : Cardinality(Charged(b)) \in Nat
    BY SetsOfRequests DEF Charged
  <2> QED
    BY <1>1, <2>1 DEF RowsCharged
<1>8. RefusedCharged
  BY <1>2 DEF RefusedCharged, PipelineAssumption
<1>9. LoginsCounted /\ LoginsLimited
  <2>1. \A w \in Windows : IssuedAt(w) = {} /\ \A s \in Sources : Issued(s, w) = {}
    BY DEF IssuedAt, Issued
  <2>2. \A k \in LoginKeys : \A w \in Windows : logins[k][w] = 0
    OBVIOUS
  <2>3. LoginsLimited
    <3>1. Cardinality({}) <= LoginLimit /\ Cardinality({}) <= GlobalLimit
      BY <1>0, WindowNumbers
    <3> QED
      BY <2>1, <3>1 DEF LoginsLimited
  <2>4. \A k \in LoginKeys : \A w \in Windows : Cardinality({}) <= logins[k][w]
    BY <1>0, <2>2
  <2>5. LoginsCounted
    BY <2>1, <2>4, WindowNumbers DEF LoginsCounted
  <2> QED
    BY <2>3, <2>5
<1> QED
  BY <1>3, <1>4, <1>5, <1>6, <1>7, <1>8, <1>9 DEF PipelineInv

\* Every step of a request keeps the invariant.
LEMMA HandleStep ==
  ASSUME PipelineAssumption, PipelineInv, NEW q \in Requests, handle(q)
  PROVE  PipelineInv'
<1> USE DEF PipelineInv
<1>1. /\ req' \in [Requests -> ApiRequest]
      /\ \A r \in Requests : req'[r].pc # "idle" => req'[r].t \in Traffic
      /\ UNCHANGED <<win, login, logins>>
  BY HandleFrame DEF PipelineTypes
<1>2. /\ attempts' \in [Slots -> [win : Windows, succeeded : Nat, denied : Nat]]
      /\ WindowHasEvent'
  <2>1. CASE recordAttempt(q)
    BY <2>1, WindowHasEventStep
  <2>2. CASE ~recordAttempt(q)
    <3>1. attempts' = attempts /\ events \subseteq events'
      BY <2>2 DEF handle, arrive, preAuthenticate, authenticateRawIdentity, admitIdentity, ApiAdmissionUnavailable,
         recordFails, permits, capture, operation, completed, failed, Terminal, audVars
    <3> QED
      BY <3>1, WindowRests DEF PipelineTypes
  <2> QED
    BY <2>1, <2>2
<1>3. /\ rows' \in [Buckets -> [win : Windows, count : Nat]]
      /\ admitted' \in [Buckets -> [Windows -> Nat]]
      /\ RowsCount' /\ AdmittedPerWindow'
  <2>1. CASE preAuthenticate(q)
    <3>1. req[q].t \in Traffic /\ req[q].at \in Windows
      BY <2>1 DEF preAuthenticate, At, PipelineTypes, ApiRequest
    <3>2. preAuthBuckets(req[q].t) \in SUBSET Buckets
      BY <3>1, TrafficBuckets
    <3>3. PICK bs, a : bs = preAuthBuckets(req[q].t) /\ a = req[q].at
      OBVIOUS
    <3> QED
      BY <2>1, <3>1, <3>2, <3>3, Consume DEF preAuthenticate
  <2>2. CASE admitIdentity(q)
    <3>1. req[q].t \in Traffic /\ req[q].at \in Windows
      BY <2>2 DEF admitIdentity, At, PipelineTypes, ApiRequest
    <3>2. postAuthBuckets(req[q].t) \in SUBSET Buckets
      BY <3>1, TrafficBuckets
    <3>3. PICK bs, a : bs = postAuthBuckets(req[q].t) /\ a = req[q].at
      OBVIOUS
    <3> QED
      BY <2>2, <3>1, <3>2, <3>3, Consume DEF admitIdentity
  <2>3. CASE ~preAuthenticate(q) /\ ~admitIdentity(q)
    <3>1. UNCHANGED admVars
      BY <2>3 DEF handle, arrive, authenticateRawIdentity, ApiAdmissionUnavailable,
         recordAttempt, recordFails, permits, capture, operation, completed, failed
    <3> QED
      BY <3>1, RowsRest DEF PipelineTypes, admVars
  <2> QED
    BY <2>1, <2>2, <2>3
<1>4. PipelineTypes'
  BY <1>1, <1>2, <1>3 DEF PipelineTypes
<1>5. LoginTypes' /\ LoginsCounted' /\ LoginsLimited'
  <2>1. LoginTypes'
    BY <1>1 DEF LoginTypes
  <2>2. win' \in Windows /\ win' >= win
    BY <1>1, WindowNumbers DEF PipelineTypes
  <2> QED
    BY <1>1, <2>1, <2>2, LoginsRest DEF Issued, IssuedAt
<1> QED
  BY <1>2, <1>3, <1>4, <1>5, TrailStep, ChargeStep

\* So do the clock and the logins.
LEMMA OtherSteps ==
  ASSUME PipelineAssumption, PipelineInv, 
         \/ WindowPasses \/ UNCHANGED pipelineVars
         \/ \E d \in Logins : consumeIssueRateLimits(d) \/ \E s \in Sources : issue(d, s)
  PROVE  PipelineInv'
<1> USE DEF PipelineInv
<1>1. UNCHANGED <<admVars, req, audVars, effects>>
  BY DEF WindowPasses, pipelineVars, consumeIssueRateLimits, issue
<1>2. Trail' /\ EffectHasTrail' /\ WindowHasEvent' /\ RowsCount' /\ AdmittedPerWindow' /\ RowsCharged' /\ RefusedCharged'
  <2>1. Trail' /\ EffectHasTrail' /\ WindowHasEvent'
    BY <1>1 DEF Trail, EffectHasTrail, WindowHasEvent, audVars
  <2> QED
    BY <1>1, <2>1, RowsRest, ChargeRests DEF admVars
<1>3. win' \in Windows /\ win' >= win
  BY WindowNumbers DEF PipelineTypes, WindowPasses, pipelineVars, consumeIssueRateLimits, issue, Windows, PipelineAssumption
<1>4. PipelineTypes'
  BY <1>1, <1>3 DEF PipelineTypes, admVars, audVars
<1>5. LoginTypes' /\ LoginsCounted' /\ LoginsLimited'
  <2>1. CASE WindowPasses \/ UNCHANGED pipelineVars
    <3>1. UNCHANGED <<login, logins>>
      BY <2>1 DEF WindowPasses, pipelineVars
    <3>2. LoginTypes'
      BY <1>3, <3>1, WindowNumbers DEF LoginTypes, PipelineTypes
    <3> QED
      BY <1>3, <3>1, <3>2, LoginsRest DEF Issued, IssuedAt
  <2> QED
    BY <2>1, ConsumeStep, IssueStep
<1> QED
  BY <1>2, <1>4, <1>5

\* Every step keeps the invariant.
LEMMA PipelineStepInv ==
  ASSUME PipelineAssumption, PipelineInv, [PipelineNext]_pipelineVars
  PROVE  PipelineInv'
BY HandleStep, OtherSteps DEF PipelineNext

\* Whatever an operation changed has its intent in the audit trail, and every window that
\* counts an attempt has its event, for any number of requests and failing statements
\* (audit/audit.ts).
THEOREM AuditIsComplete ==
  ASSUME PipelineAssumption
  PROVE  PipelineSpec => []AuditComplete
<1>1. PipelineInit => PipelineInv
  BY PipelineInitInv
<1>2. PipelineInv /\ [PipelineNext]_pipelineVars => PipelineInv'
  BY PipelineStepInv
<1>3. PipelineInv => AuditComplete
  BY DEF PipelineInv, AuditComplete
<1> QED
  BY <1>1, <1>2, <1>3, PTL DEF PipelineSpec

\* The logins of all sources are the logins of the window.
LEMMA LoginsWithinLimits ==
  ASSUME PipelineAssumption, LoginsLimited
  PROVE  LoginsPerWindow
<1>1. ASSUME NEW w \in Windows
      PROVE  Cardinality(UNION {Issued(s, w) : s \in Sources}) <= GlobalLimit
  <2>1. UNION {Issued(s, w) : s \in Sources} \subseteq IssuedAt(w) /\ IssuedAt(w) \in SUBSET Logins
    BY DEF Issued, IssuedAt
  <2>2. /\ Cardinality(UNION {Issued(s, w) : s \in Sources}) <= Cardinality(IssuedAt(w))
        /\ Cardinality(UNION {Issued(s, w) : s \in Sources}) \in Nat /\ Cardinality(IssuedAt(w)) \in Nat
    <3>1. UNION {Issued(s, w) : s \in Sources} \in SUBSET Logins
      BY <2>1
    <3> QED
      BY <2>1, <3>1, SetsOfLogins
  <2>3. Cardinality(IssuedAt(w)) <= GlobalLimit
    BY DEF LoginsLimited
  <2> QED
    BY <2>2, <2>3, WindowNumbers
<1> QED
  BY <1>1 DEF LoginsLimited, LoginsPerWindow

\* For any traffic and any limits.  In the control plane, no bucket admits more than its
\* limit in one window, requests are refused before authentication only for traffic of
\* their own source or credential, and device logins stay within the limits of their
\* source and of all sources (auth/api-admission.ts, auth/device.ts).  At the gateway, a
\* request is refused only when its slot let its limit through within a window of it,
\* and the earliest readings of a window stay within the limit
\* (gateway/rest_limiter.go).
THEOREM AdmissionIsSafe ==
  ASSUME PipelineAssumption, RestAssumption
  PROVE  AdmissionSpec => []AdmissionSafe
<1>1. PipelineInit => PipelineInv
  BY PipelineInitInv
<1>2. PipelineInv /\ [PipelineNext]_pipelineVars => PipelineInv'
  BY PipelineStepInv
<1>3. RestInit => RestInv
  BY RestInitInv
<1>4. RestInv /\ [RestNext]_restVars => RestInv'
  BY RestStepInv
<1>5. PipelineInv /\ RestInv => AdmissionSafe
  BY RefusedForItsOwn, LoginsWithinLimits, EarliestPass DEF PipelineInv, RestInv, AdmissionSafe
<1> QED
  BY <1>1, <1>2, <1>3, <1>4, <1>5, PTL DEF AdmissionSpec, PipelineSpec, RestSpec

-----------------------------------------------------------------------------
(* The SDK's channel: the reader misses nothing. *)

Reconnects == [at : {"idle", "session", "connecting", "delay"}, sock : Sockets \cup {0}, left : Int]
Item == [from : Sockets \cup {0}, n : Nat, size : Nat]

ChannelTypes ==
  /\ phase \in [Sockets -> {"none", "connecting", "open", "closed"}]
  /\ sent \in [Sockets -> Nat]
  /\ current \in Sockets \cup {0}
  /\ released \in BOOLEAN /\ terminalError \in BOOLEAN
  /\ fiber \in [Fibers -> Reconnects]

\* A socket that connects has a fiber that waits for it, unless that was interrupted.
ConnectingIsAwaited ==
  \A s \in Sockets : phase[s] = "connecting" =>
    s \in abandoned \/ \E f \in Fibers : fiber[f].at = "connecting" /\ fiber[f].sock = s

\* While the channel works: what was got and what is queued of a socket goes up, what was
\* got comes first, and together they are what the socket received.
Streamed ==
  ~released /\ ~terminalError =>
    /\ got \in Seq(Item) /\ queue \in Seq(Item)
    /\ \A s \in Sockets :
         /\ Ascending(s, got) /\ Ascending(s, queue)
         /\ \A i \in DOMAIN got, j \in DOMAIN queue :
              got[i].from = s /\ queue[j].from = s => got[i].n < queue[j].n
         /\ \A i \in DOMAIN got : got[i].from = s => got[i].n \in 1..sent[s]
         /\ \A j \in DOMAIN queue : queue[j].from = s => queue[j].n \in 1..sent[s]
         /\ \A n \in 1..sent[s] :
              \/ \E i \in DOMAIN got : got[i].from = s /\ got[i].n = n
              \/ \E j \in DOMAIN queue : queue[j].from = s /\ queue[j].n = n

ChannelInv == ChannelTypes /\ ConnectingIsAwaited /\ OpenIsOwned /\ Streamed

LEMMA KeepsStreamed ==
  ASSUME Streamed, UNCHANGED <<sent, released, terminalError, queue, got>>
  PROVE  Streamed'
BY DEF Streamed, Ascending

LEMMA SocketNumbers == ASSUME ChannelAssumption PROVE Sockets \subseteq Nat \ {0}
BY DEF ChannelAssumption, Sockets

\* Another item behind the queue, which is the next frame of a socket or a signal.
LEMMA Queued ==
  ASSUME ChannelAssumption, ChannelTypes, Streamed, ~released, ~terminalError, UNCHANGED got,
         NEW x \in Item, queue' = Append(queue, x),
         \/ x.from = 0 /\ UNCHANGED sent
         \/ x.from \in Sockets /\ x.n = sent[x.from] + 1 /\ sent' = [sent EXCEPT ![x.from] = @ + 1]
  PROVE  Streamed'
<1> DEFINE q == queue
           k == Len(queue) + 1
<1>1. got \in Seq(Item) /\ q \in Seq(Item)
  BY DEF Streamed
<1>2. queue' \in Seq(Item) /\ got' = got /\ got' \in Seq(Item)
  BY <1>1
<1>3. /\ DOMAIN queue' = 1..k /\ DOMAIN q = 1..(k - 1) /\ k \in Nat
      /\ queue'[k] = x /\ \A i \in DOMAIN q : queue'[i] = q[i]
  BY <1>1
<1>4. \A s \in Sockets : sent[s] \in Nat /\ sent'[s] = IF s = x.from THEN sent[s] + 1 ELSE sent[s]
  BY SocketNumbers DEF ChannelTypes
<1>5. x.from \in Sockets => x.n = sent[x.from] + 1
  BY SocketNumbers
<1>6. ASSUME NEW s \in Sockets
      PROVE  /\ Ascending(s, got)' /\ Ascending(s, queue)'
             /\ \A i \in DOMAIN got', j \in DOMAIN queue' :
                  got'[i].from = s /\ queue'[j].from = s => got'[i].n < queue'[j].n
             /\ \A i \in DOMAIN got' : got'[i].from = s => got'[i].n \in 1..sent'[s]
             /\ \A j \in DOMAIN queue' : queue'[j].from = s => queue'[j].n \in 1..sent'[s]
             /\ \A n \in 1..sent'[s] :
                  \/ \E i \in DOMAIN got' : got'[i].from = s /\ got'[i].n = n
                  \/ \E j \in DOMAIN queue' : queue'[j].from = s /\ queue'[j].n = n
  <2>1. /\ Ascending(s, got) /\ Ascending(s, queue)
        /\ \A i \in DOMAIN got, j \in DOMAIN queue :
             got[i].from = s /\ queue[j].from = s => got[i].n < queue[j].n
        /\ \A i \in DOMAIN got : got[i].from = s => got[i].n \in 1..sent[s]
        /\ \A j \in DOMAIN queue : queue[j].from = s => queue[j].n \in 1..sent[s]
        /\ \A n \in 1..sent[s] :
             \/ \E i \in DOMAIN got : got[i].from = s /\ got[i].n = n
             \/ \E j \in DOMAIN queue : queue[j].from = s /\ queue[j].n = n
    BY DEF Streamed
  <2>2. Ascending(s, got)'
    BY <1>2, <2>1 DEF Ascending
  <2>3. Ascending(s, queue)'
    BY <1>3, <1>4, <1>5, <2>1 DEF Ascending
  <2>4. \A i \in DOMAIN got', j \in DOMAIN queue' :
          got'[i].from = s /\ queue'[j].from = s => got'[i].n < queue'[j].n
    BY <1>2, <1>3, <1>4, <1>5, <2>1
  <2>5. /\ \A i \in DOMAIN got' : got'[i].from = s => got'[i].n \in 1..sent'[s]
        /\ \A j \in DOMAIN queue' : queue'[j].from = s => queue'[j].n \in 1..sent'[s]
    <3>1. \A i \in DOMAIN got' : got'[i].from = s => got'[i].n \in 1..sent'[s]
      BY <1>2, <1>3, <1>4, <1>5, <2>1
    <3>2. \A j \in DOMAIN queue' : queue'[j].from = s => queue'[j].n \in 1..sent'[s]
      BY <1>2, <1>3, <1>4, <1>5, <2>1
    <3> QED
      BY <3>1, <3>2
  <2>6. ASSUME NEW n \in 1..sent'[s]
        PROVE  \/ \E i \in DOMAIN got' : got'[i].from = s /\ got'[i].n = n
               \/ \E j \in DOMAIN queue' : queue'[j].from = s /\ queue'[j].n = n
    <3>1. CASE n \in 1..sent[s]
      BY <1>2, <1>3, <2>1, <3>1
    <3>2. CASE n \notin 1..sent[s]
      <4>1. s = x.from /\ n = x.n
        BY <1>4, <1>5, <3>2
      <4> QED
        BY <1>3, <4>1
    <3> QED
      BY <3>1, <3>2
  <2> QED
    BY <2>2, <2>3, <2>4, <2>5, <2>6
<1> QED
  BY <1>2, <1>6 DEF Streamed

\* The reader takes the first item: a frame is got, a signal is gone.
LEMMA TakenFirst ==
  ASSUME ChannelAssumption, ChannelTypes, Streamed, ~released, ~terminalError, UNCHANGED sent,
         queue # <<>>, queue' = Tail(queue),
         \/ queue[1].from = 0 /\ got' = got
         \/ got' = Append(got, queue[1])
  PROVE  Streamed'
<1>1. got \in Seq(Item) /\ queue \in Seq(Item)
  BY DEF Streamed
<1>2. queue' \in Seq(Item) /\ got' \in Seq(Item) /\ 1 \in DOMAIN queue /\ queue[1] \in Item
  BY <1>1
<1>3. \A j \in DOMAIN queue' : queue'[j] = queue[j + 1] /\ j + 1 \in DOMAIN queue /\ j \in Nat /\ 1 < j + 1
  BY <1>1
<1>4. \A j \in DOMAIN queue : j # 1 => j - 1 \in DOMAIN queue' /\ queue'[j - 1] = queue[j]
  BY <1>1
<1>5. /\ \A i \in DOMAIN got : i \in DOMAIN got' /\ got'[i] = got[i]
      /\ \A i \in DOMAIN got' : \/ i \in DOMAIN got /\ got'[i] = got[i]
                                \/ got'[i] = queue[1] /\ \A k \in DOMAIN got : k < i
      /\ queue[1].from # 0 => \E i \in DOMAIN got' : got'[i] = queue[1]
  <2>1. CASE queue[1].from = 0 /\ got' = got
    BY <2>1
  <2>2. CASE got' = Append(got, queue[1])
    <3>1. /\ DOMAIN got' = 1..(Len(got) + 1) /\ DOMAIN got = 1..Len(got) /\ Len(got) \in Nat
          /\ got'[Len(got) + 1] = queue[1] /\ \A i \in DOMAIN got : got'[i] = got[i]
      BY <1>1, <1>2, <2>2
    <3> QED
      BY <3>1
  <2> QED
    BY <2>1, <2>2
<1>6. ASSUME NEW s \in Sockets
      PROVE  /\ Ascending(s, got)' /\ Ascending(s, queue)'
             /\ \A i \in DOMAIN got', j \in DOMAIN queue' :
                  got'[i].from = s /\ queue'[j].from = s => got'[i].n < queue'[j].n
             /\ \A i \in DOMAIN got' : got'[i].from = s => got'[i].n \in 1..sent'[s]
             /\ \A j \in DOMAIN queue' : queue'[j].from = s => queue'[j].n \in 1..sent'[s]
             /\ \A n \in 1..sent'[s] :
                  \/ \E i \in DOMAIN got' : got'[i].from = s /\ got'[i].n = n
                  \/ \E j \in DOMAIN queue' : queue'[j].from = s /\ queue'[j].n = n
  <2>0. s # 0 /\ \A i, j \in Nat : i < j => ~(j < i) /\ i # j
    BY SocketNumbers
  <2>1. /\ Ascending(s, got) /\ Ascending(s, queue)
        /\ \A i \in DOMAIN got, j \in DOMAIN queue :
             got[i].from = s /\ queue[j].from = s => got[i].n < queue[j].n
        /\ \A i \in DOMAIN got : got[i].from = s => got[i].n \in 1..sent[s]
        /\ \A j \in DOMAIN queue : queue[j].from = s => queue[j].n \in 1..sent[s]
        /\ \A n \in 1..sent[s] :
             \/ \E i \in DOMAIN got : got[i].from = s /\ got[i].n = n
             \/ \E j \in DOMAIN queue : queue[j].from = s /\ queue[j].n = n
    BY DEF Streamed
  <2>2. Ascending(s, got)'
    <3>1. SUFFICES ASSUME NEW i \in DOMAIN got', NEW j \in DOMAIN got', i < j,
                          got'[i].from = s, got'[j].from = s
                   PROVE  got'[i].n < got'[j].n
      BY DEF Ascending
    <3>2. i \in Nat /\ j \in Nat
      BY <1>2
    <3>3. CASE i \in DOMAIN got
      BY <1>2, <1>5, <2>1, <3>1, <3>3 DEF Ascending
    <3>4. CASE i \notin DOMAIN got
      BY <1>5, <2>0, <3>1, <3>2, <3>4, <1>1, <1>2
    <3> QED
      BY <3>3, <3>4
  <2>3. Ascending(s, queue)'
    BY <1>3, <2>1 DEF Ascending
  <2>4. \A i \in DOMAIN got', j \in DOMAIN queue' :
          got'[i].from = s /\ queue'[j].from = s => got'[i].n < queue'[j].n
    BY <1>2, <1>3, <1>5, <2>1 DEF Ascending
  <2>5. /\ \A i \in DOMAIN got' : got'[i].from = s => got'[i].n \in 1..sent'[s]
        /\ \A j \in DOMAIN queue' : queue'[j].from = s => queue'[j].n \in 1..sent'[s]
    <3>1. ASSUME NEW i \in DOMAIN got', got'[i].from = s
          PROVE  got'[i].n \in 1..sent[s]
      <4>1. \/ i \in DOMAIN got /\ got'[i] = got[i]
            \/ got'[i] = queue[1]
        BY <1>5
      <4>2. queue[1].from = s => queue[1].n \in 1..sent[s]
        BY <1>2, <2>1
      <4> QED
        BY <2>1, <3>1, <4>1, <4>2
    <3>2. ASSUME NEW j \in DOMAIN queue', queue'[j].from = s
          PROVE  queue'[j].n \in 1..sent[s]
      BY <1>3, <2>1, <3>2
    <3> QED
      BY <3>1, <3>2
  <2>6. ASSUME NEW n \in 1..sent'[s]
        PROVE  \/ \E i \in DOMAIN got' : got'[i].from = s /\ got'[i].n = n
               \/ \E j \in DOMAIN queue' : queue'[j].from = s /\ queue'[j].n = n
    <3>1. CASE \E i \in DOMAIN got : got[i].from = s /\ got[i].n = n
      BY <1>5, <3>1
    <3>2. CASE \E j \in DOMAIN queue : queue[j].from = s /\ queue[j].n = n
      <4>1. PICK j \in DOMAIN queue : queue[j].from = s /\ queue[j].n = n
        BY <3>2
      <4>2. CASE j = 1
        BY <1>5, <2>0, <4>1, <4>2
      <4>3. CASE j # 1
        BY <1>4, <4>1, <4>3
      <4> QED
        BY <4>2, <4>3
    <3> QED
      BY <2>1, <3>1, <3>2
  <2> QED
    BY <2>2, <2>3, <2>4, <2>5, <2>6
<1> QED
  BY <1>2, <1>6 DEF Streamed

-----------------------------------------------------------------------------
\* A step that changes the owner of no open socket.
LEMMA SameSockets ==
  ASSUME OpenIsOwned, current' = current, abandoned \subseteq abandoned',
         \A s \in Sockets : phase'[s] = "open" => phase[s] = "open"
  PROVE  OpenIsOwned'
BY DEF OpenIsOwned

LEMMA SameWaiters ==
  ASSUME ConnectingIsAwaited, abandoned \subseteq abandoned', fiber' = fiber,
         \A s \in Sockets : phase'[s] = "connecting" => phase[s] = "connecting"
  PROVE  ConnectingIsAwaited'
BY DEF ConnectingIsAwaited

\* A frame, a drain or the end of the scope changes no fiber, and opens no socket.
LEMMA FailKeeps ==
  ASSUME ChannelInv, NEW s \in Sockets, failTerminal(s), UNCHANGED <<fiberVars, released>>,
         sent' \in [Sockets -> Nat], s = current \/ phase[s] = "open"
  PROVE  ChannelInv'
<1> USE DEF ChannelInv, failTerminal, fiberVars
<1>1. ChannelTypes'
  BY DEF ChannelTypes
<1>2. \A t \in Sockets : phase'[t] = IF t = s THEN "closed" ELSE phase[t]
  BY DEF ChannelTypes
<1>3. ConnectingIsAwaited'
  BY <1>2, SameWaiters
<1>4. OpenIsOwned'
  BY <1>2 DEF OpenIsOwned
<1>5. Streamed'
  BY DEF Streamed
<1> QED
  BY <1>1, <1>3, <1>4, <1>5

LEMMA OnMessage ==
  ASSUME ChannelAssumption, ChannelInv, NEW s \in Sockets, onmessage(s)
  PROVE  ChannelInv'
<1>1. PICK size \in Sizes : offerFrame(s, size)
  BY DEF onmessage
<1>2. sent' \in [Sockets -> Nat] /\ size \in Nat /\ sent[s] + 1 \in Nat
  BY DEF onmessage, ChannelInv, ChannelTypes, ChannelAssumption
<1>3. CASE failTerminal(s)
  BY <1>2, <1>3, FailKeeps DEF onmessage
<1>4. CASE ~failTerminal(s)
  <2> DEFINE x == Frame(s, sent[s] + 1, size)
  <2>1. queue' = Append(queue, x) /\ UNCHANGED <<phase, deaf, current, terminalError, released, got, fiberVars>>
    BY <1>1, <1>4 DEF offerFrame, onmessage, readVars
  <2>2. x \in Item /\ x.from = s /\ x.n = sent[s] + 1
    BY <1>2 DEF Frame, Item
  <2>3. ChannelTypes' /\ ConnectingIsAwaited' /\ OpenIsOwned'
    BY <1>2, <2>1, SameSockets, SameWaiters DEF ChannelInv, ChannelTypes, fiberVars
  <2>4. Streamed'
    <3> HIDE DEF x
    <3> QED
      BY <2>1, <2>2, Queued DEF onmessage, ChannelInv
  <2> QED
    BY <2>3, <2>4 DEF ChannelInv
<1> QED
  BY <1>3, <1>4

LEMMA OnClose ==
  ASSUME ChannelAssumption, ChannelInv, NEW s \in Sockets, onclose(s)
  PROVE  ChannelInv'
<1> USE DEF ChannelInv
<1>1. \A t \in Sockets : phase'[t] = IF t = s THEN "closed" ELSE phase[t]
  BY DEF onclose, ChannelTypes
<1>2. ChannelTypes'
  BY DEF onclose, ChannelTypes, fiberVars
<1>3. ConnectingIsAwaited'
  BY <1>1, SameWaiters DEF onclose, fiberVars
<1>4. OpenIsOwned'
  BY <1>1 DEF onclose, OpenIsOwned, fiberVars
<1>5. Streamed'
  <2>1. CASE UNCHANGED queue
    BY <2>1, KeepsStreamed DEF onclose, readVars
  <2>2. CASE queue' = Append(queue, disconnectSignal)
    <3> DEFINE x == disconnectSignal
    <3>1. x \in Item /\ x.from = 0
      BY DEF Item, disconnectSignal, Frame
    <3>2. UNCHANGED <<sent, got, released, terminalError>> /\ queue' = Append(queue, x)
      BY <2>2 DEF onclose, readVars
    <3>3. CASE ~released /\ ~terminalError
      <4> HIDE DEF x
      <4> QED
        BY <2>2, <3>1, <3>2, <3>3, Queued
    <3>4. CASE released \/ terminalError
      BY <3>2, <3>4 DEF Streamed
    <3> QED
      BY <3>3, <3>4
  <2> QED
    BY <2>1, <2>2 DEF onclose
<1> QED
  BY <1>2, <1>3, <1>4, <1>5

LEMMA OnOpen ==
  ASSUME ChannelAssumption, ChannelInv, NEW s \in Sockets, onopen(s)
  PROVE  ChannelInv'
<1> USE DEF ChannelInv
<1>0. UNCHANGED <<sent, released, terminalError, queue, got, abandoned>>
  BY DEF onopen, queueVars, readVars
<1>1. ChannelTypes'
  BY <1>0 DEF onopen, attach, ChannelTypes, NoReconnect, Reconnects
<1>2. \A t \in Sockets : phase'[t] = "connecting" => t # s /\ phase[t] = "connecting"
  BY DEF onopen, attach, ChannelTypes
<1>3. ConnectingIsAwaited'
  <2>1. SUFFICES ASSUME NEW t \in Sockets, phase'[t] = "connecting", t \notin abandoned
                 PROVE  \E f \in Fibers : fiber'[f].at = "connecting" /\ fiber'[f].sock = t
    BY <1>0 DEF ConnectingIsAwaited
  <2>2. PICK f \in Fibers : fiber[f].at = "connecting" /\ fiber[f].sock = t
    BY <1>2, <2>1 DEF ConnectingIsAwaited
  <2>3. f \notin Awaiting(s) /\ fiber'[f] = fiber[f]
    BY <1>2, <2>1, <2>2 DEF onopen, Awaiting
  <2> QED
    BY <2>2, <2>3
<1>4. OpenIsOwned'
  <2>1. CASE Awaiting(s) = {}
    <3>1. s \in abandoned
      BY <2>1 DEF onopen, ConnectingIsAwaited, Awaiting
    <3> QED
      BY <1>0, <2>1, <3>1 DEF onopen, OpenIsOwned, ChannelTypes
  <2>2. CASE attach(s)
    BY <1>0, <2>2 DEF attach, OpenIsOwned, ChannelTypes
  <2> QED
    BY <2>1, <2>2 DEF onopen
<1>5. Streamed'
  BY <1>0, KeepsStreamed
<1> QED
  BY <1>1, <1>3, <1>4, <1>5

LEMMA OnError ==
  ASSUME ChannelAssumption, ChannelInv, NEW s \in Sockets, onerror(s)
  PROVE  ChannelInv'
<1> USE DEF ChannelInv
<1>0. UNCHANGED <<sent, released, terminalError, queue, got, abandoned, current>>
  BY DEF onerror, queueVars, readVars
<1>1. \A f \in Fibers : AfterFailure(f) \in Reconnects
  BY DEF ChannelTypes, AfterFailure, NoReconnect, Reconnects
<1>2. ChannelTypes'
  BY <1>0, <1>1 DEF onerror, ChannelTypes
<1>3. \A t \in Sockets : phase'[t] = IF t = s THEN "closed" ELSE phase[t]
  BY DEF onerror, ChannelTypes
<1>4. ConnectingIsAwaited'
  <2>1. SUFFICES ASSUME NEW t \in Sockets, phase'[t] = "connecting", t \notin abandoned
                 PROVE  \E f \in Fibers : fiber'[f].at = "connecting" /\ fiber'[f].sock = t
    BY <1>0 DEF ConnectingIsAwaited
  <2>2. t # s /\ phase[t] = "connecting"
    BY <1>3, <2>1
  <2>3. PICK f \in Fibers : fiber[f].at = "connecting" /\ fiber[f].sock = t
    BY <2>1, <2>2 DEF ConnectingIsAwaited
  <2>4. f \notin Awaiting(s) /\ fiber'[f] = fiber[f]
    BY <2>2, <2>3 DEF onerror, Awaiting
  <2> QED
    BY <2>3, <2>4
<1>5. OpenIsOwned'
  BY <1>0, <1>3, SameSockets
<1>6. Streamed'
  BY <1>0, KeepsStreamed
<1> QED
  BY <1>2, <1>4, <1>5, <1>6

\* A step of fiber f: it leaves no socket it waits for unless that becomes abandoned.
FiberMoves(f) ==
  /\ phase' \in [Sockets -> {"none", "connecting", "open", "closed"}]
  /\ fiber' \in [Fibers -> Reconnects]
  /\ \A g \in Fibers : g # f => fiber'[g] = fiber[g]
  /\ abandoned \subseteq abandoned'
  /\ fiber[f].at = "connecting" /\ fiber[f].sock \in Sockets => fiber[f].sock \in abandoned'
  /\ \A s \in Sockets : phase'[s] = "open" => phase[s] = "open"
  /\ \A s \in Sockets : phase'[s] = "connecting" =>
       phase[s] = "connecting" \/ (fiber'[f].at = "connecting" /\ fiber'[f].sock = s)

LEMMA FiberSteps ==
  ASSUME ChannelInv, NEW f \in Fibers, FiberMoves(f),
         UNCHANGED <<sent, current, released, terminalError, queue, got>>
  PROVE  ChannelInv'
<1> USE DEF ChannelInv
<1>1. ChannelTypes'
  BY DEF ChannelTypes, FiberMoves
<1>2. ConnectingIsAwaited'
  BY DEF ConnectingIsAwaited, FiberMoves
<1>3. OpenIsOwned'
  BY SameSockets DEF FiberMoves
<1>4. Streamed'
  BY KeepsStreamed
<1> QED
  BY <1>1, <1>2, <1>3, <1>4

LEMMA ReconnectKeeps ==
  ASSUME ChannelAssumption, ChannelInv, NEW f \in Fibers,
         reconnect(f) \/ RetryNow(f)
  PROVE  ChannelInv'
<1>1. UNCHANGED <<sent, phase, current, released, terminalError, queue, got, abandoned>>
  BY DEF reconnect, RetryNow, sockVars, queueVars, readVars
<1>2. fiber' \in [Fibers -> Reconnects]
  BY DEF ChannelAssumption, ChannelInv, ChannelTypes, reconnect, RetryNow, Reconnects
<1>3. fiber[f].at # "connecting" /\ \A g \in Fibers : g # f => fiber'[g] = fiber[g]
  BY DEF ChannelInv, ChannelTypes, reconnect, RetryNow
<1>4. FiberMoves(f)
  BY <1>1, <1>2, <1>3 DEF FiberMoves, ChannelInv, ChannelTypes
<1> QED
  BY <1>1, <1>4, FiberSteps

LEMMA ConnectKeeps ==
  ASSUME ChannelAssumption, ChannelInv, NEW f \in Fibers, connectOnce(f)
  PROVE  ChannelInv'
<1>1. UNCHANGED <<sent, current, released, terminalError, queue, got, abandoned>>
  BY DEF connectOnce, queueVars, readVars
<1>2. fiber[f].at = "session" /\ ChannelTypes
  BY DEF connectOnce, ChannelInv
<1>3. AfterFailure(f) \in Reconnects
  BY <1>2 DEF ChannelTypes, AfterFailure, NoReconnect, Reconnects
<1>4. CASE fiber' = [fiber EXCEPT ![f] = AfterFailure(f)] /\ UNCHANGED phase
  <2>1. fiber' \in [Fibers -> Reconnects]
    BY <1>2, <1>3, <1>4 DEF ChannelTypes
  <2>2. \A g \in Fibers : g # f => fiber'[g] = fiber[g]
    BY <1>2, <1>4 DEF ChannelTypes
  <2>3. FiberMoves(f)
    BY <1>1, <1>2, <1>4, <2>1, <2>2 DEF ChannelTypes, FiberMoves
  <2> QED
    BY <1>1, <2>3, FiberSteps
<1>5. CASE \E s \in Sockets :
             /\ phase' = [phase EXCEPT ![s] = "connecting"]
             /\ fiber' = [fiber EXCEPT ![f].at = "connecting", ![f].sock = s]
  <2>1. PICK s \in Sockets : /\ phase' = [phase EXCEPT ![s] = "connecting"]
                             /\ fiber' = [fiber EXCEPT ![f].at = "connecting", ![f].sock = s]
    BY <1>5
  <2>2. fiber' \in [Fibers -> Reconnects]
    BY <1>2, <2>1 DEF ChannelTypes, Reconnects
  <2>3. \A g \in Fibers : g # f => fiber'[g] = fiber[g]
    BY <1>2, <2>1 DEF ChannelTypes
  <2>4. fiber'[f].at = "connecting" /\ fiber'[f].sock = s
    BY <1>2, <2>1 DEF ChannelTypes, Reconnects
  <2>5. /\ phase' \in [Sockets -> {"none", "connecting", "open", "closed"}]
        /\ \A t \in Sockets : phase'[t] = IF t = s THEN "connecting" ELSE phase[t]
    BY <1>2, <2>1 DEF ChannelTypes
  <2>6. FiberMoves(f)
    BY <1>1, <1>2, <2>2, <2>3, <2>4, <2>5 DEF FiberMoves
  <2> QED
    BY <1>1, <2>6, FiberSteps
<1> QED
  BY <1>4, <1>5 DEF connectOnce

LEMMA InterruptKeeps ==
  ASSUME ChannelAssumption, ChannelInv, NEW f \in Fibers, Interrupt(f)
  PROVE  ChannelInv'
<1>1. UNCHANGED <<sent, phase, current, released, terminalError, queue, got>>
  BY DEF Interrupt, sockVars, queueVars, readVars
<1>2. fiber' \in [Fibers -> Reconnects]
  BY DEF Interrupt, ChannelInv, ChannelTypes, NoReconnect, Reconnects
<1>3. \A g \in Fibers : g # f => fiber'[g] = fiber[g]
  BY DEF Interrupt, ChannelInv, ChannelTypes
<1>4. abandoned \subseteq abandoned' /\ (fiber[f].sock \in Sockets => fiber[f].sock \in abandoned')
  BY SocketNumbers DEF Interrupt
<1>5. FiberMoves(f)
  BY <1>1, <1>2, <1>3, <1>4 DEF ChannelInv, ChannelTypes, FiberMoves
<1> QED
  BY <1>1, <1>5, FiberSteps


LEMMA TakeKeeps ==
  ASSUME ChannelAssumption, ChannelInv, takeOutput
  PROVE  ChannelInv'
<1>1. UNCHANGED <<phase, deaf, sent, current, released, terminalError, fiber, abandoned>>
  BY DEF takeOutput, sockVars, fiberVars
<1>2. ChannelTypes' /\ ConnectingIsAwaited' /\ OpenIsOwned'
  BY <1>1, SameSockets, SameWaiters DEF ChannelInv, ChannelTypes
<1>3. Streamed'
  <2>1. CASE ~released /\ ~terminalError
    <3>1. queue # <<>> /\ queue \in Seq(Item) /\ queue' = Tail(queue) /\ Head(queue) = queue[1]
      BY <2>1 DEF takeOutput, ChannelInv, Streamed
    <3>2. \/ queue[1].from = 0 /\ got' = got
          \/ got' = Append(got, queue[1])
      BY <3>1 DEF takeOutput, disconnectSignal, failureSignal, Frame
    <3> QED
      BY <1>1, <2>1, <3>1, <3>2, TakenFirst DEF ChannelInv
  <2>2. CASE released \/ terminalError
    BY <1>1, <2>2 DEF Streamed
  <2> QED
    BY <2>1, <2>2
<1> QED
  BY <1>2, <1>3 DEF ChannelInv

LEMMA ReleaseKeeps ==
  ASSUME ChannelAssumption, ChannelInv, Release
  PROVE  ChannelInv'
<1> USE DEF ChannelInv, Release, fiberVars
<1>1. ChannelTypes'
  BY DEF ChannelTypes
<1>2. \A t \in Sockets : phase'[t] = phase[t] \/ phase'[t] = "closed"
  BY DEF ChannelTypes
<1>3. ConnectingIsAwaited'
  BY <1>2, SameWaiters
<1>4. OpenIsOwned'
  BY <1>2, SameSockets
<1>5. Streamed'
  BY DEF Streamed
<1> QED
  BY <1>1, <1>3, <1>4, <1>5

LEMMA ChannelStep ==
  ASSUME ChannelAssumption, ChannelInv, [ChannelNext]_channelVars
  PROVE  ChannelInv'
<1>1. CASE \E s \in Sockets : onmessage(s) \/ onclose(s) \/ onopen(s) \/ onerror(s)
  BY <1>1, OnMessage, OnClose, OnOpen, OnError
<1>2. CASE \E f \in Fibers : reconnect(f) \/ connectOnce(f) \/ RetryNow(f) \/ Interrupt(f)
  BY <1>2, ReconnectKeeps, ConnectKeeps, InterruptKeeps
<1>3. CASE SendOverLimit
  <2>1. current \in Sockets /\ sent' \in [Sockets -> Nat]
    BY <1>3 DEF SendOverLimit, ChannelInv, ChannelTypes
  <2> QED
    BY <1>3, <2>1, FailKeeps DEF SendOverLimit
<1>4. CASE output \/ UNCHANGED channelVars
  <2>1. UNCHANGED <<phase, sent, current, released, terminalError, queue, got, fiber, abandoned>>
    BY <1>4 DEF output, channelVars, sockVars, queueVars, fiberVars
  <2> QED
    BY <2>1, KeepsStreamed, SameSockets, SameWaiters DEF ChannelInv, ChannelTypes
<1>5. CASE takeOutput
  BY <1>5, TakeKeeps
<1>6. CASE Release
  BY <1>6, ReleaseKeeps
<1> QED
  BY <1>1, <1>2, <1>3, <1>4, <1>5, <1>6 DEF ChannelNext

LEMMA ChannelStarts ==
  ASSUME ChannelAssumption, ChannelInit
  PROVE  ChannelInv
<1> USE DEF ChannelInit, ChannelAssumption
<1>1. 1 \in Sockets /\ NoReconnect \in Reconnects
  BY DEF NoReconnect, Sockets, Reconnects
<1>1a. ChannelTypes
  BY <1>1 DEF ChannelTypes
<1>2. ConnectingIsAwaited /\ OpenIsOwned
  BY DEF ConnectingIsAwaited, OpenIsOwned
<1>3. Streamed
  BY DEF Streamed, Ascending
<1> QED
  BY <1>1a, <1>2, <1>3 DEF ChannelInv

\* Got and queued one after the other are what the socket received, in its order.
LEMMA StreamedIsComplete ==
  ASSUME ChannelAssumption, ChannelInv
  PROVE  FramesComplete
<1>1. SUFFICES ASSUME ~released, ~terminalError, NEW s \in Sockets
               PROVE  NumbersIn(s, got \o queue) = 1..sent[s] /\ Ascending(s, got \o queue)
  BY DEF FramesComplete
<1> DEFINE all == got \o queue
           k == Len(got)
<1>2. got \in Seq(Item) /\ queue \in Seq(Item)
  BY <1>1 DEF ChannelInv, Streamed
<1>3. /\ Ascending(s, got) /\ Ascending(s, queue)
      /\ \A i \in DOMAIN got, j \in DOMAIN queue :
           got[i].from = s /\ queue[j].from = s => got[i].n < queue[j].n
      /\ \A i \in DOMAIN got : got[i].from = s => got[i].n \in 1..sent[s]
      /\ \A j \in DOMAIN queue : queue[j].from = s => queue[j].n \in 1..sent[s]
      /\ \A n \in 1..sent[s] :
           \/ \E i \in DOMAIN got : got[i].from = s /\ got[i].n = n
           \/ \E j \in DOMAIN queue : queue[j].from = s /\ queue[j].n = n
  BY <1>1 DEF ChannelInv, Streamed
<1>4. /\ k \in Nat /\ DOMAIN all \subseteq Nat
      /\ \A i \in DOMAIN got : i \in DOMAIN all /\ all[i] = got[i] /\ i <= k
      /\ \A j \in DOMAIN queue : j + k \in DOMAIN all /\ all[j + k] = queue[j]
      /\ \A i \in DOMAIN all : IF i <= k THEN i \in DOMAIN got /\ all[i] = got[i]
                                          ELSE i - k \in DOMAIN queue /\ all[i] = queue[i - k]
  BY <1>2
<1> HIDE DEF all, k
<1>5. Ascending(s, all)
  <2>1. SUFFICES ASSUME NEW i \in DOMAIN all, NEW j \in DOMAIN all, i < j, all[i].from = s, all[j].from = s
                 PROVE  all[i].n < all[j].n
    BY DEF Ascending
  <2>2. i \in Nat /\ j \in Nat
    BY <1>4
  <2>3. CASE j <= k
    BY <1>3, <1>4, <2>1, <2>2, <2>3 DEF Ascending
  <2>4. CASE ~(j <= k) /\ i <= k
    BY <1>3, <1>4, <2>1, <2>2, <2>4
  <2>5. CASE ~(i <= k)
    <3>1. /\ i - k \in DOMAIN queue /\ j - k \in DOMAIN queue /\ i - k < j - k
          /\ all[i] = queue[i - k] /\ all[j] = queue[j - k]
      BY <1>4, <2>1, <2>2, <2>5
    <3> QED
      BY <1>3, <2>1, <3>1 DEF Ascending
  <2> QED
    BY <1>4, <2>2, <2>3, <2>4, <2>5
<1>6. ASSUME NEW n \in NumbersIn(s, all)
      PROVE  n \in 1..sent[s]
  <2>1. PICK i \in DOMAIN all : all[i].from = s /\ all[i].n = n
    BY <1>6 DEF NumbersIn
  <2> QED
    BY <1>3, <1>4, <2>1
<1>7. ASSUME NEW n \in 1..sent[s]
      PROVE  n \in NumbersIn(s, all)
  <2>1. \E i \in DOMAIN all : all[i].from = s /\ all[i].n = n
    <3>1. CASE \E i \in DOMAIN got : got[i].from = s /\ got[i].n = n
      BY <1>4, <3>1
    <3>2. CASE \E j \in DOMAIN queue : queue[j].from = s /\ queue[j].n = n
      BY <1>4, <3>2
    <3> QED
      BY <1>3, <3>1, <3>2
  <2> QED
    BY <2>1 DEF NumbersIn
<1>8. NumbersIn(s, all) = 1..sent[s]
  BY <1>6, <1>7
<1> QED
  BY <1>5, <1>8 DEF all

\* No frame a socket handed over is lost, repeated or reordered before the reader unless
\* the channel failed or was released, and every open socket is the attached one or one
\* whose reconnect was interrupted (openChannel).
THEOREM ReaderMissesNothing ==
  ASSUME ChannelAssumption
  PROVE  ChannelSpec => []NoSilentGap
<1>1. ChannelInit => ChannelInv
  BY ChannelStarts
<1>2. ChannelInv /\ [ChannelNext]_channelVars => ChannelInv'
  BY ChannelStep
<1>3. ChannelInv => NoSilentGap
  BY StreamedIsComplete DEF NoSilentGap, ChannelInv
<1> QED
  BY <1>1, <1>2, <1>3, PTL DEF ChannelSpec
=============================================================================
