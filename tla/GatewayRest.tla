----------------------------- MODULE GatewayRest -----------------------------
(***************************************************************************)
(* REST requests through the gateway: restRateLimiter (rest_limiter.go),   *)
(* restActiveLimiter (rest_active_limiter.go) and the single-flight        *)
(* readinessCache (readiness_cache.go), in the order in which ServeHTTP    *)
(* and serveControlPlaneREST (router.go) use them.  Each mutex region is   *)
(* one step; a request reads the clock before it waits for a mutex.        *)
(***************************************************************************)
EXTENDS Naturals, FiniteSets, Functions

CONSTANTS
  RestRequests,
  Source,        \* the coarse address of each request
  RateSlot,      \* the limiter's slot of each source
  Readiness,     \* the requests for /readyz
  RestLimit,     \* RESTRequestsPerWindow
  Window,        \* RESTWindow
  MaxActive,     \* RESTMaxActive
  MaxPerSource,  \* RESTMaxActivePerSource
  CacheTTL,      \* readinessCacheTTL
  RestMaxTime    \* bound on the clock; time starts at 1

RestAssumption ==
  /\ Readiness \subseteq RestRequests /\ IsFiniteSet(RestRequests)
  /\ DOMAIN Source = RestRequests /\ DOMAIN RateSlot = Range(Source)
  /\ {RestLimit, Window, MaxActive, MaxPerSource, CacheTTL, RestMaxTime} \subseteq Nat \ {0}

Peers == Range(Source)
RateSlots == Range(RateSlot)

VARIABLES
  clock,
  healthy,        \* whether the control plane answers
  slots,          \* restRateSlot: start of the window, 0 for the zero time, and count
  at,             \* the clock each request read
  verdict,        \* of the rate limiter: "none", "allowed" or "refused"
  pc,             \* where each request is
  gone,           \* requests whose context ended
  total, byPeer,  \* the active limiter
  result,         \* of the cache: "none", "ready" or "failed", and when it expires
  inFlight,       \* whether the cache has a probe under way
  told            \* what each readiness request was told

restVars == <<clock, healthy, slots, at, verdict, pc, gone, total, byPeer, result, inFlight, told>>
rateVars == <<slots, at, verdict>>
activeVars == <<total, byPeer>>
cacheVars == <<result, inFlight, told>>
worldVars == <<clock, healthy>>

Zero == [started |-> 0, count |-> 0]

RestInit ==
  /\ clock = 1 /\ healthy = TRUE
  /\ slots = [k \in RateSlots |-> Zero] /\ at = [r \in RestRequests |-> 0] /\ verdict = [r \in RestRequests |-> "none"]
  /\ pc = [r \in RestRequests |-> "new"] /\ gone = {}
  /\ total = 0 /\ byPeer = [s \in Peers |-> 0]
  /\ result = [status |-> "none", until |-> 0] /\ inFlight = FALSE
  /\ told = [r \in RestRequests |-> "nothing"]

Go(r, to) == pc' = [pc EXCEPT ![r] = to]

-----------------------------------------------------------------------------
(* The world. *)

RestTick ==
  /\ clock < RestMaxTime /\ clock' = clock + 1
  /\ UNCHANGED <<healthy, rateVars, pc, gone, activeVars, cacheVars>>

Turns ==
  /\ healthy' = ~healthy
  /\ UNCHANGED <<clock, rateVars, pc, gone, activeVars, cacheVars>>

\* A client leaves, or RESTMaxDuration is over.  What is proxied just ends.
Leaves(r) ==
  /\ pc[r] \in {"ready", "parked", "probe"} /\ r \notin gone /\ gone' = gone \cup {r}
  /\ UNCHANGED <<worldVars, rateVars, pc, activeVars, cacheVars>>

-----------------------------------------------------------------------------
(* restRateLimiter.allow *)

Arrive(r) ==
  /\ pc[r] = "new" /\ Go(r, "rate") /\ at' = [at EXCEPT ![r] = clock]
  /\ UNCHANGED <<worldVars, slots, verdict, gone, activeVars, cacheVars>>

NewWindow(slot, t) == slot.started = 0 \/ t < slot.started \/ t - slot.started >= Window

Allowed(slot, t) == NewWindow(slot, t) \/ slot.count < RestLimit

CountedIn(slot, t) ==
  IF NewWindow(slot, t) THEN [started |-> t, count |-> 1]
  ELSE IF slot.count < RestLimit THEN [slot EXCEPT !.count = @ + 1] ELSE slot

allow(r) ==
  LET k == RateSlot[Source[r]]  passes == Allowed(slots[k], at[r]) IN
  /\ pc[r] = "rate" /\ Go(r, IF passes THEN "acquire" ELSE "done")
  /\ slots' = [slots EXCEPT ![k] = CountedIn(@, at[r])]
  /\ verdict' = [verdict EXCEPT ![r] = IF passes THEN "allowed" ELSE "refused"]
  /\ UNCHANGED <<worldVars, at, gone, activeVars, cacheVars>>

-----------------------------------------------------------------------------
(* restActiveLimiter and serveControlPlaneREST *)

acquire(r) ==
  LET s == Source[r] IN
  /\ pc[r] = "acquire"
  /\ IF total >= MaxActive \/ byPeer[s] >= MaxPerSource THEN Go(r, "done") /\ UNCHANGED activeVars
     ELSE /\ total' = total + 1 /\ byPeer' = [byPeer EXCEPT ![s] = @ + 1]
          /\ Go(r, IF r \in Readiness THEN "ready" ELSE "proxy")
  /\ UNCHANGED <<worldVars, rateVars, gone, cacheVars>>

\* The proxy returns, fails or panics: release is deferred.
release(r) ==
  /\ pc[r] \in {"proxy", "leave"} /\ Go(r, "done")
  /\ total' = total - 1 /\ byPeer' = [byPeer EXCEPT ![Source[r]] = @ - 1]
  /\ UNCHANGED <<worldVars, rateVars, gone, cacheVars>>

-----------------------------------------------------------------------------
(* readinessCache.get *)

get(r) ==
  /\ pc[r] = "ready"
  /\ \/ /\ result.until > clock /\ Go(r, "leave")
        /\ told' = [told EXCEPT ![r] = result.status] /\ UNCHANGED <<result, inFlight>>
     \/ /\ result.until <= clock /\ inFlight /\ Go(r, "parked") /\ UNCHANGED cacheVars
     \/ /\ result.until <= clock /\ ~inFlight /\ Go(r, "probe")
        /\ inFlight' = TRUE /\ UNCHANGED <<result, told>>
  /\ UNCHANGED <<worldVars, rateVars, gone, activeVars>>

\* The flight is over: whoever waited looks at the cache again.
Land(r) == pc' = [q \in RestRequests |-> IF q = r THEN "leave" ELSE IF pc[q] = "parked" THEN "ready" ELSE pc[q]]

\* The probe runs under the request's own context, and fails when that ends first.
Probed(r) ==
  /\ pc[r] = "probe" /\ Land(r) /\ inFlight' = FALSE
  /\ \E status \in {"ready", "failed"} :
       /\ status = "ready" => healthy
       /\ status = "failed" => ~healthy \/ r \in gone
       /\ result' = [status |-> status, until |-> clock + CacheTTL]
       /\ told' = [told EXCEPT ![r] = status]
  /\ UNCHANGED <<worldVars, rateVars, gone, activeVars>>

\* Mutant: the panic unwinds through get.
PanicsThrough(r) ==
  /\ pc[r] = "probe" /\ Go(r, "leave")
  /\ told' = [told EXCEPT ![r] = "error"]
  /\ UNCHANGED <<worldVars, rateVars, gone, activeVars, result, inFlight>>

\* The response breaks off: runReadinessFetch recovers, nothing is cached.
Panics(r) ==
  /\ pc[r] = "probe" /\ Land(r) /\ inFlight' = FALSE
  /\ told' = [told EXCEPT ![r] = "error"]
  /\ UNCHANGED <<worldVars, rateVars, gone, activeVars, result>>

GivesUp(r) ==
  /\ pc[r] = "parked" /\ r \in gone /\ Go(r, "leave")
  /\ told' = [told EXCEPT ![r] = "error"]
  /\ UNCHANGED <<worldVars, rateVars, gone, activeVars, result, inFlight>>

RestNext ==
  \/ RestTick \/ Turns
  \/ \E r \in RestRequests :
       \/ Arrive(r) \/ allow(r) \/ acquire(r) \/ release(r) \/ Leaves(r)
       \/ get(r) \/ Probed(r) \/ Panics(r) \/ GivesUp(r)

RestSpec == RestInit /\ [][RestNext]_restVars

-----------------------------------------------------------------------------

Holding == {r \in RestRequests : pc[r] \in {"proxy", "ready", "parked", "probe", "leave"}}

\* The active limiter counts exactly the requests that are being served, in total and
\* of each source, whoever leaves, and both stay within their limits.
CountsServed ==
  /\ total = Cardinality(Holding) /\ total <= MaxActive
  /\ \A s \in Peers :
       byPeer[s] = Cardinality({r \in Holding : Source[r] = s}) /\ byPeer[s] <= MaxPerSource

\* A request is refused only when its slot, which sources may share, let RestLimit
\* others through within one window of it (allow, rest_limiter.go).
RefusedForTraffic ==
  \A r \in RestRequests : verdict[r] = "refused" =>
    Cardinality({q \in RestRequests : /\ verdict[q] = "allowed" /\ RateSlot[Source[q]] = RateSlot[Source[r]]
                                  /\ at[q] < at[r] + Window /\ at[r] < at[q] + Window}) >= RestLimit

Judged(k) == {r \in RestRequests : verdict[r] # "none" /\ RateSlot[Source[r]] = k}
ReadAt(k, t) == {r \in Judged(k) : verdict[r] = "allowed" /\ at[r] = t}

\* While a slot has judged requests of one window only, it lets at most RestLimit of
\* those through that read the earliest moment.  There is no bound on later moments
\* of the window: an older reading that is judged late starts the count again
\* (allow, rest_limiter.go:49).
EarliestWithinLimit ==
  \A k \in RateSlots : \A t \in {at[r] : r \in Judged(k)} :
    (\A q \in Judged(k) : t <= at[q] /\ at[q] < t + Window) =>
      Cardinality(ReadAt(k, t)) <= RestLimit

\* One probe at most is under way, and the flight is marked exactly while it is:
\* no panic or departed client leaves later requests waiting for nobody.
OneProbe ==
  Cardinality({r \in RestRequests : pc[r] = "probe"}) = IF inFlight THEN 1 ELSE 0

\* The readiness cache has one probe in flight, also when probes panic and clients
\* leave, and the active limiter counts exactly what is served (gateway/readiness_cache.go,
\* rest_active_limiter.go).
SingleFlight == OneProbe /\ CountsServed
=============================================================================
