------------------------------ MODULE MCTraffic ------------------------------
(***************************************************************************)
(* Requests and streams on their way through the control plane, the        *)
(* gateway and the SDK, for TLC.  The components with theorems are         *)
(* extended, so that what is checked is what is proved.  The parts have no *)
(* state in common, so a behaviour is of one of them, while the extended   *)
(* ones rest and the variables of the others are not used.                 *)
(***************************************************************************)
EXTENDS GatewayStream, SdkChannel, Admission, Integers, Sequences, TLC

CONSTANTS
  Parts,     \* the parts this run lets happen
  NoLease,
  a1, a2     \* two of a kind

VARIABLES
  part,   \* the part this behaviour is of
  \* StreamAdmission
  strLease, age, grant, strNow, window, strAdmitted, strPc, strReq, stamp

strState == <<strLease, age, grant, strNow, window, strAdmitted, strPc, strReq, stamp>>

\* An API key with a public prefix: its owner, the whole key used elsewhere, a
\* stranger who only knows the prefix; and a user of the dashboard.
Owner ==
  [src |-> "s1", cred |-> "k", prefix |-> "p", kind |-> "api_key", who |-> "key",
   org |-> "o", project |-> "j"]
Elsewhere == [Owner EXCEPT !.src = "s2"]
Stranger == [Owner EXCEPT !.src = "s2", !.cred = "guess", !.who = None]
User ==
  [src |-> "s1", cred |-> "session", prefix |-> None, kind |-> "user", who |-> "user",
   org |-> "o", project |-> None]
AllTraffic == {Owner, Elsewhere, Stranger, User}
Limits ==
  [preauth_ip |-> 2, preauth_credential |-> 1, preauth_api_key |-> 1,
   principal |-> 1, organization |-> 1, project |-> 1]

\* Three requests at the limits, or two through all their steps, one of which may fail;
\* device logins of two sources, counted by clocks that lag.
\* Requests are alike, so the first to begin is called q1, the next q2.
Begun(q) == req'[q].pc # "idle"
AdmissionStep ==
  /\ PipelineNext /\ faults' = 0 /\ win' <= 1 /\ login' = login
  /\ \A q \in Requests : req'[q].t # User
  /\ Begun("q3") => Begun("q2")
  /\ Begun("q2") => Begun("q1")
AuditStep == PipelineNext /\ win' <= 1 /\ login' = login /\ req'["q3"] = req["q3"]
LoginStep == PipelineNext /\ req' = req

\* Two grants of two projects that collide in the authority scope, and a stream
\* id that two gateways claim.
Lookup(s, g, i, b) == [id |-> s, grant |-> g, instance |-> i, bandwidth |-> b]
Lookups ==
  {Lookup("s1", "g1", "i1", 1), Lookup("s1", "g1", "i2", 1), Lookup("s2", "g2", "i2", 2)}
Renewals == {Lookup("s1", "g1", "i1", 1), Lookup("s2", "g1", "i2", 1)}
GrantProject == [g1 |-> "p1", g2 |-> "p2"]
GrantSlot == [g \in {"g1", "g2"} |-> "slot"]
RouteLimit == [authority |-> 1, project |-> 1, organization |-> 2]
WideRouteLimit == [authority |-> 3, project |-> 3, organization |-> 3]
TwoOfEach == [organization |-> 2, project |-> 2]

\* Three sources that share the limiter's slot.
SourceOf == (a1 :> "a") @@ (a2 :> "a") @@ ("b1" :> "b") @@ ("c1" :> "c")
OneSlot == [s \in {"a", "b", "c"} |-> 1]
Callers == {a1, a2, "b1", "c1"}
ReadinessCallers == {a1, a2, "b1"}

\* Three requests of one source and one of another that shares their slot.
ThreeOfOne == (a1 :> "a") @@ (a2 :> "a") @@ ("c1" :> "a") @@ ("b1" :> "b")
SharedSlot == [s \in {"a", "b"} |-> 1]

\* Readiness and ordinary requests of one clock reading against the active limiter,
\* while a cached answer expires; or all of them against the rate limiter over two windows.
ReadyStep == RestNext /\ clock' <= 2 /\ \A r \in RestRequests : at'[r] <= 1
RateStep ==
  /\ RestNext /\ healthy' = healthy
  /\ \A r \in RestRequests : pc'[r] \in {"new", "rate", "acquire", "proxy", "done"}

\* Two lookups in flight for a stream id that two gateways use and for another grant.
Str == INSTANCE StreamAdmission WITH
  Project <- GrantProject, Callers <- {a1, a2}, Slot <- GrantSlot,
  RateLimit <- WideRouteLimit, StreamLimit <- TwoOfEach, BandwidthLimit <- TwoOfEach,
  MaxStored <- 4, Streams <- {"s1", "s2"}, Grants <- {"g1", "g2"}, Requests <- Lookups,
  MaxWindow <- 0, lease <- strLease, now <- strNow, admitted <- strAdmitted,
  pc <- strPc, req <- strReq
\* One of the grants is revoked, expires and is reaped.
StreamsStep == Str!StreamNext /\ grant'["g2"] = grant["g2"]
\* Two lookups in flight while the window of their rates changes.
Rat == INSTANCE StreamAdmission WITH
  Project <- GrantProject, Callers <- {a1, a2}, Slot <- GrantSlot,
  RateLimit <- RouteLimit, StreamLimit <- TwoOfEach, BandwidthLimit <- TwoOfEach,
  MaxStored <- 3, Streams <- {"s1", "s2"}, Grants <- {"g1"}, Requests <- Renewals,
  MaxWindow <- 1, lease <- strLease, now <- strNow, admitted <- strAdmitted,
  pc <- strPc, req <- strReq

\* One fiber whose reconnect fails, is tried again and is interrupted.
Retr == INSTANCE SdkChannel WITH
  Fibers <- {"f1"}, MaxBytes <- 2, Sizes <- {1}, MaxAttempts <- 1, Interruptions <- 1

ASSUME PipelineAssumption
ASSUME GatewayAssumption
ASSUME RestAssumption
ASSUME Str!StreamAssumption
ASSUME Rat!StreamAssumption
ASSUME ChannelAssumption
ASSUME Retr!ChannelAssumption

strStateUnused ==
  /\ strLease = 0 /\ age = 0 /\ grant = 0 /\ strNow = 0 /\ window = 0 /\ strAdmitted = 0
  /\ strPc = 0 /\ strReq = 0 /\ stamp = 0

-----------------------------------------------------------------------------
RunInit ==
  /\ part \in Parts
  /\ PipelineInit
  /\ GatewayInit
  /\ RestInit
  /\ IF part = "streams" THEN Str!StreamInit
     ELSE IF part = "rates" THEN Rat!StreamInit
     ELSE strStateUnused
  /\ IF part = "retries" THEN Retr!ChannelInit
     ELSE ChannelInit

RunNext ==
  \/ /\ part = "admission" /\ AdmissionStep
     /\ UNCHANGED <<part, gatewayVars, restVars, strState, channelVars>>
  \/ /\ part = "audit" /\ AuditStep
     /\ UNCHANGED <<part, gatewayVars, restVars, strState, channelVars>>
  \/ /\ part = "logins" /\ LoginStep
     /\ UNCHANGED <<part, gatewayVars, restVars, strState, channelVars>>
  \/ /\ part = "gateway" /\ GatewayNext
     /\ UNCHANGED <<part, pipelineVars, restVars, strState, channelVars>>
  \/ /\ part = "ready" /\ ReadyStep
     /\ UNCHANGED <<part, pipelineVars, gatewayVars, strState, channelVars>>
  \/ /\ part = "rate" /\ RateStep
     /\ UNCHANGED <<part, pipelineVars, gatewayVars, strState, channelVars>>
  \/ /\ part = "streams" /\ StreamsStep
     /\ UNCHANGED <<part, pipelineVars, gatewayVars, restVars, channelVars>>
  \/ /\ part = "rates" /\ Rat!StreamNext
     /\ UNCHANGED <<part, pipelineVars, gatewayVars, restVars, channelVars>>
  \/ /\ part = "channel" /\ ChannelNext
     /\ UNCHANGED <<part, pipelineVars, gatewayVars, restVars, strState>>
  \/ /\ part = "retries" /\ Retr!ChannelNext
     /\ UNCHANGED <<part, pipelineVars, gatewayVars, restVars, strState>>

runVars ==
  <<part, pipelineVars, gatewayVars, restVars, strState, channelVars>>

RunSpec == RunInit /\ [][RunNext]_runVars

-----------------------------------------------------------------------------
\* Whichever gateways acquire, renew and lose leases at once, streams, bandwidth
\* and lookups stay within their limits, and nobody takes over an active lease
\* (domain/stream-admission.ts); and the budget of a channel of the SDK counts exactly
\* what is queued and stays within its limits (packages/sdk/src/index.ts).
StreamQuotaHeld ==
  [][/\ part = "streams" => Str!StreamQuotaHeld' /\ Str!LeaseIsOwned
     /\ part = "rates" => Rat!RateHeld'
     /\ part = "channel" => BudgetExact'
     /\ part = "retries" => Retr!BudgetExact']_runVars

\* What there are two of is interchangeable: requests of one source, lookups in
\* flight, fibers of a channel.
Interchangeable == Permutations({a1, a2})
=============================================================================
