---------------------------- MODULE GatewayDrain -----------------------------
(***************************************************************************)
(* The gateway's own bookkeeping of streams: streamDrainer (drain.go), the *)
(* tenantLimiter (proxy.go), the handler that uses both (serveCapability   *)
(* in router.go) with its deferred calls, and the shutdown in main.go.     *)
(* net/http waits for handlers that have not taken over their connection.  *)
(***************************************************************************)
EXTENDS Naturals, FiniteSets, Functions

CONSTANTS
  Streams,
  Tenant,          \* organization and project of each stream
  MaxConnections,  \* MaxConnectionsPerTenant
  MaxEvictions     \* bound on entries that are dropped

DrainAssumption ==
  /\ IsFiniteSet(Streams) /\ DOMAIN Tenant = Streams
  /\ MaxConnections \in Nat \ {0} /\ MaxEvictions \in Nat

Tenants == Range(Tenant)

VARIABLES
  main,       \* "up", "http" (Server.Shutdown), "wait", "forced" or "exited"
  expired,    \* the grace period is over
  draining,
  tracked,    \* d.streams
  idle,       \* the channel: "open" or "closed"; "panic" when closed again
  cancelled,  \* streams whose context was cancelled
  handler,    \* where each handler is
  hijacked,   \* upgraded connections
  entry,      \* of each tenant: its generation and active
  held        \* the generation whose count a handler holds, 0 for none

drainVars == <<main, expired, draining, tracked, idle, cancelled, handler, hijacked, entry, held>>
mainVars == <<main, expired, draining>>
limitVars == <<entry, held>>

DrainInit ==
  /\ main = "up" /\ expired = FALSE /\ draining = FALSE
  /\ tracked = {} /\ idle = "closed" /\ cancelled = {} /\ hijacked = {}
  /\ handler = [s \in Streams |-> "new"]
  /\ entry = [t \in Tenants |-> [gen |-> 1, active |-> 0]]
  /\ held = [s \in Streams |-> 0]

Running == main # "exited"
At(s, from) == Running /\ handler[s] = from
Go(s, to) == handler' = [handler EXCEPT ![s] = to]

-----------------------------------------------------------------------------
(* serveCapability *)

StreamArrives(s) ==
  /\ At(s, "new") /\ Go(s, IF draining THEN "done" ELSE "lookup")
  /\ UNCHANGED <<mainVars, tracked, idle, cancelled, hijacked, limitVars>>

\* The route is resolved and a lease acquired, or not.
Resolve(s) ==
  /\ At(s, "lookup") /\ \E to \in {"begin", "done"} : Go(s, to)
  /\ UNCHANGED <<mainVars, tracked, idle, cancelled, hijacked, limitVars>>

begin(s) ==
  /\ At(s, "begin")
  /\ IF draining THEN Go(s, "release") /\ UNCHANGED <<tracked, idle>>
     ELSE /\ Go(s, "limit") /\ tracked' = tracked \cup {s}
          /\ idle' = IF tracked = {} THEN "open" ELSE idle
  /\ UNCHANGED <<mainVars, cancelled, hijacked, limitVars>>

acquire(s) ==
  LET t == Tenant[s] IN
  /\ At(s, "limit")
  /\ IF entry[t].active >= MaxConnections THEN Go(s, "finish") /\ UNCHANGED limitVars
     ELSE /\ Go(s, "open") /\ entry' = [entry EXCEPT ![t].active = @ + 1]
          /\ held' = [held EXCEPT ![s] = entry[t].gen]
  /\ UNCHANGED <<mainVars, tracked, idle, cancelled, hijacked>>

\* acquire first drops what was idle for an hour; the next use starts anew.
Evict(t) ==
  /\ Running /\ entry[t].gen <= MaxEvictions /\ entry[t].active = 0
  /\ entry' = [entry EXCEPT ![t] = [gen |-> @.gen + 1, active |-> 0]]
  /\ UNCHANGED <<mainVars, tracked, idle, cancelled, handler, hijacked, held>>

Upgrade(s) ==
  /\ At(s, "open") /\ s \notin hijacked \cup cancelled /\ hijacked' = hijacked \cup {s}
  /\ UNCHANGED <<mainVars, tracked, idle, cancelled, handler, limitVars>>

\* The proxy returns or panics: the deferred calls run in reverse order.
Ends(s) ==
  /\ At(s, "open") /\ Go(s, "unlimit")
  /\ UNCHANGED <<mainVars, tracked, idle, cancelled, hijacked, limitVars>>

release(s) ==
  LET t == Tenant[s] IN
  /\ At(s, "unlimit") /\ Go(s, "finish") /\ held' = [held EXCEPT ![s] = 0]
  /\ entry' = IF entry[t].gen = held[s] THEN [entry EXCEPT ![t].active = @ - 1] ELSE entry
  /\ UNCHANGED <<mainVars, tracked, idle, cancelled, hijacked>>

finish(s) ==
  /\ At(s, "finish") /\ Go(s, "release")
  /\ cancelled' = cancelled \cup {s} /\ tracked' = tracked \ {s}
  /\ idle' = IF tracked \ {s} # {} THEN idle ELSE IF idle = "open" THEN "closed" ELSE "panic"
  /\ UNCHANGED <<mainVars, hijacked, limitVars>>

releaseStream(s) ==
  /\ At(s, "release") /\ Go(s, "done")
  /\ UNCHANGED <<mainVars, tracked, idle, cancelled, hijacked, limitVars>>

-----------------------------------------------------------------------------
(* main *)

MainStep(from, to) ==
  /\ main = from /\ main' = to
  /\ UNCHANGED <<expired, tracked, idle, handler, hijacked, limitVars>>

startDrain == MainStep("up", "http") /\ draining' = TRUE /\ UNCHANGED cancelled

DrainGraceExpires ==
  /\ main \in {"http", "wait"} /\ ~expired /\ expired' = TRUE
  /\ UNCHANGED <<main, draining, tracked, idle, cancelled, handler, hijacked, limitVars>>

HttpShutdown ==
  /\ expired \/ \A s \in Streams : s \in hijacked \/ handler[s] \in {"new", "done"}
  /\ MainStep("http", "wait") /\ UNCHANGED <<draining, cancelled>>

WaitDone == idle = "closed" /\ MainStep("wait", "exited") /\ UNCHANGED <<draining, cancelled>>

\* With both channels ready the select takes either.
forceClose ==
  /\ expired /\ MainStep("wait", "forced") /\ cancelled' = cancelled \cup tracked
  /\ UNCHANGED draining

\* Two more seconds at most, then telemetry is closed and the process ends.
ForcedDone == MainStep("forced", "exited") /\ UNCHANGED <<draining, cancelled>>

DrainNext ==
  \/ \E s \in Streams : \/ StreamArrives(s) \/ Resolve(s) \/ begin(s) \/ acquire(s) \/ Upgrade(s)
                        \/ Ends(s) \/ release(s) \/ finish(s) \/ releaseStream(s)
  \/ \E t \in Tenants : Evict(t)
  \/ startDrain \/ DrainGraceExpires \/ HttpShutdown \/ WaitDone \/ forceClose \/ ForcedDone

DrainSpec == DrainInit /\ [][DrainNext]_drainVars

-----------------------------------------------------------------------------

\* "remaining upgraded streams are explicitly cancelled before process exit"
\* (docs/nehemiah/architecture.md:238): the process never ends under a stream that
\* was not told, also when the stream is admitted while the drain begins.
ExitCancelsAll ==
  main = "exited" => \A s \in Streams : handler[s] \in {"limit", "open", "unlimit", "finish"} => s \in cancelled

\* No tenant has more streams than it may, however entries are dropped and made
\* again while handlers still hold a count.
TenantWithinLimit ==
  \A t \in Tenants :
    Cardinality({s \in Streams : Tenant[s] = t /\ handler[s] \in {"open", "unlimit"}}) <= MaxConnections
=============================================================================
