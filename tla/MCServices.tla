------------------------------ MODULE MCServices ------------------------------
(***************************************************************************)
(* The services around the machines, for TLC: Stripe events, the shutdown  *)
(* of the control plane and of the gateway, and what calls, requests,      *)
(* readers and waiting processes wait for.  StripeEvents, Exits and        *)
(* SdkCalls are extended, so that what is checked of them is what is       *)
(* proved.  A behaviour is of one part; the extended ones rest meanwhile,  *)
(* and the variables of the others are not used.                           *)
(***************************************************************************)
EXTENDS StripeEvents, SdkCalls, Exits, Integers, FiniteSets, Sequences, TLC

CONSTANTS
  Parts,   \* the parts this run lets happen
  NoLease

VARIABLES
  part,   \* the part this behaviour is of
  \* Identity
  txPc, todo, locks, enabled, memberRole, idReceipts, grants, body,
  \* SdkChannel
  phase, deaf, sent, current, released, disconnectPending, terminalError, queue,
  queuedFrames, queuedBytes, fiber, abandoned, reader, got,
  \* StreamAdmission
  lease, age, grant, now, window, strAdmitted, strPc, req, stamp,
  \* CredentialLock
  step, dir, owner, reaper

identState == <<txPc, todo, locks, enabled, memberRole, idReceipts, grants, body>>
chanState ==
  <<phase, deaf, sent, current, released, disconnectPending, terminalError, queue,
    queuedFrames, queuedBytes, fiber, abandoned, reader, got>>
strState == <<lease, age, grant, now, window, strAdmitted, strPc, req, stamp>>
dirlockState == <<step, dir, owner, reaper>>

\* Two invoices: one fails, is paid in the same second and paid again later, the other
\* fails.
Event(id, invoiceId, failed, created) ==
  [id |-> id, invoice |-> invoiceId, failed |-> failed, created |-> created]
InvoiceEvents ==
  {Event(1, 1, TRUE, 1), Event(2, 1, FALSE, 1), Event(3, 1, FALSE, 2), Event(4, 2, TRUE, 1)}

StreamTenant == [s1 |-> "a", s2 |-> "a"]
Renewals ==
  {[id |-> "s1", grant |-> "g1", instance |-> "i1", bandwidth |-> 1],
   [id |-> "s2", grant |-> "g1", instance |-> "i2", bandwidth |-> 1]}

\* Two operators who turn on each other and on their organization.
IdRoles ==
  [m \in {"ops", "acme"} \X {"ann", "bob"} |-> IF m[1] = "ops" THEN "admin" ELSE "member"]
Removal(operator, id, user) ==
  [kind |-> "sync", user |-> operator, org |-> "ops",
   event |-> [id |-> id, version |-> 1, type |-> "membership.removed",
              user |-> user, org |-> "ops", role |-> "none"]]
WaitBodies ==
  {[kind |-> "user", user |-> "ann", org |-> "ops", target |-> "bob", disabled |-> TRUE],
   [kind |-> "user", user |-> "bob", org |-> "ops", target |-> "ann", disabled |-> TRUE],
   [kind |-> "organization", user |-> "ann", org |-> "ops", target |-> "ops", disabled |-> TRUE],
   [kind |-> "session", user |-> "bob", org |-> "ops"],
   Removal("ann", "e1", "bob"), Removal("bob", "e2", "ann")}

\* Two requests that come to wait for each other.
Ident == INSTANCE Identity WITH
  Calls <- {"c1", "c2"}, Persons <- {"ann", "bob"}, Orgs <- {"ops", "acme"},
  Operators <- {"ops"}, InitialRoles <- IdRoles, Bodies <- WaitBodies,
  receipts <- idReceipts

\* A reader of a channel that ends in every way it can.
Chan == INSTANCE SdkChannel WITH
  Fibers <- {"f1"}, MaxFrames <- 1, MaxBytes <- 1, Sizes <- {1}, MaxAttempts <- 1,
  MaxSockets <- 2, MaxSent <- 2, Interruptions <- 1

\* A gateway that goes on renewing the streams of a revoked grant.
Str == INSTANCE StreamAdmission WITH
  Streams <- {"s1", "s2"}, Grants <- {"g1"}, Project <- [g1 |-> "p1"],
  Requests <- Renewals, Callers <- {"x1"}, Slot <- [g1 |-> "slot"],
  RateLimit <- [authority |-> 1, project |-> 1, organization |-> 2],
  StreamLimit <- [organization |-> 2, project |-> 2], BandwidthLimit <- [organization
  |-> 2, project |-> 2], MaxStored <- 3, MaxWindow <- 0, admitted <- strAdmitted,
  pc <- strPc

\* Two processes that are suspended anywhere, one of which dies.
DirLock == INSTANCE CredentialLock WITH
  Processes <- {"p1", "p2"}, NoOwner <- "nobody", MaxDeaths <- 1, ReaperDies <- TRUE,
  Sleeps <- TRUE

ASSUME EventsAssumption
ASSUME ShutdownAssumption
ASSUME DrainAssumption
ASSUME CallsAssumption
ASSUME Ident!IdentityAssumption
ASSUME Chan!ChannelAssumption
ASSUME Str!StreamAssumption

identStateUnused ==
  /\ txPc = 0 /\ todo = 0 /\ locks = 0 /\ enabled = 0 /\ memberRole = 0
  /\ idReceipts = 0 /\ grants = 0 /\ body = 0
chanStateUnused ==
  /\ phase = 0 /\ deaf = 0 /\ sent = 0 /\ current = 0 /\ released = 0
  /\ disconnectPending = 0 /\ terminalError = 0 /\ queue = 0 /\ queuedFrames = 0
  /\ queuedBytes = 0 /\ fiber = 0 /\ abandoned = 0 /\ reader = 0 /\ got = 0
strStateUnused ==
  /\ lease = 0 /\ age = 0 /\ grant = 0 /\ now = 0 /\ window = 0 /\ strAdmitted = 0
  /\ strPc = 0 /\ req = 0 /\ stamp = 0
dirlockStateUnused ==
  /\ step = 0 /\ dir = 0 /\ owner = 0 /\ reaper = 0

-----------------------------------------------------------------------------
RunInit ==
  /\ part \in Parts
  /\ EventsInit
  /\ ShutdownInit
  /\ DrainInit
  /\ CallsInit
  /\ (part # "calls" => kind = [c \in Calls |-> "exec"])
  /\ IF part = "waits" THEN Ident!IdentityInit
     ELSE identStateUnused
  /\ IF part = "channel" THEN Chan!ChannelInit
     ELSE chanStateUnused
  /\ IF part = "revocation" THEN Str!StreamInit
     ELSE strStateUnused
  /\ IF part = "lock" THEN DirLock!LockInit
     ELSE dirlockStateUnused

RunNext ==
  \/ /\ part = "payments" /\ EventsNext
     /\ UNCHANGED <<part, shutdownVars, drainVars, callsVars, identState, chanState,
                   strState, dirlockState>>
  \/ /\ part = "shutdown" /\ ShutdownNext
     /\ UNCHANGED <<part, eventsVars, drainVars, callsVars, identState, chanState,
                   strState, dirlockState>>
  \/ /\ part = "drain" /\ DrainNext
     /\ UNCHANGED <<part, eventsVars, shutdownVars, callsVars, identState, chanState,
                   strState, dirlockState>>
  \/ /\ part = "calls" /\ CallsNext
     /\ UNCHANGED <<part, eventsVars, shutdownVars, drainVars, identState, chanState,
                   strState, dirlockState>>
  \/ /\ part = "waits" /\ Ident!IdentityNext
     /\ UNCHANGED <<part, eventsVars, shutdownVars, drainVars, callsVars, chanState,
                   strState, dirlockState>>
  \/ /\ part = "channel" /\ Chan!ChannelNext
     /\ UNCHANGED <<part, eventsVars, shutdownVars, drainVars, callsVars, identState,
                   strState, dirlockState>>
  \/ /\ part = "revocation" /\ Str!StreamNext
     /\ UNCHANGED <<part, eventsVars, shutdownVars, drainVars, callsVars, identState,
                   chanState, dirlockState>>
  \/ /\ part = "lock" /\ DirLock!LockNext
     /\ UNCHANGED <<part, eventsVars, shutdownVars, drainVars, callsVars, identState,
                   chanState, strState>>

runVars ==
  <<part, eventsVars, shutdownVars, drainVars, callsVars, identState, chanState,
  strState, dirlockState>>

\* Stripe delivers again what was not answered 200, the account is linked at last, a
\* transaction gets its lock when it is free again and again.
PaymentFairness ==
  /\ WF_eventsVars(part = "payments" /\ Link)
  /\ WF_eventsVars(part = "payments" /\ Commit)
  /\ \A e \in InvoiceEvents :
       SF_eventsVars(part = "payments" /\ \E d \in {"d1", "d2"} : Receive(d, e))
  /\ \A d \in {"d1", "d2"} :
       /\ WF_eventsVars(part = "payments" /\ Lookup(d))
       /\ SF_eventsVars(part = "payments" /\ Lock(d))
       /\ WF_eventsVars(part = "payments" /\ Apply(d))

\* The grace timers fire and the event loop continues what is settled.  Work, servers,
\* finalizers and handlers may hang.  (The timers do not keep the event loop of the
\* control plane alive: when nothing else does, the process has ended by itself.)
ShutdownFairness ==
  /\ WF_shutdownVars(part = "shutdown" /\ GraceExpires)
  /\ WF_shutdownVars(part = "shutdown" /\ FinalizerGraceExpires)
  /\ WF_shutdownVars(part = "shutdown" /\ Finalized)
  /\ WF_drainVars(part = "drain" /\ DrainGraceExpires)
  /\ WF_drainVars(part = "drain" /\ HttpShutdown)
  /\ WF_drainVars(part = "drain" /\ (WaitDone \/ forceClose))
  /\ WF_drainVars(part = "drain" /\ ForcedDone)

\* Timers fire and fibers go on; nothing is assumed of the server or the network.
SdkFairness ==
  /\ WF_callsVars(part = "calls" /\ ClientStep("c1"))
  /\ WF_chanState(part = "channel" /\ Chan!takeOutput)

\* Statements end, time passes, and PostgreSQL looks for deadlocks after
\* deadlock_timeout.
DatabaseFairness ==
  /\ \A c \in {"c1", "c2"} :
       /\ WF_identState(part = "waits" /\ Ident!IdentityStep(c))
       /\ WF_identState(part = "waits" /\ Ident!IdentityAborts(c))
  /\ WF_strState(part = "revocation" /\ Str!RouteStep("x1"))
  /\ \A s \in {"s1", "s2"} : WF_strState(part = "revocation" /\ Str!LeaseAges(s))

\* A live process makes its next call, and time passes in the pauses between its
\* attempts (retryDelayMs).
LockFairness ==
  /\ \A p \in {"p1", "p2"} : WF_dirlockState(part = "lock" /\ DirLock!Call(p))
  /\ SF_dirlockState(part = "lock" /\ DirLock!AgeLock)
  /\ SF_dirlockState(part = "lock" /\ DirLock!AgeReaper)

Fairness ==
  PaymentFairness /\ ShutdownFairness /\ SdkFairness /\ DatabaseFairness /\ LockFairness

RunSpec == RunInit /\ [][RunNext]_runVars /\ Fairness

-----------------------------------------------------------------------------
\* No event is consumed without its effect or left out, although the account is
\* linked late and a transaction fails (billing/stripe.ts).
EveryEventCounts ==
  \A id \in 1..4 : <>(part = "payments" => \E e \in receipts : e.id = id)

\* Both processes end after a signal whatever hangs; every call of the SDK, every
\* request for row locks and every reader of a channel gets an answer; the streams of a
\* revoked grant end; and a lock of the CLI that the dead left behind is taken over,
\* although processes are suspended and the one that was removing it may die.
EverythingEnds ==
  /\ part = "shutdown" /\ pc = "draining" ~> part = "shutdown" /\ ~Alive
  /\ part = "drain" /\ draining ~> part = "drain" /\ main = "exited"
  /\ part = "calls" /\ state["c1"] = "waiting"
       ~> part = "calls" /\ state["c1"] \in {"ok", "pending", "failed"}
  /\ \A c \in {"c1", "c2"} :
       <>(part = "waits" => txPc[c] \notin {"new", "authorize", "decide", "write"})
  /\ part = "channel" /\ Chan!EndIsDue /\ reader = "taking"
       ~> part = "channel" /\ reader # "taking"
  /\ part = "revocation" /\ grant["g1"] # "live"
       ~> part = "revocation" /\ ~\E s \in {"s1", "s2"} : Str!Active(s)
  /\ \A p \in {"p1", "p2"} :
       part = "lock" /\ step[p] = "mkdir" /\ DirLock!OthersAway(p)
         ~> part = "lock" /\ (step[p] \in {"in", "dead"} \/ ~DirLock!OthersAway(p))
=============================================================================
