-------------------------- MODULE MCMachineProgress --------------------------
(***************************************************************************)
(* What must happen in the end to forks, expired machines, replicas,       *)
(* volumes and silent hosts, for TLC.  A behaviour is of one part; the     *)
(* variables of the others are not used.                                   *)
(***************************************************************************)
EXTENDS Integers, FiniteSets, Sequences, TLC

CONSTANTS
  Parts,   \* the parts this run lets happen
  None

VARIABLES
  part,   \* the part this behaviour is of
  \* Fork
  forkOp, kids, hostReserved, work, wire, daemon, faults,
  \* Extend
  now, row, extendOp, vm, through, worker, late, batch, answered, over,
  \* Templates
  tpl, version, pub, exports, puts, objects, replica, aged, installed, up, repl,
  remover, mach, failures,
  \* Volumes
  clock, vol, res, req, caps, uploads, stored, kept, job, deletion, volFaults,
  \* HostFleet
  hostRow, grant, call, epoch, bought, crossed

frkState == <<forkOp, kids, hostReserved, work, wire, daemon, faults>>
extState == <<now, row, extendOp, vm, through, worker, late, batch, answered, over>>
temState ==
  <<tpl, version, pub, exports, puts, objects, replica, aged, installed, up, repl,
    remover, mach, failures>>
volState ==
  <<clock, vol, res, req, caps, uploads, stored, kept, job, deletion, volFaults>>
fleetState == <<hostRow, grant, call, epoch, bought, crossed>>

TemplateCallers ==
  {[kind |-> "user", scopes |-> {"templates:write"}, administers |-> TRUE]}

\* A fork of two children with one fault; its source lives.
Frk == INSTANCE Fork WITH
  Children <- {"c1", "c2"}, Requesters <- {"r1"}, Reconciler <- "rec",
  Nobody <- "nobody", Deletable <- {},
  Faults <- {"crashes", "restarts", "hostDown", "slow", "unremoved"}, Others <- 2, MaxFaults <- 1

\* A row that never ends fills the reaper's batch, and a machine expires.
Ext == INSTANCE Extend WITH
  Vms <- {"m1", "m2"}, Keys <- {"k1"}, Handlers <- {"w1"}, Stuck <- {"m2"}, Ttl <- 2,
  Extensions <- {2}, Cap <- 99, BatchLimit <- 1, Reporting <- {},
  Lossy <- TRUE, MaxRequest <- 3, MaxTime <- 5

\* Two replication runs that die and a host that comes and goes.
Tem == INSTANCE Templates WITH
  Templates <- {"t1"}, Versions <- {"v"}, ArchHosts <- {"h1"},
  Replicators <- {"w1", "w2"}, Removers <- {}, Instances <- {},
  Principals <- TemplateCallers, Outages <- FALSE, PromptMarks <- TRUE, MaxFailures <- 2

\* A volume that expires or is deleted, and a worker that fails or dies.
Vol == INSTANCE Volumes WITH
  Requests <- {"q1"}, Reservations <- {"r1"}, DeleteWorkers <- {"w1"}, Limit <- 1,
  VolumeTtl <- 1, GrantTtl <- 1, Settlement <- 1, Retention <- 2, ClaimTtl <- 1,
  VolHorizon <- 4, CommitLag <- 1, Lag <- 1, Replays <- FALSE, Removes <- TRUE,
  MaxVolFaults <- 1, Unset <- None

\* A host that falls silent with two requests in flight.
Fleet == INSTANCE HostFleet WITH
  Grants <- {"g1", "g2"}, HostIds <- {"h1"}, Callers <- {"c1", "c2"},
  Nothing <- "nothing", MaxGen <- 1, MaxEpoch <- 1

ASSUME Frk!ForkAssumption
ASSUME Ext!ExtendAssumption
ASSUME Fleet!FleetAssumption

frkStateUnused ==
  /\ forkOp = 0 /\ kids = 0 /\ hostReserved = 0 /\ work = 0 /\ wire = 0 /\ daemon = 0
  /\ faults = 0
extStateUnused ==
  /\ now = 0 /\ row = 0 /\ extendOp = 0 /\ vm = 0 /\ through = 0 /\ worker = 0
  /\ late = 0 /\ batch = 0 /\ answered = 0 /\ over = 0
temStateUnused ==
  /\ tpl = 0 /\ version = 0 /\ pub = 0 /\ exports = 0 /\ puts = 0 /\ objects = 0
  /\ replica = 0 /\ aged = 0 /\ installed = 0 /\ up = 0 /\ repl = 0 /\ remover = 0
  /\ mach = 0 /\ failures = 0
volStateUnused ==
  /\ clock = 0 /\ vol = 0 /\ res = 0 /\ req = 0 /\ caps = 0 /\ uploads = 0 /\ stored = 0
  /\ kept = 0 /\ job = 0 /\ deletion = 0 /\ volFaults = 0
fleetStateUnused ==
  /\ hostRow = 0 /\ grant = 0 /\ call = 0 /\ epoch = 0 /\ bought = 0 /\ crossed = 0

-----------------------------------------------------------------------------
Init ==
  /\ part \in Parts
  /\ IF part = "fork" THEN Frk!ForkInit
     ELSE frkStateUnused
  /\ IF part = "expiry" THEN Ext!ExtendInit
     ELSE extStateUnused
  /\ IF part = "replicas" THEN Tem!TemplatesInit
     ELSE temStateUnused
  /\ IF part = "volume" THEN Vol!VolInit
     ELSE volStateUnused
  /\ IF part = "fleet" THEN Fleet!FleetInit
     ELSE fleetStateUnused

Next ==
  \/ /\ part = "fork" /\ Frk!ForkNext
     /\ UNCHANGED <<part, extState, temState, volState, fleetState>>
  \/ /\ part = "expiry" /\ Ext!ExtendNext
     /\ UNCHANGED <<part, frkState, temState, volState, fleetState>>
  \/ /\ part = "replicas" /\ Tem!TemplatesNext
     /\ UNCHANGED <<part, frkState, extState, volState, fleetState>>
  \/ /\ part = "volume" /\ Vol!VolNext
     /\ UNCHANGED <<part, frkState, extState, temState, fleetState>>
  \/ /\ part = "fleet" /\ Fleet!FleetNext
     /\ UNCHANGED <<part, frkState, extState, temState, volState>>

vars ==
  <<part, frkState, extState, temState, volState, fleetState>>

\* The reconciler runs again and again, the host comes back and works, and not every
\* answer and deletion is lost.
ForkFairness ==
  LET Calling(w) == work[w].pc = "calling" /\ work[w].token IN
  /\ \A w \in {"r1", "rec"} :
       /\ WF_frkState(part = "fork" /\ Frk!WorkerStep(w))
       /\ WF_frkState(part = "fork" /\ Frk!TimesOut(w))
       /\ WF_frkState(part = "fork" /\ (Frk!HostStep(w) \/ Frk!HostRejects(w)))
       /\ SF_frkState(part = "fork" /\ Calling(w) /\ Frk!HostReplays(w))
       /\ SF_frkState(part = "fork" /\ Frk!Destroys(w, TRUE))
  /\ WF_frkState(part = "fork" /\ Frk!claimPendingForks)
  /\ WF_frkState(part = "fork" /\ Frk!CleanupClaimExpires)
  /\ WF_frkState(part = "fork" /\ Frk!HostBoots(TRUE))
  /\ WF_frkState(part = "fork" /\ Frk!HostUp)

\* Time passes, hosts boot what they were asked to and their timers fire, the
\* reconciler runs, and the reaper takes a batch and works it off (main.ts runs it
\* every 15 s).  Nothing is assumed of customers, extend calls or a delete.
ExpiryFairness ==
  /\ WF_extState(part = "expiry" /\ Ext!Tick)
  /\ WF_extState(part = "expiry" /\ \E S \in SUBSET {"m1", "m2"} : Ext!ReaperSelects(S))
  /\ \A m \in {"m1", "m2"} :
       /\ WF_extState(part = "expiry" /\ Ext!Boot(m))
       /\ WF_extState(part = "expiry" /\ Ext!MarkStopped(m))
       /\ WF_extState(part = "expiry" /\ Ext!ReconcileGone(m))
       /\ WF_extState(part = "expiry" /\ Ext!TimerFires(m))
       /\ WF_extState(part = "expiry" /\ Ext!Reap(m))
       /\ WF_extState(part = "expiry" /\ Ext!ReaperDestroys(m))

\* The replication timer keeps firing and time passes.
ReplicaFairness ==
  /\ \A w \in {"w1", "w2"} : WF_temState(part = "replicas" /\ Tem!runOnce(w))
  /\ WF_temState(part = "replicas" /\ Tem!Age(<<"t1", "h1">>))

\* Time passes and the worker's interval keeps firing.
VolumeFairness ==
  /\ WF_volState(part = "volume" /\ Vol!ClockTicks)
  /\ WF_volState(part = "volume" /\ Vol!enqueueExpiredDeletions)
  /\ WF_volState(part = "volume" /\ (Vol!enqueueDeletion("q1") \/ Vol!deferUnclaimed("q1")))
  /\ WF_volState(part = "volume" /\ Vol!Works("w1"))

\* The timer keeps looking for silent hosts.
FleetFairness == WF_fleetState(part = "fleet" /\ Fleet!markStale)

Fairness ==
  /\ ForkFairness /\ ExpiryFairness
  /\ ReplicaFairness /\ VolumeFairness /\ FleetFairness

Spec == Init /\ [][Next]_vars /\ Fairness

-----------------------------------------------------------------------------
\* Every pending fork ends while its source lives, whatever worker dies and whatever
\* answer is lost (reconcileFork, claimPendingForks).
ForksEnd ==
  part = "fork" /\ forkOp.state = "pending"
    ~> part = "fork" /\ forkOp.state \in {"succeeded", "failed"}

\* The allocation of every volume is given back, expired or deleted, although workers
\* die and the store fails (VolumeDeletionWorker).
AllocationReturns ==
  part = "volume" /\ vol.state = "live"
    ~> part = "volume" /\ job.state = "scheduled" /\ Vol!Size = 0

\* A machine whose committed time is over ends although a row that cannot end fills
\* every batch of the reaper (reap-expired-machines.ts:25); a host that is not heard
\* from becomes stale (markStale); and a live template with its object in the store
\* becomes ready on every host that stays (TemplateReplicationJob).
RecordsSettle ==
  /\ part = "expiry" /\ "m1" \in Ext!Expired
       ~> part = "expiry" /\ row["m1"].state \in Ext!EndedStates
  /\ part = "fleet" /\ Fleet!Exists /\ hostRow.heard \in {"never", "old"}
       ~> part = "fleet" /\ (hostRow.state = "stale" \/ hostRow.heard = "recent")
  /\ []<>(part = "replicas" =>
            \/ replica[<<"t1", "h1">>] = "ready" \/ tpl["t1"] # "live"
            \/ "t1" \notin objects \/ "h1" \notin up)
=============================================================================
