---------------------------- MODULE MachineTable ----------------------------
(***************************************************************************)
(* The PostgreSQL rows behind one organization's machines, and the         *)
(* transactions that MachineService, Scheduler and MachineReconciler run   *)
(* on them (apps/nehemiah/src/domain/machines.ts, scheduler/scheduler.ts,  *)
(* jobs/reconcile-machines.ts).  Every operator below is one committed     *)
(* transaction: a predicate  CanX  for the WHERE clause and an action  X   *)
(* for the UPDATE.  The callers, and the moments between their             *)
(* transactions, are in MachineLifecycle.                                  *)
(*                                                                         *)
(* Resources are one dimension here.  vCPUs, memory, disk and the machine  *)
(* count are compared and moved by the same statements, so  Demand  stands *)
(* for any one of them:  Demand[S]  is the total of the machines in  S .   *)
(***************************************************************************)
EXTENDS Leases

CONSTANTS
  Hosts,      \* enrolled nehemiahd hosts
  Workers,    \* control-plane activities that hold claim tokens
  NoHost,     \* host_id IS NULL
  NoWorker,   \* claim token IS NULL
  Demand,     \* total resources of a set of machines
  Capacity,   \* total_* of a host
  Quota       \* max_* of the organization and its project

ASSUME DemandAssumption ==
  /\ Demand \in [SUBSET Machines -> Nat]
  /\ Demand[{}] = 0
  /\ \A S, T \in SUBSET Machines :
       S \cap T = {} => Demand[S \cup T] = Demand[S] + Demand[T]

ASSUME LimitsAssumption ==
  /\ Capacity \in [Hosts -> Nat]
  /\ Quota \in Nat

ASSUME NullAssumption == NoHost \notin Hosts /\ NoWorker \notin Workers

VARIABLES
  state,          \* machines.state, or "absent" before the row exists
  host,           \* machines.host_id
  vmId,           \* machines.host_machine_id; 0 is NULL
  released,       \* machines.reservation_released_at IS NOT NULL
  createClaim,    \* machines.create_claim_token
  claimExpired,   \* machines.create_claimed_until <= now()
  reconcileClaim, \* machines.reconcile_claim_token, while it is not expired
  reserved,       \* hosts.reserved_*
  hostState       \* hosts.state, as far as placement and host loss read it

tableVars == <<state, host, vmId, released, createClaim, claimExpired,
               reconcileClaim, reserved, hostState>>

Terminal == {"stopped", "failed", "lost"}
Active   == {"starting", "running", "stopping"}
States   == {"absent", "requested", "placing"} \cup Active \cup Terminal

TableTypeOK ==
  /\ state \in [Machines -> States]
  /\ host \in [Machines -> Hosts \cup {NoHost}]
  /\ vmId \in [Machines -> 0..MaxBoots]
  /\ released \in [Machines -> BOOLEAN]
  /\ createClaim \in [Machines -> Workers \cup {NoWorker}]
  /\ claimExpired \in [Machines -> BOOLEAN]
  /\ reconcileClaim \in [Machines -> Workers \cup {NoWorker}]
  /\ reserved \in [Hosts -> Nat]
  /\ hostState \in [Hosts -> {"ready", "stale"}]

TableInit ==
  /\ state = [m \in Machines |-> "absent"]
  /\ host = [m \in Machines |-> NoHost]
  /\ vmId = [m \in Machines |-> 0]
  /\ released = [m \in Machines |-> FALSE]
  /\ createClaim = [m \in Machines |-> NoWorker]
  /\ claimExpired = [m \in Machines |-> FALSE]
  /\ reconcileClaim = [m \in Machines |-> NoWorker]
  /\ reserved = [h \in Hosts |-> 0]
  /\ hostState = [h \in Hosts |-> "ready"]

-----------------------------------------------------------------------------
(* Rows that hold a host's capacity, and rows that count against a quota.  *)

Holding(h) == {m \in Machines : host[m] = h /\ ~released[m]}

\* Mutant: stop intent frees quota at once.
CountedNotStopping == {m \in Machines : state[m] \in Active \ {"stopping"}}

Counted == {m \in Machines : state[m] \in Active}

-----------------------------------------------------------------------------
(* Create. *)

\* insertRequested: the unique (organization, project, idempotency_key)
\* index lets one of several racing inserts through.
InsertRequested(m) ==
  /\ state[m] = "absent"
  /\ state' = [state EXCEPT ![m] = "requested"]
  /\ UNCHANGED <<host, vmId, released, createClaim, claimExpired,
                 reconcileClaim, reserved, hostState>>

CanClaimCreate(m) ==
  /\ state[m] = "requested"
  /\ createClaim[m] = NoWorker \/ claimExpired[m]

\* claimCreate: a fresh token valid for five minutes.
ClaimCreate(m, w) ==
  /\ CanClaimCreate(m)
  /\ createClaim' = [createClaim EXCEPT ![m] = w]
  /\ claimExpired' = [claimExpired EXCEPT ![m] = FALSE]
  /\ UNCHANGED <<state, host, vmId, released, reconcileClaim, reserved, hostState>>

\* The five minutes pass.  The clause is only read while the row is requested.
CreateClaimExpires(m) ==
  /\ createClaim[m] # NoWorker
  /\ state[m] = "requested"
  /\ ~claimExpired[m]
  /\ claimExpired' = [claimExpired EXCEPT ![m] = TRUE]
  /\ UNCHANGED <<state, host, vmId, released, createClaim, reconcileClaim,
                 reserved, hostState>>

\* releaseCreateClaim: only the token's owner clears it.
ReleaseCreateClaim(m, w) ==
  /\ createClaim' = [createClaim EXCEPT ![m] = IF @ = w THEN NoWorker ELSE @]
  /\ UNCHANGED <<state, host, vmId, released, claimExpired, reconcileClaim,
                 reserved, hostState>>

WithinQuota(m) == Demand[Counted] + Demand[{m}] <= Quota

\* Mutant: the machine's own demand is forgotten.
FitsBefore(m, h) == hostState[h] = "ready" /\ reserved[h] < Capacity[h]

Fits(m, h) ==
  /\ hostState[h] = "ready"
  /\ reserved[h] + Demand[{m}] <= Capacity[h]

\* Scheduler.reserve: quota check, host selection, reservation and the
\* machine's assignment commit together, under the organization's row lock.
Reserve(m, h) ==
  /\ state[m] \in {"requested", "placing"}
  /\ WithinQuota(m)
  /\ Fits(m, h)
  /\ reserved' = [reserved EXCEPT ![h] = @ + Demand[{m}]]
  /\ host' = [host EXCEPT ![m] = h]
  /\ state' = [state EXCEPT ![m] = "starting"]
  /\ UNCHANGED <<vmId, released, createClaim, claimExpired, reconcileClaim, hostState>>

\* Mutant: an observation overtakes a stop intent.
CanObserveStopping(m) == state[m] \in {"starting", "stopping"}

CanObserveHost(m) == state[m] = "starting"

\* Mutant: the host's id is not stored.
ObserveWithoutId(m, v, ready) ==
  /\ CanObserveHost(m)
  /\ state' = [state EXCEPT ![m] = IF ready THEN "running" ELSE "starting"]
  /\ createClaim' = [createClaim EXCEPT ![m] = NoWorker]
  /\ UNCHANGED <<host, vmId, released, claimExpired, reconcileClaim, reserved, hostState>>

\* observeHost: a row that left 'starting' is not touched, and that is not
\* an error for the caller.
ObserveHost(m, v, ready) ==
  \/ /\ CanObserveHost(m)
     /\ vmId' = [vmId EXCEPT ![m] = v]
     /\ state' = [state EXCEPT ![m] = IF ready THEN "running" ELSE "starting"]
     /\ createClaim' = [createClaim EXCEPT ![m] = NoWorker]
     /\ UNCHANGED <<host, released, claimExpired, reconcileClaim, reserved, hostState>>
  \/ /\ ~CanObserveHost(m)
     /\ UNCHANGED tableVars

CanFailCreate(m, w) ==
  /\ createClaim[m] = w
  /\ state[m] \in {"requested", "placing", "starting"}

\* failCreate: the owner of the claim makes its failure the row's result.
FailCreate(m, w) ==
  /\ CanFailCreate(m, w)
  /\ state' = [state EXCEPT ![m] = "failed"]
  /\ createClaim' = [createClaim EXCEPT ![m] = NoWorker]
  /\ UNCHANGED <<host, vmId, released, claimExpired, reconcileClaim, reserved, hostState>>

-----------------------------------------------------------------------------
(* Lifecycle transitions and the release of a reservation. *)

CanTransition(m, from) == state[m] \in from

\* transition: a terminal row forgets its create claim.
Transition(m, from, to) ==
  /\ CanTransition(m, from)
  /\ state' = [state EXCEPT ![m] = to]
  /\ createClaim' = [createClaim EXCEPT ![m] = IF to \in Terminal THEN NoWorker ELSE @]
  /\ UNCHANGED <<host, vmId, released, claimExpired, reconcileClaim, reserved, hostState>>

\* GREATEST(0, reserved - demand)
Less(n, d) == IF n >= d THEN n - d ELSE 0

\* Mutant: the released stamp is not checked.
ReleaseAgain(m, h) ==
  /\ released' = [released EXCEPT ![m] = TRUE]
  /\ reserved' = [reserved EXCEPT ![h] = Less(@, Demand[{m}])]
  /\ UNCHANGED <<state, host, vmId, createClaim, claimExpired, reconcileClaim, hostState>>

\* Scheduler.release and MachineReconciler.release: the row's released
\* stamp decides, in the same transaction, whether the host is credited.
Release(m, h) ==
  \/ /\ ~released[m]
     /\ released' = [released EXCEPT ![m] = TRUE]
     /\ reserved' = [reserved EXCEPT ![h] = Less(@, Demand[{m}])]
     /\ UNCHANGED <<state, host, vmId, createClaim, claimExpired, reconcileClaim, hostState>>
  \/ /\ released[m]
     /\ UNCHANGED tableVars

-----------------------------------------------------------------------------
(* Reconciliation. *)

CanClaimReconcile(m) ==
  /\ state[m] \in Active
  /\ host[m] # NoHost                 \* JOIN hosts h ON h.id = m.host_id
  /\ reconcileClaim[m] = NoWorker

\* claimReconcileBatch, for one row of the batch.
ClaimReconcile(m, w) ==
  /\ CanClaimReconcile(m)
  /\ reconcileClaim' = [reconcileClaim EXCEPT ![m] = w]
  /\ UNCHANGED <<state, host, vmId, released, createClaim, claimExpired,
                 reserved, hostState>>

\* Mutant: a claim never lapses.
ReconcileClaimStays(m) == FALSE /\ UNCHANGED tableVars

\* reconcile_claimed_until passes: the token no longer keeps anyone out.
ReconcileClaimExpires(m) ==
  /\ reconcileClaim[m] # NoWorker
  /\ reconcileClaim' = [reconcileClaim EXCEPT ![m] = NoWorker]
  /\ UNCHANGED <<state, host, vmId, released, createClaim, claimExpired,
                 reserved, hostState>>

ReleaseReconcileClaim(m, w) ==
  /\ reconcileClaim' = [reconcileClaim EXCEPT ![m] = IF @ = w THEN NoWorker ELSE @]
  /\ UNCHANGED <<state, host, vmId, released, createClaim, claimExpired,
                 reserved, hostState>>

CanPersistRecovered(m, v) ==
  /\ state[m] \in Active
  /\ vmId[m] \in {0, v}

\* reconcile(): the host id recovered by replaying the create key.
PersistRecovered(m, v) ==
  /\ CanPersistRecovered(m, v)
  /\ vmId' = [vmId EXCEPT ![m] = v]
  /\ UNCHANGED <<state, host, released, createClaim, claimExpired,
                 reconcileClaim, reserved, hostState>>

CanFinish(m) == state[m] \notin Terminal \cup {"absent"}

\* finishAndRelease, its first transaction.
Finish(m, to) ==
  /\ CanFinish(m)
  /\ state' = [state EXCEPT ![m] = to]
  /\ UNCHANGED <<host, vmId, released, createClaim, claimExpired,
                 reconcileClaim, reserved, hostState>>

\* reconcile(): a ready guest moves a starting row to running.
MarkRunning(m) ==
  /\ state' = [state EXCEPT ![m] = IF @ = "starting" THEN "running" ELSE @]
  /\ UNCHANGED <<host, vmId, released, createClaim, claimExpired,
                 reconcileClaim, reserved, hostState>>

OnStaleHost == {m \in Machines : /\ host[m] # NoHost
                                 /\ hostState[host[m]] = "stale"
                                 /\ state[m] \notin Terminal}

\* markLostOnStaleHosts: one UPDATE over every row of every stale host.  The
\* releases that follow it are ReleaseLeaked steps.
MarkLostOnStaleHosts ==
  /\ OnStaleHost # {}
  /\ state' = [m \in Machines |-> IF m \in OnStaleHost THEN "lost" ELSE state[m]]
  /\ UNCHANGED <<host, vmId, released, createClaim, claimExpired,
                 reconcileClaim, reserved, hostState>>

\* Mutant: capacity is swept as soon as a machine is stopping.
ReleaseStopping(m) ==
  /\ state[m] \in Terminal \cup {"stopping"}
  /\ host[m] # NoHost
  /\ ~released[m]
  /\ Release(m, host[m])

\* releaseLeakedReservations, and the release loop of markLostOnStaleHosts.
ReleaseLeaked(m) ==
  /\ state[m] \in Terminal
  /\ host[m] # NoHost
  /\ ~released[m]
  /\ Release(m, host[m])

\* HostService.markStale: heartbeats stopped for the stale interval.
MarkStale(h) ==
  /\ hostState[h] = "ready"
  /\ hostState' = [hostState EXCEPT ![h] = "stale"]
  /\ UNCHANGED <<state, host, vmId, released, createClaim, claimExpired,
                 reconcileClaim, reserved>>

\* An operator's drain/activate or credential rotation takes a host out of
\* 'stale', and its next heartbeat makes it ready.
HostReturns(h) ==
  /\ hostState[h] = "stale"
  /\ hostState' = [hostState EXCEPT ![h] = "ready"]
  /\ UNCHANGED <<state, host, vmId, released, createClaim, claimExpired,
                 reconcileClaim, reserved>>

-----------------------------------------------------------------------------
(* The rows under any order of transactions.  The conjuncts beside a        *)
(* transaction are what its caller has to know when it commits, although it *)
(* read the row earlier; MachineLifecycle shows that every caller does.     *)

Placement(m) ==
  \/ InsertRequested(m)
  \/ \E w \in Workers : \/ ClaimCreate(m, w)
                        \/ ReleaseCreateClaim(m, w)
                        \/ FailCreate(m, w)
  \/ CreateClaimExpires(m)
  \/ \E h \in Hosts : Reserve(m, h)
  \/ \E v \in 1..MaxBoots, ready \in BOOLEAN : ObserveHost(m, v, ready)

Stopping(m) ==
  \/ \E from \in SUBSET {"requested", "placing", "starting", "running"} :
       Transition(m, from, "stopping")
  \/ Transition(m, {"stopping"}, "stopped")
  \/ state[m] \in Terminal /\ host[m] # NoHost /\ Release(m, host[m])

Reconciliation(m) ==
  \/ \E w \in Workers : ClaimReconcile(m, w) \/ ReleaseReconcileClaim(m, w)
  \/ ReconcileClaimExpires(m)
  \/ \E v \in 1..MaxBoots : PersistRecovered(m, v)
  \/ vmId[m] # 0 /\ MarkRunning(m)
  \/ host[m] # NoHost /\ \E to \in Terminal : Finish(m, to)
  \/ ReleaseLeaked(m)

TableNext ==
  \/ \E m \in Machines : Placement(m) \/ Stopping(m) \/ Reconciliation(m)
  \/ MarkLostOnStaleHosts
  \/ \E h \in Hosts : MarkStale(h) \/ HostReturns(h)

TableSpec == TableInit /\ [][TableNext]_tableVars

-----------------------------------------------------------------------------
\* The reserved column of every host is the total of the machines placed on
\* it whose reservation has not been released, whatever paths (create
\* failure, delete, reconciler, host loss, leak sweep) released the others:
\* Scheduler.reserve and the two release functions, exactly once each.
LedgerExact == \A h \in Hosts : reserved[h] = Demand[Holding(h)]

\* A host is never reserved beyond its total_* columns (the CHECK of
\* migration 0001), whatever is placed, lost and released concurrently.
NoOvercommit == \A h \in Hosts : reserved[h] <= Capacity[h]

Placed == {m \in Machines : state[m] \in Active /\ host[m] # NoHost}

\* Placed machines never exceed the quota that enforceQuota checks, although
\* rows enter and leave the counted states without the organization's lock.
QuotaHeld == Demand[Placed] <= Quota

\* Capacity is given back only once the machine is terminal: no worker that
\* acts on a stale row releases the reservation of an active machine.
HeldWhileActive == \A m \in Placed : ~released[m]

\* A row is 'running' only with a host and the host's id for it on record,
\* so a delete always knows what to delete, and where.
RunningIsAddressable ==
  \A m \in Machines : state[m] = "running" => host[m] # NoHost /\ vmId[m] # 0

\* Terminal rows never change state, a committed stop intent is never
\* overtaken by a late observation of the host, and a machine is placed once.
NeverRevived ==
  [][\A m \in Machines :
       /\ state[m] \in Terminal => state'[m] = state[m]
       /\ state[m] = "stopping" => state'[m] \in {"stopping"} \cup Terminal
       /\ host[m] # NoHost => host'[m] = host[m]]_tableVars
=============================================================================
