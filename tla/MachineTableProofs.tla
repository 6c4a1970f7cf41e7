------------------------- MODULE MachineTableProofs -------------------------
(***************************************************************************)
(* The rows keep their invariants under every order of transactions, for   *)
(* every number of machines, hosts and workers.                            *)
(***************************************************************************)
EXTENDS MachineTable, TLAPS

-----------------------------------------------------------------------------
(* Totals. *)

\* A machine outside a set adds its own demand to the set's.
LEMMA DemandAdd ==
  ASSUME NEW S \in SUBSET Machines, NEW m \in Machines, m \notin S
  PROVE  Demand[S \cup {m}] = Demand[S] + Demand[{m}]
<1>1. {m} \in SUBSET Machines /\ S \cap {m} = {}
  OBVIOUS
<1> QED
  BY <1>1, DemandAssumption

\* A machine in a set accounts for its own demand.
LEMMA DemandRemove ==
  ASSUME NEW S \in SUBSET Machines, NEW m \in S
  PROVE  Demand[S] = Demand[S \ {m}] + Demand[{m}]
<1>1. S \ {m} \in SUBSET Machines /\ (S \ {m}) \cup {m} = S
  OBVIOUS
<1> QED
  BY <1>1, DemandAdd

\* More machines never demand less.
LEMMA DemandMonotone ==
  ASSUME NEW T \in SUBSET Machines, NEW S \in SUBSET T
  PROVE  Demand[S] <= Demand[T]
<1>1. /\ S \in SUBSET Machines
      /\ T \ S \in SUBSET Machines
      /\ S \cap (T \ S) = {}
      /\ S \cup (T \ S) = T
  OBVIOUS
<1>2. Demand[T] = Demand[S] + Demand[T \ S]
  BY <1>1, DemandAssumption
<1>3. Demand[S] \in Nat /\ Demand[T \ S] \in Nat
  BY <1>1, DemandAssumption
<1> QED
  BY <1>2, <1>3

-----------------------------------------------------------------------------
(* The inductive invariant: what the rows must remember between a          *)
(* reservation and its release for the ledger to stay exact.               *)

\* Only a reservation gives a row its host, and it leaves the row starting.
HostImpliesStarted ==
  \A m \in Machines :
    host[m] # NoHost => state[m] \notin {"absent", "requested", "placing"}

\* The converse, for the states a delete has to reach on the host.
StartedImpliesHost ==
  \A m \in Machines :
    state[m] \in {"starting", "running"} => host[m] # NoHost

\* A released reservation belongs to a machine that is over.
ReleasedIsTerminal ==
  \A m \in Machines : released[m] => state[m] \in Terminal

RunningHasId == \A m \in Machines : state[m] = "running" => vmId[m] # 0

TableInv ==
  /\ TableTypeOK
  /\ HostImpliesStarted
  /\ StartedImpliesHost
  /\ ReleasedIsTerminal
  /\ RunningHasId
  /\ LedgerExact
  /\ NoOvercommit
  /\ QuotaHeld

\* A transaction that moves rows only towards their end and leaves hosts,
\* stamps and reserved columns alone.
Quiet ==
  /\ TableTypeOK'
  /\ UNCHANGED <<host, released, reserved>>
  /\ StartedImpliesHost'
  /\ RunningHasId'
  /\ \A m \in Machines :
       /\ state[m] \in Terminal => state'[m] \in Terminal
       /\ host[m] # NoHost => /\ state'[m] \notin {"absent", "requested", "placing"}
                              /\ state'[m] \in Active => state[m] \in Active

\* Such a transaction keeps the invariant.
LEMMA QuietStep == TableInv /\ Quiet => TableInv'
<1> SUFFICES ASSUME TableInv, Quiet PROVE TableInv'
  OBVIOUS
<1>1. HostImpliesStarted' /\ ReleasedIsTerminal'
  BY DEF TableInv, Quiet, HostImpliesStarted, ReleasedIsTerminal
<1>2. LedgerExact' /\ NoOvercommit'
  BY DEF TableInv, Quiet, LedgerExact, NoOvercommit, Holding
<1>3. QuotaHeld'
  <2>1. Placed' \in SUBSET Placed /\ Placed \in SUBSET Machines
    BY DEF Quiet, Placed
  <2>2. Demand[Placed'] <= Demand[Placed] /\ Demand[Placed] <= Quota
    BY <2>1, DemandMonotone DEF TableInv, QuotaHeld
  <2>3. Demand[Placed'] \in Nat /\ Demand[Placed] \in Nat /\ Quota \in Nat
    BY <2>1, DemandAssumption, LimitsAssumption
  <2> QED
    BY <2>2, <2>3 DEF QuotaHeld
<1> QED
  BY <1>1, <1>2, <1>3 DEF TableInv, Quiet

-----------------------------------------------------------------------------
(* The transactions that change who holds capacity. *)

\* Scheduler.reserve: the host gains exactly the machine it reserved for, and
\* both limits were checked in the same transaction.
LEMMA ReserveStep ==
  ASSUME TableInv, NEW m \in Machines, NEW h \in Hosts, Reserve(m, h)
  PROVE  TableInv'
<1>0. /\ state[m] \in {"requested", "placing"}
      /\ host[m] = NoHost /\ ~released[m] /\ h # NoHost
  BY NullAssumption DEF Reserve, TableInv, HostImpliesStarted, ReleasedIsTerminal,
     Terminal, TableTypeOK
<1>1. /\ Demand[{m}] \in Nat /\ reserved[h] \in Nat /\ Capacity[h] \in Nat /\ Quota \in Nat
      /\ reserved[h] + Demand[{m}] <= Capacity[h]
  BY DemandAssumption, LimitsAssumption DEF TableInv, TableTypeOK, Reserve, Fits
<1>2. TableTypeOK'
  BY <1>1 DEF TableInv, TableTypeOK, Reserve, States, Active
<1>3. HostImpliesStarted' /\ StartedImpliesHost' /\ ReleasedIsTerminal' /\ RunningHasId'
  BY <1>0 DEF TableInv, TableTypeOK, Reserve, HostImpliesStarted, StartedImpliesHost,
     ReleasedIsTerminal, RunningHasId
<1>4. LedgerExact'
  <2> SUFFICES ASSUME NEW g \in Hosts PROVE reserved'[g] = Demand[Holding(g)']
    BY DEF LedgerExact
  <2>1. CASE g = h
    <3>1. Holding(g)' = Holding(g) \cup {m} /\ m \notin Holding(g)
      BY <1>0, <2>1 DEF TableInv, TableTypeOK, Reserve, Holding
    <3>2. Demand[Holding(g) \cup {m}] = Demand[Holding(g)] + Demand[{m}]
      BY <3>1, DemandAdd DEF Holding
    <3> QED
      BY <2>1, <3>1, <3>2 DEF TableInv, TableTypeOK, Reserve, LedgerExact
  <2>2. CASE g # h
    <3>1. Holding(g)' = Holding(g)
      BY <1>0, <2>2, NullAssumption DEF TableInv, TableTypeOK, Reserve, Holding
    <3> QED
      BY <2>2, <3>1 DEF TableInv, TableTypeOK, Reserve, LedgerExact
  <2> QED
    BY <2>1, <2>2
<1>5. NoOvercommit'
  BY <1>1 DEF TableInv, TableTypeOK, Reserve, NoOvercommit
<1>6. QuotaHeld'
  <2>1. /\ Placed' \in SUBSET (Counted \cup {m})
        /\ Counted \in SUBSET Machines
        /\ m \notin Counted
    BY <1>0 DEF TableInv, TableTypeOK, Reserve, Placed, Counted, Active
  <2>2. Demand[Counted \cup {m}] = Demand[Counted] + Demand[{m}]
    BY <2>1, DemandAdd
  <2>3. Demand[Counted] + Demand[{m}] <= Quota
    BY DEF Reserve, WithinQuota
  <2>4. Demand[Placed'] <= Demand[Counted \cup {m}]
    BY <2>1, DemandMonotone
  <2>5. Demand[Placed'] \in Nat /\ Demand[Counted] \in Nat
    BY <2>1, DemandAssumption
  <2> QED
    BY <1>1, <2>2, <2>3, <2>4, <2>5 DEF QuotaHeld
<1> QED
  BY <1>2, <1>3, <1>4, <1>5, <1>6 DEF TableInv

\* Scheduler.release and MachineReconciler.release, for a machine that is over
\* and for its own host: the host loses exactly that machine, once.
LEMMA ReleaseStep ==
  ASSUME TableInv, NEW m \in Machines, state[m] \in Terminal, host[m] # NoHost,
         Release(m, host[m])
  PROVE  TableInv'
<1>1. CASE released[m]
  <2>1. UNCHANGED tableVars
    BY <1>1 DEF Release
  <2>2. Quiet
    BY <2>1 DEF TableInv, Quiet, tableVars, TableTypeOK, StartedImpliesHost, RunningHasId,
       HostImpliesStarted
  <2> QED
    BY <2>2, QuietStep
<1>2. CASE ~released[m]
  <2> DEFINE h == host[m]
  <2>0. /\ h \in Hosts
        /\ released' = [released EXCEPT ![m] = TRUE]
        /\ reserved' = [reserved EXCEPT ![h] = Less(@, Demand[{m}])]
        /\ UNCHANGED <<state, host, vmId, createClaim, claimExpired, reconcileClaim, hostState>>
    BY <1>2 DEF Release, TableInv, TableTypeOK
  <2>1. Demand[Holding(h)] = Demand[Holding(h) \ {m}] + Demand[{m}]
    <3>1. m \in Holding(h) /\ Holding(h) \in SUBSET Machines
      BY <1>2 DEF Holding
    <3> QED
      BY <3>1, DemandRemove
  <2>2. /\ Demand[{m}] \in Nat
        /\ Demand[Holding(h) \ {m}] \in Nat
        /\ reserved[h] = Demand[Holding(h)]
        /\ reserved[h] \in Nat /\ reserved[h] <= Capacity[h] /\ Capacity[h] \in Nat
    <3>1. {m} \in SUBSET Machines /\ Holding(h) \ {m} \in SUBSET Machines
      BY DEF Holding
    <3>2. Demand[{m}] \in Nat /\ Demand[Holding(h) \ {m}] \in Nat
      BY <3>1, DemandAssumption
    <3> QED
      BY <2>0, <3>2, LimitsAssumption DEF TableInv, TableTypeOK, LedgerExact, NoOvercommit
  <2>3. /\ reserved'[h] = Demand[Holding(h) \ {m}]
        /\ reserved'[h] \in Nat /\ reserved'[h] <= Capacity[h]
    <3>1. reserved'[h] = Less(reserved[h], Demand[{m}])
      BY <2>0 DEF TableInv, TableTypeOK
    <3> HIDE DEF h
    <3> QED
      BY <2>1, <2>2, <3>1 DEF Less
  <2>4. TableTypeOK'
    BY <2>0, <2>3 DEF TableInv, TableTypeOK
  <2>5. /\ HostImpliesStarted' /\ StartedImpliesHost' /\ ReleasedIsTerminal' /\ RunningHasId'
        /\ QuotaHeld'
    BY <2>0 DEF TableInv, TableTypeOK, HostImpliesStarted, StartedImpliesHost,
       ReleasedIsTerminal, RunningHasId, QuotaHeld, Placed
  <2>6. LedgerExact' /\ NoOvercommit'
    <3> SUFFICES ASSUME NEW g \in Hosts
                 PROVE  reserved'[g] = Demand[Holding(g)'] /\ reserved'[g] <= Capacity[g]
      BY DEF LedgerExact, NoOvercommit
    <3>1. CASE g = h
      <4>1. Holding(g)' = Holding(h) \ {m}
        BY <2>0, <3>1 DEF TableInv, TableTypeOK, Holding
      <4> QED
        BY <2>3, <3>1, <4>1
    <3>2. CASE g # h
      <4>1. Holding(g)' = Holding(g) /\ reserved'[g] = reserved[g]
        BY <2>0, <3>2 DEF TableInv, TableTypeOK, Holding
      <4> QED
        BY <4>1 DEF TableInv, LedgerExact, NoOvercommit
    <3> QED
      BY <3>1, <3>2
  <2> QED
    BY <2>4, <2>5, <2>6 DEF TableInv
<1> QED
  BY <1>1, <1>2 DEF TableInv, TableTypeOK

-----------------------------------------------------------------------------
(* The other transactions are quiet. *)

\* insertRequested, and everything that only moves a claim.
LEMMA ClaimsAreQuiet ==
  ASSUME TableInv, NEW m \in Machines,
         \/ InsertRequested(m)
         \/ CreateClaimExpires(m)
         \/ ReconcileClaimExpires(m)
         \/ \E w \in Workers : \/ ClaimCreate(m, w)
                                \/ ReleaseCreateClaim(m, w)
                                \/ ClaimReconcile(m, w)
                                \/ ReleaseReconcileClaim(m, w)
  PROVE  Quiet
<1> USE DEF TableInv, Quiet, TableTypeOK, StartedImpliesHost, RunningHasId, HostImpliesStarted
<1>1. CASE InsertRequested(m)
  BY <1>1 DEF InsertRequested, States, Terminal, Active
<1>2. CASE CreateClaimExpires(m)
  BY <1>2 DEF CreateClaimExpires
<1>3. CASE ReconcileClaimExpires(m)
  BY <1>3 DEF ReconcileClaimExpires
<1>4. ASSUME NEW w \in Workers,
             ClaimCreate(m, w) \/ ReleaseCreateClaim(m, w)
      PROVE  Quiet
  BY <1>4 DEF ClaimCreate, ReleaseCreateClaim
<1>5. ASSUME NEW w \in Workers,
             ClaimReconcile(m, w) \/ ReleaseReconcileClaim(m, w)
      PROVE  Quiet
  BY <1>5 DEF ClaimReconcile, ReleaseReconcileClaim
<1> QED
  BY <1>1, <1>2, <1>3, <1>4, <1>5

\* failCreate, transition, observeHost and the reconciler's updates move a row
\* forward and touch neither its host nor its reservation.
LEMMA ProgressIsQuiet ==
  ASSUME TableInv, NEW m \in Machines,
         \/ \E w \in Workers : FailCreate(m, w)
         \/ \E v \in 1..MaxBoots, ready \in BOOLEAN : ObserveHost(m, v, ready)
         \/ \E from \in SUBSET {"requested", "placing", "starting", "running"} :
              Transition(m, from, "stopping")
         \/ Transition(m, {"stopping"}, "stopped")
         \/ \E v \in 1..MaxBoots : PersistRecovered(m, v)
         \/ vmId[m] # 0 /\ MarkRunning(m)
         \/ host[m] # NoHost /\ \E to \in Terminal : Finish(m, to)
  PROVE  Quiet
<1> USE DEF TableInv, Quiet, TableTypeOK, StartedImpliesHost, RunningHasId, HostImpliesStarted
<1>1. ASSUME NEW w \in Workers, FailCreate(m, w) PROVE Quiet
  BY <1>1 DEF FailCreate, CanFailCreate, States, Terminal, Active
<1>2. ASSUME NEW v \in 1..MaxBoots, NEW ready \in BOOLEAN, ObserveHost(m, v, ready)
      PROVE  Quiet
  <2>1. CASE CanObserveHost(m)
    <3>1. /\ state[m] = "starting"
          /\ vmId' = [vmId EXCEPT ![m] = v]
          /\ \E s \in {"starting", "running"} : state' = [state EXCEPT ![m] = s]
          /\ createClaim' = [createClaim EXCEPT ![m] = NoWorker]
          /\ UNCHANGED <<host, released, claimExpired, reconcileClaim, reserved, hostState>>
      BY <1>2, <2>1 DEF ObserveHost, CanObserveHost
    <3> QED
      BY <3>1, BootsAssumption DEF States, Terminal, Active
  <2>2. CASE ~CanObserveHost(m)
    BY <1>2, <2>2 DEF ObserveHost, tableVars
  <2> QED
    BY <2>1, <2>2
<1>3. ASSUME NEW from \in SUBSET {"requested", "placing", "starting", "running"},
             Transition(m, from, "stopping")
      PROVE  Quiet
  BY <1>3 DEF Transition, CanTransition, States, Terminal, Active
<1>4. CASE Transition(m, {"stopping"}, "stopped")
  BY <1>4 DEF Transition, CanTransition, States, Terminal, Active
<1>5. ASSUME NEW v \in 1..MaxBoots, PersistRecovered(m, v) PROVE Quiet
  BY <1>5, BootsAssumption DEF PersistRecovered
<1>6. CASE vmId[m] # 0 /\ MarkRunning(m)
  BY <1>6 DEF MarkRunning, States, Terminal, Active
<1>7. ASSUME host[m] # NoHost, NEW to \in Terminal, Finish(m, to) PROVE Quiet
  BY <1>7 DEF Finish, CanFinish, States, Terminal, Active
<1> QED
  BY <1>1, <1>2, <1>3, <1>4, <1>5, <1>6, <1>7

\* So are host loss and the host states.
LEMMA HostsAreQuiet ==
  ASSUME TableInv,
         \/ MarkLostOnStaleHosts
         \/ \E h \in Hosts : MarkStale(h) \/ HostReturns(h)
         \/ UNCHANGED tableVars
  PROVE  Quiet
<1> USE DEF TableInv, Quiet, TableTypeOK, StartedImpliesHost, RunningHasId, HostImpliesStarted
<1>1. CASE MarkLostOnStaleHosts
  BY <1>1 DEF MarkLostOnStaleHosts, OnStaleHost, States, Terminal, Active
<1>2. ASSUME NEW h \in Hosts, MarkStale(h) \/ HostReturns(h) PROVE Quiet
  BY <1>2 DEF MarkStale, HostReturns
<1>3. CASE UNCHANGED tableVars
  BY <1>3 DEF tableVars
<1> QED
  BY <1>1, <1>2, <1>3

-----------------------------------------------------------------------------
(* The theorems. *)

LEMMA TableInvInit == TableInit => TableInv
<1> SUFFICES ASSUME TableInit PROVE TableInv
  OBVIOUS
<1>1. TableTypeOK
  BY BootsAssumption DEF TableInit, TableTypeOK, States
<1>2. HostImpliesStarted /\ StartedImpliesHost /\ ReleasedIsTerminal /\ RunningHasId
  BY DEF TableInit, HostImpliesStarted, StartedImpliesHost, ReleasedIsTerminal, RunningHasId
<1>3. \A h \in Hosts : Holding(h) = {}
  BY NullAssumption DEF TableInit, Holding
<1>4. Placed = {}
  BY DEF TableInit, Placed
<1> QED
  BY <1>1, <1>2, <1>3, <1>4, DemandAssumption, LimitsAssumption
  DEF TableInit, TableInv, LedgerExact, NoOvercommit, QuotaHeld

LEMMA TableInvNext == TableInv /\ [TableNext]_tableVars => TableInv'
<1> SUFFICES ASSUME TableInv, [TableNext]_tableVars PROVE TableInv'
  OBVIOUS
<1>1. ASSUME NEW m \in Machines, Placement(m) PROVE TableInv'
  BY <1>1, ReserveStep, ClaimsAreQuiet, ProgressIsQuiet, QuietStep DEF Placement
<1>2. ASSUME NEW m \in Machines, Stopping(m) PROVE TableInv'
  BY <1>2, ReleaseStep, ProgressIsQuiet, QuietStep DEF Stopping
<1>3. ASSUME NEW m \in Machines, Reconciliation(m) PROVE TableInv'
  BY <1>3, ReleaseStep, ClaimsAreQuiet, ProgressIsQuiet, QuietStep
  DEF Reconciliation, ReleaseLeaked
<1>4. CASE \/ MarkLostOnStaleHosts
           \/ \E h \in Hosts : MarkStale(h) \/ HostReturns(h)
           \/ UNCHANGED tableVars
  BY <1>4, HostsAreQuiet, QuietStep
<1> QED
  BY <1>1, <1>2, <1>3, <1>4 DEF TableNext

\* What a transaction never does to a row; the body of NeverRevived.
Onward ==
  \A m \in Machines :
    /\ state[m] \in Terminal => state'[m] = state[m]
    /\ state[m] = "stopping" => state'[m] \in {"stopping"} \cup Terminal
    /\ host[m] # NoHost => host'[m] = host[m]

LEMMA TableOnward == TableInv /\ [TableNext]_tableVars => Onward
<1> SUFFICES ASSUME TableInv, [TableNext]_tableVars PROVE Onward
  OBVIOUS
<1> USE DEF TableInv, TableTypeOK, HostImpliesStarted, Onward, Terminal, Active
<1>1. ASSUME NEW m \in Machines, Placement(m) PROVE Onward
  <2>1. CASE \E h \in Hosts : Reserve(m, h)
    BY <2>1 DEF Reserve
  <2>2. CASE \E v \in 1..MaxBoots, ready \in BOOLEAN : ObserveHost(m, v, ready)
    BY <2>2 DEF ObserveHost, CanObserveHost, tableVars
  <2>3. CASE \E w \in Workers : FailCreate(m, w)
    BY <2>3 DEF FailCreate, CanFailCreate
  <2>4. CASE InsertRequested(m)
    BY <2>4 DEF InsertRequested
  <2>5. CASE \/ CreateClaimExpires(m)
             \/ \E w \in Workers : ClaimCreate(m, w) \/ ReleaseCreateClaim(m, w)
    BY <2>5 DEF CreateClaimExpires, ClaimCreate, ReleaseCreateClaim
  <2> QED
    BY <1>1, <2>1, <2>2, <2>3, <2>4, <2>5 DEF Placement
<1>2. ASSUME NEW m \in Machines, Stopping(m) PROVE Onward
  BY <1>2 DEF Stopping, Transition, CanTransition, Release, tableVars
<1>3. ASSUME NEW m \in Machines, Reconciliation(m) PROVE Onward
  BY <1>3 DEF Reconciliation, ClaimReconcile, ReleaseReconcileClaim, ReconcileClaimExpires,
     PersistRecovered, MarkRunning, Finish, CanFinish, ReleaseLeaked, Release, tableVars
<1>4. CASE MarkLostOnStaleHosts
  BY <1>4 DEF MarkLostOnStaleHosts, OnStaleHost
<1>5. CASE \E h \in Hosts : MarkStale(h) \/ HostReturns(h)
  BY <1>5 DEF MarkStale, HostReturns
<1>6. CASE UNCHANGED tableVars
  BY <1>6 DEF tableVars
<1> QED
  BY <1>1, <1>2, <1>3, <1>4, <1>5, <1>6 DEF TableNext

\* A host id on record is never forgotten.
KeepsIds == \A m \in Machines : vmId[m] # 0 => vmId'[m] # 0

LEMMA TableKeepsIds == TableInv /\ [TableNext]_tableVars => KeepsIds
<1> SUFFICES ASSUME TableInv, [TableNext]_tableVars PROVE KeepsIds
  OBVIOUS
<1> USE DEF TableInv, TableTypeOK, KeepsIds
<1>1. ASSUME NEW m \in Machines, NEW v \in 1..MaxBoots,
             vmId' = [vmId EXCEPT ![m] = v]
      PROVE  KeepsIds
  BY <1>1, BootsAssumption
<1>2. ASSUME NEW m \in Machines, Placement(m) PROVE KeepsIds
  BY <1>1, <1>2 DEF Placement, InsertRequested, ClaimCreate, ReleaseCreateClaim, FailCreate,
     CreateClaimExpires, Reserve, ObserveHost, tableVars
<1>3. ASSUME NEW m \in Machines, Stopping(m) PROVE KeepsIds
  BY <1>3 DEF Stopping, Transition, Release, tableVars
<1>4. ASSUME NEW m \in Machines, Reconciliation(m) PROVE KeepsIds
  BY <1>1, <1>4 DEF Reconciliation, ClaimReconcile, ReleaseReconcileClaim,
     ReconcileClaimExpires, PersistRecovered, MarkRunning, Finish, ReleaseLeaked, Release,
     tableVars
<1> QED
  BY <1>2, <1>3, <1>4 DEF TableNext, MarkLostOnStaleHosts, MarkStale, HostReturns, tableVars

\* The inductive invariant holds of every behaviour of the rows.
THEOREM TableInvariant == TableSpec => []TableInv
<1> QED
  BY TableInvInit, TableInvNext, PTL DEF TableSpec

\* The ledger is exact, no host is overcommitted, no quota is exceeded, and no
\* active machine has lost its reservation.
THEOREM CapacitySafe ==
  TableSpec => [](LedgerExact /\ NoOvercommit /\ QuotaHeld /\ HeldWhileActive)
<1>1. TableInv => LedgerExact /\ NoOvercommit /\ QuotaHeld /\ HeldWhileActive
  BY DEF TableInv, HeldWhileActive, ReleasedIsTerminal, Placed, Active, Terminal
<1> QED
  BY <1>1, TableInvariant, PTL

\* Placements never promise more than a host has, however many race for it.
THEOREM NeverOvercommitted == TableSpec => []NoOvercommit
<1> QED
  BY CapacitySafe, PTL

\* Concurrent placements never exceed the organization's quota.
THEOREM QuotaNeverExceeded == TableSpec => []QuotaHeld
<1> QED
  BY CapacitySafe, PTL

\* No stale worker releases the reservation of an active machine.
THEOREM ActiveKeepsReservation == TableSpec => []HeldWhileActive
<1> QED
  BY CapacitySafe, PTL

\* A running machine can be reached by a delete.
THEOREM RunningReachable == TableSpec => []RunningIsAddressable
<1>1. TableInv => RunningIsAddressable
  BY DEF TableInv, RunningIsAddressable, StartedImpliesHost, RunningHasId
<1> QED
  BY <1>1, TableInvariant, PTL

\* Rows only move towards their end, and are placed once.
THEOREM NothingRevives == TableSpec => NeverRevived
<1>1. TableInv /\ [TableNext]_tableVars => [Onward]_tableVars
  BY TableOnward
<1> QED
  BY <1>1, TableInvariant, PTL DEF TableSpec, NeverRevived, Onward
=============================================================================
