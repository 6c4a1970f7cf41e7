-------------------------- MODULE ServicesProofs --------------------------
(***************************************************************************)
(* The safety of what ends, retries and bills: Stripe events and billing   *)
(* standing, the orderly exits of control plane and gateway, and the calls *)
(* of the SDK.                                                             *)
(***************************************************************************)
EXTENDS StripeEvents, Exits, SdkCalls, TLAPS, FiniteSetTheorems

-----------------------------------------------------------------------------
(* Stripe events: the standing follows the newest event of its source. *)

Row == [failed : BOOLEAN, created : Nat, id : Nat]

EventsTypes ==
  /\ receipts \subseteq Events
  /\ invoice \in [Invoices -> Row]
  /\ tx \in [Deliveries -> [pc : {"idle", "lookup", "lock", "apply"},
                            event : Events \cup {Unseen}, row : Row]]
  /\ delinquent \in BOOLEAN

\* Between the read of a row and the commit nobody else is past his own read.
Locked ==
  /\ \A d \in Deliveries : tx[d].pc = "apply" => lock = d
  /\ commitment # "idle" => lock = Admission

\* What a delivery works with: an event, and the row as it still is.
Reads ==
  \A d \in Deliveries :
    /\ tx[d].pc # "idle" => tx[d].event \in Events
    /\ tx[d].pc = "apply" => tx[d].row = invoice[tx[d].event.invoice]

\* Row i holds the greatest of the events in S for the invoice.
Greatest(row, S, i) ==
  IF \E e \in S : e.invoice = i
  THEN \E e \in S : /\ e.invoice = i /\ row = RowOf(e)
                    /\ \A f \in S : f.invoice = i => ~Newer(f, row)
  ELSE row = Unseen

RowsAreGreatest == \A i \in Invoices : Greatest(invoice[i], receipts, i)

EventsInv ==
  /\ EventsTypes /\ Locked /\ Reads /\ RowsAreGreatest
  /\ delinquent <=> Aggregate(invoice)
  /\ DelinquentGetsNothing

-----------------------------------------------------------------------------
(* The order of events. *)

\* A row that holds an event is not the absence of one.
LEMMA RowIsSeen ==
  ASSUME EventsAssumption, NEW e \in Events
  PROVE  RowOf(e) \in Row /\ RowOf(e) # Unseen /\ e.invoice \in Invoices
BY DEF EventsAssumption, RowOf, Row, Unseen, Invoices

\* Newer is transitive: what is not newer than an old row is not newer than the
\* event that replaces it.
LEMMA NewerTransitive ==
  ASSUME EventsAssumption, NEW e \in Events, NEW f \in Events, NEW row \in Row,
         Newer(e, row), ~Newer(f, row)
  PROVE  ~Newer(f, RowOf(e))
<1>1. /\ e.created \in Nat /\ f.created \in Nat /\ e.id \in Nat /\ f.id \in Nat
      /\ e.failed \in BOOLEAN /\ f.failed \in BOOLEAN
  BY DEF EventsAssumption
<1>2. row.created \in Nat /\ row.id \in Nat /\ row.failed \in BOOLEAN
  BY DEF Row
<1>3. RowOf(e).created = e.created /\ RowOf(e).id = e.id /\ RowOf(e).failed = e.failed
  BY DEF RowOf
<1> QED
  BY <1>1, <1>2, <1>3, RowIsSeen DEF Newer, Rank

\* No event is newer than its own row.
LEMMA NotNewerThanItself ==
  ASSUME EventsAssumption, NEW e \in Events
  PROVE  ~Newer(e, RowOf(e))
<1>1. e.created \in Nat /\ e.id \in Nat
  BY DEF EventsAssumption
<1> QED
  BY <1>1, RowIsSeen DEF Newer, Rank, RowOf

\* One more event, applied the way Apply does it, keeps a row the greatest.
LEMMA AppliedIsGreatest ==
  ASSUME EventsAssumption, NEW S \in SUBSET Events, NEW e \in Events,
         NEW row \in Row, Greatest(row, S, e.invoice)
  PROVE  Greatest(IF Newer(e, row) THEN RowOf(e) ELSE row, S \cup {e}, e.invoice)
<1>1. CASE Newer(e, row)
  <2>1. \A f \in S : f.invoice = e.invoice => ~Newer(f, RowOf(e))
    <3> SUFFICES ASSUME NEW f \in S, f.invoice = e.invoice PROVE ~Newer(f, RowOf(e))
      OBVIOUS
    <3>1. ~Newer(f, row)
      BY DEF Greatest
    <3> QED
      BY <1>1, <3>1, NewerTransitive
  <2> QED
    BY <1>1, <2>1, NotNewerThanItself DEF Greatest
<1>2. CASE ~Newer(e, row)
  <2>1. row # Unseen
    BY <1>2 DEF Newer
  <2> QED
    BY <1>2, <2>1 DEF Greatest
<1> QED
  BY <1>1, <1>2

\* The other invoices do not notice.
LEMMA OthersStayGreatest ==
  ASSUME NEW S \in SUBSET Events, NEW e \in Events, NEW i, i # e.invoice, NEW row,
         Greatest(row, S, i)
  PROVE  Greatest(row, S \cup {e}, i)
BY DEF Greatest

-----------------------------------------------------------------------------
(* The invariant is kept. *)

\* Nothing is received at first.
LEMMA InitInv == EventsAssumption /\ EventsInit => EventsInv
<1> SUFFICES ASSUME EventsAssumption, EventsInit PROVE EventsInv
  OBVIOUS
<1>1. EventsTypes
  BY DEF EventsInit, EventsTypes, Idle, Unseen, Row
<1>2. Locked /\ Reads /\ DelinquentGetsNothing
  BY DEF EventsInit, Locked, Reads, Idle, DelinquentGetsNothing
<1>3. RowsAreGreatest /\ (delinquent <=> Aggregate(invoice))
  BY DEF EventsInit, RowsAreGreatest, Greatest, Aggregate, Unseen
<1> QED
  BY <1>1, <1>2, <1>3 DEF EventsInv

\* A step that moves transactions and the lock, and leaves the tables alone.
LEMMA TablesKept ==
  ASSUME EventsInv, UNCHANGED <<receipts, invoice, delinquent>>, EventsTypes', Locked', Reads',
         DelinquentGetsNothing'
  PROVE  EventsInv'
BY DEF EventsInv, RowsAreGreatest, Greatest, Aggregate

\* A delivery applies to a row that is what it read, because it holds the lock.
LEMMA ApplyInv ==
  ASSUME EventsAssumption, EventsInv, NEW d \in Deliveries, Apply(d)
  PROVE  EventsInv'
<1> DEFINE e == tx[d].event
           row == invoice[e.invoice]
           new == IF Newer(e, row) THEN RowOf(e) ELSE row
<1>1. /\ tx[d].pc = "apply" /\ lock = d /\ e \in Events /\ tx[d].row = row
      /\ e.invoice \in Invoices /\ row \in Row /\ RowOf(e) \in Row
  BY RowIsSeen DEF EventsInv, EventsTypes, Locked, Reads, Apply
<1>2. /\ receipts' = receipts \cup {e} /\ tx' = [tx EXCEPT ![d] = Idle]
      /\ lock' = NoOne /\ commitment' = commitment
      /\ invoice' = [invoice EXCEPT ![e.invoice] = new]
  BY <1>1 DEF Apply, Upsert, EventsInv, EventsTypes
<1>3. delinquent' <=> Aggregate(invoice)'
  <2>1. CASE Newer(e, row)
    BY <1>1, <2>1 DEF Apply, Upsert, Aggregate
  <2>2. CASE ~Newer(e, row)
    BY <1>1, <2>2 DEF Apply, EventsInv, Aggregate
  <2> QED
    BY <2>1, <2>2
<1>4. EventsTypes'
  <2>1. delinquent' \in BOOLEAN
    BY <1>1 DEF Apply, Aggregate, EventsInv, EventsTypes
  <2>2. Idle \in [pc : {"idle", "lookup", "lock", "apply"},
                  event : Events \cup {Unseen}, row : Row]
    BY DEF Idle, Unseen, Row
  <2>3. receipts' \subseteq Events /\ invoice' \in [Invoices -> Row]
    BY <1>1, <1>2 DEF EventsInv, EventsTypes
  <2> QED
    BY <1>2, <2>1, <2>2, <2>3 DEF EventsInv, EventsTypes
<1>5. \A o \in Deliveries : tx'[o].pc # "apply"
  BY <1>1, <1>2 DEF EventsInv, EventsTypes, Locked, Idle
<1>6. commitment = "idle"
  BY <1>1 DEF EventsInv, Locked, EventsAssumption
<1>7. Locked' /\ DelinquentGetsNothing'
  BY <1>2, <1>5, <1>6 DEF Locked, DelinquentGetsNothing
<1>8. Reads'
  BY <1>2, <1>5 DEF Reads, EventsInv, EventsTypes, Idle
<1>9. RowsAreGreatest'
  <2> SUFFICES ASSUME NEW i \in Invoices PROVE Greatest(invoice'[i], receipts', i)
    BY DEF RowsAreGreatest
  <2>1. Greatest(invoice[i], receipts, i) /\ receipts \in SUBSET Events
    BY DEF EventsInv, RowsAreGreatest, EventsTypes
  <2>2. CASE i = e.invoice
    <3>1. Greatest(new, receipts \cup {e}, e.invoice)
      BY <1>1, <2>1, <2>2, AppliedIsGreatest
    <3>2. invoice'[i] = new
      BY <1>1, <1>2, <2>2 DEF EventsInv, EventsTypes
    <3> QED
      BY <1>2, <2>2, <3>1, <3>2
  <2>3. CASE i # e.invoice
    <3>1. invoice'[i] = invoice[i]
      BY <1>2, <2>3 DEF EventsInv, EventsTypes
    <3> QED
      BY <1>1, <1>2, <2>1, <2>3, <3>1, OthersStayGreatest
  <2> QED
    BY <2>2, <2>3
<1> QED
  BY <1>3, <1>4, <1>7, <1>8, <1>9 DEF EventsInv

\* Every step keeps the invariant.
LEMMA NextInv ==
  ASSUME EventsAssumption, EventsInv, [EventsNext]_eventsVars
  PROVE  EventsInv'
<1> USE DEF EventsInv, EventsTypes, Locked, Reads, DelinquentGetsNothing
<1> DEFINE TxRecord == [pc : {"idle", "lookup", "lock", "apply"},
                        event : Events \cup {Unseen}, row : Row]
<1>1. CASE Link
  BY <1>1, TablesKept DEF Link
<1>2. CASE Enforce
  BY <1>2, TablesKept DEF Enforce, EventsAssumption
<1>3. CASE Commit
  BY <1>3, TablesKept DEF Commit, EventsAssumption
<1>4. ASSUME NEW d \in Deliveries, NEW e \in Events, Receive(d, e)
      PROVE  EventsInv'
  <2>1. [pc |-> "lookup", event |-> e, row |-> Unseen] \in TxRecord
    BY DEF Unseen, Row
  <2> QED
    BY <1>4, <2>1, TablesKept DEF Receive
<1>5. ASSUME NEW d \in Deliveries, Lookup(d)
      PROVE  EventsInv'
  <2>1. Idle \in TxRecord
    BY DEF Idle, Unseen, Row
  <2> QED
    BY <1>5, <2>1, TablesKept DEF Lookup, Idle
<1>6. ASSUME NEW d \in Deliveries, Lock(d)
      PROVE  EventsInv'
  <2>1. tx[d].event \in Events /\ invoice[tx[d].event.invoice] \in Row
    BY <1>6, RowIsSeen DEF Lock
  <2>2. EventsTypes'
    <3> DEFINE t == [tx[d] EXCEPT !.pc = "apply", !.row = invoice[tx[d].event.invoice]]
    <3>1. t \in TxRecord
      BY <2>1
    <3>2. tx' = [tx EXCEPT ![d] = t] /\ UNCHANGED <<receipts, invoice, delinquent>>
      BY <1>6 DEF Lock
    <3> HIDE DEF t
    <3> QED
      BY <3>1, <3>2
  <2>3. commitment = "idle" /\ \A o \in Deliveries : tx[o].pc # "apply"
    BY <1>6 DEF Lock, EventsAssumption, NoOne, Admission
  <2>4. /\ tx'[d].pc = "apply" /\ tx'[d].event = tx[d].event
        /\ tx'[d].row = invoice[tx[d].event.invoice]
        /\ \A o \in Deliveries : o # d => tx'[o] = tx[o]
    BY <1>6 DEF Lock
  <2>5. Locked' /\ DelinquentGetsNothing'
    BY <1>6, <2>3, <2>4 DEF Lock
  <2>6. Reads'
    BY <1>6, <2>1, <2>3, <2>4 DEF Lock
  <2> QED
    BY <1>6, <2>2, <2>5, <2>6, TablesKept DEF Lock
<1>7. ASSUME NEW d \in Deliveries, Apply(d)
      PROVE  EventsInv'
  BY <1>7, ApplyInv
<1>8. ASSUME NEW d \in Deliveries, Fail(d)
      PROVE  EventsInv'
  <2>1. Idle \in TxRecord
    BY DEF Idle, Unseen, Row
  <2> QED
    BY <1>8, <2>1, TablesKept DEF Fail, Idle, EventsAssumption
<1>9. CASE UNCHANGED eventsVars
  BY <1>9, TablesKept DEF eventsVars
<1> QED
  BY <1>1, <1>2, <1>3, <1>4, <1>5, <1>6, <1>7, <1>8, <1>9 DEF EventsNext

\* Every invariant above holds in every reachable state.
THEOREM EventsInvariant == EventsAssumption /\ EventsSpec => []EventsInv
<1> SUFFICES ASSUME EventsAssumption PROVE EventsSpec => []EventsInv
  OBVIOUS
<1>1. EventsInit => EventsInv
  BY InitInv
<1>2. EventsInv /\ [EventsNext]_eventsVars => EventsInv'
  BY NextInv
<1> QED
  BY <1>1, <1>2, PTL DEF EventsSpec

\* The greatest event of an invoice says whether its latest second has a failure.
LEMMA GreatestDecides ==
  ASSUME EventsAssumption, EventsInv
  PROVE  StandingIsLatest
<1> DEFINE Latest(i) == {e \in receipts : e.invoice = i
                           /\ \A f \in receipts : f.invoice = i => f.created <= e.created}
<1> SUFFICES ASSUME NEW i \in Invoices
             PROVE  invoice[i].failed <=> \E e \in Latest(i) : e.failed
  BY DEF EventsInv, StandingIsLatest, Aggregate
<1>1. receipts \subseteq Events /\ Greatest(invoice[i], receipts, i)
  BY DEF EventsInv, EventsTypes, RowsAreGreatest
<1>2. CASE ~\E e \in receipts : e.invoice = i
  BY <1>1, <1>2 DEF Greatest, Unseen
<1>3. CASE \E e \in receipts : e.invoice = i
  <2>1. PICK e \in receipts : /\ e.invoice = i /\ invoice[i] = RowOf(e)
                              /\ \A f \in receipts : f.invoice = i => ~Newer(f, RowOf(e))
    BY <1>1, <1>3 DEF Greatest
  <2>2. \A f \in receipts : /\ f.created \in Nat /\ f.failed \in BOOLEAN
    BY <1>1 DEF EventsAssumption
  <2>3. \A f \in receipts : f.invoice = i =>
          f.created <= e.created /\ (f.created = e.created /\ f.failed => e.failed)
    BY <2>1, <2>2 DEF Newer, RowOf, Rank
  <2>4. e \in Latest(i) /\ (invoice[i].failed <=> e.failed)
    BY <2>1, <2>3 DEF RowOf
  <2>5. ASSUME NEW f \in Latest(i), f.failed PROVE e.failed
    <3>1. f.created = e.created
      BY <2>2, <2>3, <2>4, <2>5
    <3> QED
      BY <2>3, <2>5, <3>1
  <2> QED
    BY <2>4, <2>5
<1> QED
  BY <1>2, <1>3

\* The account's standing is a function of the events received, whatever their
\* order, repetition and overlap, and no commitment is admitted once it is
\* delinquent: the organization's lock keeps the webhook's transition and the
\* admission apart (StripeWebhookService.process, billing/stripe.ts:169).
THEOREM StandingIsAFunctionOfEvents == EventsAssumption /\ EventsSpec => []StandingFollowsSource
<1> SUFFICES ASSUME EventsAssumption PROVE EventsSpec => []StandingFollowsSource
  OBVIOUS
<1>1. EventsInv => StandingFollowsSource
  BY GreatestDecides DEF EventsInv, StandingFollowsSource
<1> QED
  BY <1>1, EventsInvariant, PTL

-----------------------------------------------------------------------------
(* The exits of the control plane and of the gateway. *)

ShutdownTypes ==
  /\ pc \in {"up", "draining", "finalizing", "exited", "terminated"}
  /\ accepting \in BOOLEAN /\ drained \in BOOLEAN
  /\ running \subseteq Work /\ awaited \subseteq Work /\ open \subseteq Requests
  /\ server \in {"listening", "closing", "closed", "failed"}
  /\ finalizer \in [Finalizers -> {"idle", "closing", "closed", "failed"}]

\* Once admission ended nothing starts, so what runs is what is awaited; a drain
\* that ended in time leaves nothing behind, and only such a drain exits.
ShutdownInv ==
  /\ ShutdownTypes
  /\ accepting <=> pc = "up"
  /\ ~accepting => running \subseteq awaited /\ server # "listening"
  /\ server = "closed" => open = {}
  /\ pc \in {"up", "draining"} => ~drained
  /\ drained => running = {} /\ server = "closed"
  /\ pc = "exited" => drained

\* The process starts with everything open.
LEMMA ShutdownInitInv == ShutdownInit => ShutdownInv
BY DEF ShutdownInit, ShutdownInv, ShutdownTypes, Work, Finalizers

\* Every step keeps the order of the exit.
LEMMA ShutdownStepInv ==
  ASSUME ShutdownInv, [ShutdownNext]_shutdownVars
  PROVE  ShutdownInv'
<1> USE DEF ShutdownInv, ShutdownTypes, Alive
<1>1. ASSUME NEW r \in Requests, Connect(r)
      PROVE  ShutdownInv'
  BY <1>1 DEF Connect
<1>2. ASSUME NEW r \in Requests, Disconnect(r)
      PROVE  ShutdownInv'
  BY <1>2 DEF Disconnect
<1>3. ASSUME NEW w \in Work, WorkArrives(w)
      PROVE  ShutdownInv'
  BY <1>3 DEF WorkArrives, Tracked
<1>4. ASSUME NEW w \in Work, Finish(w)
      PROVE  ShutdownInv'
  BY <1>4 DEF Finish
<1>5. CASE Signal
  BY <1>5 DEF Signal
<1>6. CASE ServerCloses
  BY <1>6 DEF ServerCloses
<1>7. CASE Drained
  <2>1. running = {}
    BY <1>7 DEF Drained, Finalize
  <2> QED
    BY <1>7, <2>1 DEF Drained, Finalize
<1>8. CASE GraceExpires
  BY <1>8 DEF GraceExpires, Finalize
<1>9. CASE Finalized
  BY <1>9 DEF Finalized
<1>10. CASE FinalizerGraceExpires
  BY <1>10 DEF FinalizerGraceExpires
<1>11. ASSUME NEW f \in Finalizers, FinalizerSettles(f)
       PROVE  ShutdownInv'
  BY <1>11 DEF FinalizerSettles
<1>12. CASE UNCHANGED shutdownVars
  BY <1>12 DEF shutdownVars
<1> QED
  BY <1>1, <1>2, <1>3, <1>4, <1>5, <1>6, <1>7, <1>8, <1>9, <1>10, <1>11, <1>12 DEF ShutdownNext

\* The invariant is what the exit promises.
LEMMA ShutdownOrderly == ShutdownInv => ResourcesOutliveWork /\ ExitIsClean
BY DEF ShutdownInv, ResourcesOutliveWork, ExitIsClean

-----------------------------------------------------------------------------
DrainTypes ==
  /\ main \in {"up", "http", "wait", "forced", "exited"}
  /\ expired \in BOOLEAN /\ draining \in BOOLEAN
  /\ tracked \subseteq Streams /\ cancelled \subseteq Streams
  /\ handler \in [Streams -> {"new", "lookup", "begin", "limit", "open", "unlimit", "finish",
                              "release", "done"}]
  /\ entry \in [Tenants -> [gen : Nat \ {0}, active : Nat]]
  /\ held \in [Streams -> Nat]

Counted(s) == handler[s] \in {"open", "unlimit"}
Holders(t) == {s \in Streams : Tenant[s] = t /\ Counted(s)}

\* The drainer has every stream between begin and finish, and its channel is closed
\* exactly while there is none; once the gateway drains no stream is added.
Drainer ==
  /\ draining <=> main # "up"
  /\ \A s \in Streams : s \in tracked <=> handler[s] \in {"limit", "open", "unlimit", "finish"}
  /\ idle = IF tracked = {} THEN "closed" ELSE "open"
  /\ main \in {"forced", "exited"} => tracked \subseteq cancelled

\* An entry is dropped only when nobody holds a count of it, so a count that is held
\* is one of the present entry, and the entry counts its holders.
Limiter ==
  /\ \A s \in Streams : Counted(s) => held[s] = entry[Tenant[s]].gen
  /\ \A t \in Tenants : entry[t].active = Cardinality(Holders(t)) /\ entry[t].active <= MaxConnections

DrainInv == DrainTypes /\ Drainer /\ Limiter

\* Sets of streams are finite.
LEMMA HoldersFinite ==
  ASSUME DrainAssumption, NEW t
  PROVE  IsFiniteSet(Holders(t)) /\ Cardinality(Holders(t)) \in Nat
<1>1. Holders(t) \subseteq Streams
  BY DEF Holders
<1> QED
  BY <1>1, FS_Subset, FS_CardinalityType DEF DrainAssumption

\* Every stream has a tenant.
LEMMA TenantOf ==
  ASSUME DrainAssumption, NEW s \in Streams
  PROVE  Tenant[s] \in Tenants
BY DEF DrainAssumption, Tenants, Range

\* No stream is held at first.
LEMMA DrainInitInv ==
  ASSUME DrainAssumption, DrainInit
  PROVE  DrainInv
<1>0. DrainTypes
  <2>1. entry \in [Tenants -> [gen : Nat \ {0}, active : Nat]]
    BY DEF DrainInit
  <2>2. held \in [Streams -> Nat] /\ tracked \subseteq Streams /\ cancelled \subseteq Streams
    BY DEF DrainInit
  <2> QED
    BY <2>1, <2>2 DEF DrainInit, DrainTypes
<1>1. Drainer
  BY DEF DrainInit, Drainer
<1>2. \A t \in Tenants : Holders(t) = {}
  BY DEF DrainInit, Holders, Counted
<1>3. Cardinality({}) = 0
  BY FS_EmptySet
<1>4. Limiter
  BY <1>2, <1>3 DEF DrainInit, Limiter, Counted, DrainAssumption
<1> QED
  BY <1>0, <1>1, <1>4 DEF DrainInv

\* A step of a handler that neither takes nor gives back a count.
LEMMA UncountedStep ==
  ASSUME Limiter, UNCHANGED limitVars, \A s \in Streams : Counted(s)' <=> Counted(s)
  PROVE  Limiter'
<1>1. \A t \in Tenants : Holders(t)' = Holders(t)
  BY DEF Holders
<1> QED
  BY <1>1 DEF Limiter, limitVars

\* One more or one fewer holder of a tenant.
LEMMA HoldersOfOthers ==
  ASSUME NEW s \in Streams, NEW t \in Tenants, t # Tenant[s],
         \A r \in Streams \ {s} : handler'[r] = handler[r]
  PROVE  Holders(t)' = Holders(t)
BY DEF Holders, Counted

\* The limiter counts the streams that hold a slot, step by step.
LEMMA LimiterStep ==
  ASSUME DrainAssumption, DrainInv, [DrainNext]_drainVars
  PROVE  Limiter'
<1> USE DEF DrainInv, DrainTypes
<1>1. ASSUME NEW s \in Streams, acquire(s)
      PROVE  Limiter'
  <2> DEFINE t == Tenant[s]
  <2>1. t \in Tenants
    BY TenantOf
  <2>2. CASE entry[t].active >= MaxConnections
    <3>1. \A r \in Streams : Counted(r)' <=> Counted(r)
      BY <1>1, <2>2 DEF acquire, At, Go, Counted
    <3> QED
      BY <3>1, <1>1, <2>2, UncountedStep DEF acquire
  <2>3. CASE ~(entry[t].active >= MaxConnections)
    <3>1. /\ handler' = [handler EXCEPT ![s] = "open"] /\ handler[s] = "limit"
          /\ entry' = [entry EXCEPT ![t].active = @ + 1]
          /\ held' = [held EXCEPT ![s] = entry[t].gen]
      BY <1>1, <2>3 DEF acquire, At, Go
    <3>2. Holders(t)' = Holders(t) \cup {s} /\ s \notin Holders(t)
      BY <3>1 DEF Holders, Counted
    <3>3. Cardinality(Holders(t)') = Cardinality(Holders(t)) + 1
      BY <3>2, HoldersFinite, FS_AddElement
    <3>4. \A u \in Tenants \ {t} : Holders(u)' = Holders(u)
      BY <3>1, HoldersOfOthers
    <3>5. /\ entry'[t].active = entry[t].active + 1 /\ entry'[t].gen = entry[t].gen
          /\ \A u \in Tenants \ {t} : entry'[u] = entry[u]
      BY <3>1, <2>1
    <3>6. \A u \in Tenants : entry'[u].active = Cardinality(Holders(u)') /\ entry'[u].active <= MaxConnections
      BY <3>3, <3>4, <3>5, <2>1, <2>3, HoldersFinite DEF Limiter, DrainAssumption
    <3>7. \A r \in Streams : Counted(r)' => held'[r] = entry'[Tenant[r]].gen
      <4> SUFFICES ASSUME NEW r \in Streams, Counted(r)'
                   PROVE  held'[r] = entry'[Tenant[r]].gen
        OBVIOUS
      <4>1. CASE r = s
        BY <4>1, <3>1, <3>5
      <4>2. CASE r # s
        <5>1. Counted(r) /\ held'[r] = held[r]
          BY <4>2, <3>1 DEF Counted
        <5>2. entry'[Tenant[r]].gen = entry[Tenant[r]].gen
          BY <3>5, TenantOf
        <5> QED
          BY <5>1, <5>2 DEF Limiter
      <4> QED
        BY <4>1, <4>2
    <3> QED
      BY <3>6, <3>7 DEF Limiter
  <2> QED
    BY <2>2, <2>3
<1>2. ASSUME NEW s \in Streams, release(s)
      PROVE  Limiter'
  <2> DEFINE t == Tenant[s]
  <2>1. t \in Tenants
    BY TenantOf
  <2>2. entry[t].gen = held[s]
    BY <1>2 DEF release, At, Limiter, Counted
  <2>3. /\ handler' = [handler EXCEPT ![s] = "finish"] /\ handler[s] = "unlimit"
        /\ entry' = [entry EXCEPT ![t].active = @ - 1]
        /\ held' = [held EXCEPT ![s] = 0]
    BY <1>2, <2>2 DEF release, At, Go
  <2>4. Holders(t)' = Holders(t) \ {s} /\ s \in Holders(t)
    BY <2>3 DEF Holders, Counted
  <2>5. Cardinality(Holders(t)') = Cardinality(Holders(t)) - 1
    <3>1. Cardinality(Holders(t) \ {s}) = IF s \in Holders(t) THEN Cardinality(Holders(t)) - 1 ELSE Cardinality(Holders(t))
      BY HoldersFinite, FS_RemoveElement
    <3> QED
      BY <3>1, <2>4
  <2>6. \A u \in Tenants \ {t} : Holders(u)' = Holders(u)
    BY <2>3, HoldersOfOthers
  <2>7. /\ entry'[t].active = entry[t].active - 1 /\ entry'[t].gen = entry[t].gen
        /\ \A u \in Tenants \ {t} : entry'[u] = entry[u]
    BY <2>3, <2>1
  <2>8. \A u \in Tenants : entry'[u].active = Cardinality(Holders(u)') /\ entry'[u].active <= MaxConnections
    BY <2>5, <2>6, <2>7, <2>1, HoldersFinite DEF Limiter, DrainAssumption
  <2>9. \A r \in Streams : Counted(r)' => held'[r] = entry'[Tenant[r]].gen
    <3> SUFFICES ASSUME NEW r \in Streams, Counted(r)'
                 PROVE  held'[r] = entry'[Tenant[r]].gen
      OBVIOUS
    <3>1. r # s /\ Counted(r) /\ held'[r] = held[r]
      BY <2>3 DEF Counted
    <3>2. entry'[Tenant[r]].gen = entry[Tenant[r]].gen
      BY <2>7, TenantOf
    <3> QED
      BY <3>1, <3>2 DEF Limiter
  <2> QED
    BY <2>8, <2>9 DEF Limiter
<1>3. ASSUME NEW t \in Tenants, Evict(t)
      PROVE  Limiter'
  <2>1. Holders(t) = {}
    BY <1>3, HoldersFinite, FS_EmptySet DEF Evict, Limiter
  <2>2. /\ entry'[t].active = 0
        /\ \A u \in Tenants \ {t} : entry'[u] = entry[u]
    BY <1>3 DEF Evict
  <2>3. \A u \in Tenants : Holders(u)' = Holders(u)
    BY <1>3 DEF Evict, Holders, Counted
  <2>4. \A u \in Tenants : entry'[u].active = Cardinality(Holders(u)') /\ entry'[u].active <= MaxConnections
    BY <2>1, <2>2, <2>3, FS_EmptySet DEF Limiter, DrainAssumption
  <2>5. ASSUME NEW r \in Streams, Counted(r)'
        PROVE  held'[r] = entry'[Tenant[r]].gen
    <3>1. Counted(r) /\ held'[r] = held[r]
      BY <1>3, <2>5 DEF Evict, Counted
    <3>2. Tenant[r] # t
      BY <2>1, <3>1 DEF Holders
    <3> QED
      BY <3>1, <3>2, <2>2, TenantOf DEF Limiter
  <2> QED
    BY <2>4, <2>5 DEF Limiter
<1>4. ASSUME NEW s \in Streams,
             \/ StreamArrives(s) \/ Resolve(s) \/ begin(s) \/ Upgrade(s) \/ Ends(s) \/ finish(s) \/ releaseStream(s)
      PROVE  Limiter'
  <2>1. UNCHANGED limitVars /\ \A r \in Streams : Counted(r)' <=> Counted(r)
    BY <1>4 DEF StreamArrives, Resolve, begin, Upgrade, Ends, finish, releaseStream, At, Go, Counted
  <2> QED
    BY <2>1, UncountedStep
<1>5. ASSUME \/ startDrain \/ DrainGraceExpires \/ HttpShutdown \/ WaitDone \/ forceClose \/ ForcedDone
             \/ UNCHANGED drainVars
      PROVE  Limiter'
  <2>1. UNCHANGED limitVars /\ handler' = handler
    BY <1>5 DEF startDrain, DrainGraceExpires, HttpShutdown, WaitDone, forceClose, ForcedDone, MainStep,
                drainVars, limitVars
  <2> QED
    BY <2>1, UncountedStep DEF Counted
<1> QED
  BY <1>1, <1>2, <1>3, <1>4, <1>5 DEF DrainNext

\* Every step keeps what the drainer knows of its streams.
LEMMA DrainerStep ==
  ASSUME DrainAssumption, DrainInv, [DrainNext]_drainVars
  PROVE  DrainTypes' /\ Drainer'
<1> USE DEF DrainInv, DrainTypes, Drainer
<1>1. ASSUME NEW s \in Streams, StreamArrives(s) \/ Resolve(s) \/ Upgrade(s) \/ Ends(s) \/ releaseStream(s)
      PROVE  DrainTypes' /\ Drainer'
  BY <1>1 DEF StreamArrives, Resolve, Upgrade, Ends, releaseStream, At, Go, mainVars, limitVars
<1>2. ASSUME NEW s \in Streams, begin(s)
      PROVE  DrainTypes' /\ Drainer'
  BY <1>2 DEF begin, At, Go, mainVars, limitVars, Running
<1>3. ASSUME NEW s \in Streams, acquire(s)
      PROVE  DrainTypes' /\ Drainer'
  BY <1>3, TenantOf DEF acquire, At, Go, mainVars, limitVars
<1>4. ASSUME NEW s \in Streams, release(s)
      PROVE  DrainTypes' /\ Drainer'
  <2>1. Tenant[s] \in Tenants /\ entry[Tenant[s]].active \in Nat \ {0}
    <3>1. s \in Holders(Tenant[s])
      BY <1>4 DEF release, At, Holders, Counted
    <3>2. Holders(Tenant[s]) # {}
      BY <3>1
    <3> QED
      BY <3>2, TenantOf, HoldersFinite, FS_EmptySet DEF Limiter
  <2>2. entry[Tenant[s]].active - 1 \in Nat
    BY <2>1
  <2> QED
    BY <1>4, <2>1, <2>2 DEF release, At, Go, mainVars, limitVars
<1>5. ASSUME NEW s \in Streams, finish(s)
      PROVE  DrainTypes' /\ Drainer'
  BY <1>5 DEF finish, At, Go, mainVars, limitVars
<1>6. ASSUME NEW t \in Tenants, Evict(t)
      PROVE  DrainTypes' /\ Drainer'
  BY <1>6 DEF Evict, mainVars
<1>7. CASE \/ startDrain \/ DrainGraceExpires \/ HttpShutdown \/ WaitDone \/ forceClose \/ ForcedDone
           \/ UNCHANGED drainVars
  <2>1. /\ tracked' = tracked /\ idle' = idle /\ handler' = handler /\ entry' = entry /\ held' = held
        /\ cancelled' \in {cancelled, cancelled \cup tracked} /\ expired' \in BOOLEAN
    BY <1>7 DEF startDrain, DrainGraceExpires, HttpShutdown, WaitDone, forceClose, ForcedDone, MainStep,
                drainVars, limitVars
  <2>2. /\ main' \in {"up", "http", "wait", "forced", "exited"} /\ draining' \in BOOLEAN
        /\ draining' <=> main' # "up"
    <3>1. CASE startDrain
      BY <3>1 DEF startDrain, MainStep
    <3>2. CASE ~startDrain
      <4>1. draining' = draining /\ (main' = main \/ (main # "up" /\ main' \in {"wait", "forced", "exited"}))
        BY <1>7, <3>2 DEF DrainGraceExpires, HttpShutdown, WaitDone, forceClose, ForcedDone, MainStep, drainVars
      <4> QED
        BY <4>1
    <3> QED
      BY <3>1, <3>2
  <2>3. main' \in {"forced", "exited"} => tracked' \subseteq cancelled'
    BY <1>7 DEF startDrain, DrainGraceExpires, HttpShutdown, WaitDone, forceClose, ForcedDone, MainStep,
                drainVars
  <2> QED
    BY <2>1, <2>2, <2>3
<1> QED
  BY <1>1, <1>2, <1>3, <1>4, <1>5, <1>6, <1>7 DEF DrainNext

\* The invariant is what the drain promises.
LEMMA DrainOrderly == DrainInv => ExitCancelsAll /\ TenantWithinLimit
<1> SUFFICES ASSUME DrainInv PROVE ExitCancelsAll /\ TenantWithinLimit
  OBVIOUS
<1>1. ExitCancelsAll
  BY DEF DrainInv, DrainTypes, Drainer, ExitCancelsAll
<1>2. \A t \in Tenants : Cardinality(Holders(t)) <= MaxConnections
  BY DEF DrainInv, Limiter
<1> QED
  BY <1>1, <1>2 DEF TenantWithinLimit, Holders, Counted

\* The database outlives the work of a drain that ended in time, a process that ends by
\* itself has nothing open, and the gateway ends under no stream it did not cancel, its
\* tenants within their limit, for any work, streams and tenants (shutdown.ts,
\* gateway/drain.go, proxy.go).
THEOREM BothExitOrderly ==
  ASSUME DrainAssumption
  PROVE  ExitsSpec => []ExitIsOrderly
<1>1. ShutdownInit /\ DrainInit => ShutdownInv /\ DrainInv
  BY ShutdownInitInv, DrainInitInv
<1>2. ShutdownInv /\ [ShutdownNext]_shutdownVars => ShutdownInv'
  BY ShutdownStepInv
<1>3. DrainInv /\ [DrainNext]_drainVars => DrainInv'
  BY LimiterStep, DrainerStep DEF DrainInv
<1>4. ShutdownInv /\ DrainInv => ExitIsOrderly
  BY ShutdownOrderly, DrainOrderly DEF ExitIsOrderly
<1> QED
  BY <1>1, <1>2, <1>3, <1>4, PTL DEF ExitsSpec, ShutdownSpec, DrainSpec

-----------------------------------------------------------------------------
(* SDK calls: one effect, whatever is retried. *)

OpStates == {"none", "running", "done", "failed"}
Answers == {"ok", "pending", "transient", "refused"}
Keyed(c) == kind[c] \in {"create", "fork"}

Attempt == [call : Calls, key : Nat, stage : {"session", "work"}, nr : Nat \X Nat]

CallsTypes ==
  /\ kind \in [Calls -> Kinds]
  /\ state \in [Calls -> {"idle", "waiting", "delay", "ok", "pending", "failed"}]
  /\ stage \in [Calls -> {"session", "work"}]
  /\ attempt \in [Calls -> Nat] /\ again \in [Calls -> Nat]
  /\ key \in [Calls -> Nat] /\ known \in [Calls -> Nat] /\ keys \in Nat
  /\ flight \in [Calls -> {"none", "sent", "body"} \cup Answers]
  /\ late \subseteq Attempt
  /\ op \in [1..MaxKeys -> OpStates]
  /\ effects \in [Calls -> Nat]

\* A call makes its key when it begins for the first time and keeps it; what a caller
\* was told is that key, and an attempt that is still under way carries it.
KeyCount == keys = Cardinality({c \in Calls : key[c] # 0})
KeyKnown ==
  \A c \in Calls : /\ key[c] <= keys /\ known[c] \in {0, key[c]}
                   /\ state[c] = "idle" => known[c] = key[c]
                   /\ (state[c] # "idle" /\ Keyed(c)) => key[c] # 0
                   /\ ~Keyed(c) => key[c] = 0
                   /\ Keyed(c) => stage[c] = "work"
KeyUnique == \A c, d \in Calls : key[c] = key[d] /\ key[c] # 0 => c = d
LateKey == \A r \in late : r.key = key[r.call] /\ (Keyed(r.call) => r.key # 0 /\ r.stage = "work")
KeyFresh == \A k \in 1..MaxKeys : k > keys => op[k] = "none"
KeysKept == KeyCount /\ KeyKnown /\ KeyUnique /\ LateKey /\ KeyFresh

\* An attempt is under way only while its call waits.
Waits ==
  \A c \in Calls : /\ flight[c] # "none" <=> state[c] = "waiting"
                   /\ state[c] = "delay" => Retryable(c)

\* The server remembers a key exactly when its call had its effect.
KeyedOnce ==
  \A c \in Calls : Keyed(c) => effects[c] = IF key[c] = 0 \/ op[key[c]] = "none" THEN 0 ELSE 1

\* A command or a transfer is sent once: while it can still be executed, or was not
\* sent, it had no effect.
LateWork(c) == {r \in late : r.call = c /\ r.stage = "work"}
SentOnce ==
  \A c \in Calls : ~Keyed(c) =>
    /\ effects[c] <= 1
    /\ state[c] = "idle" \/ stage[c] = "session" \/ flight[c] = "sent" => effects[c] = 0 /\ LateWork(c) = {}
    /\ LateWork(c) # {} => effects[c] = 0 /\ state[c] = "failed" /\ stage[c] = "work"
    /\ \A r, s \in LateWork(c) : r = s

\* A success that arrived, or was returned, is the answer of a finished call.
Ready(c) == effects[c] = 1 /\ (key[c] # 0 => op[key[c]] = "done")
AnswersReady ==
  \A c \in Calls : (flight[c] = "ok" /\ stage[c] = "work") \/ state[c] = "ok" => Ready(c)

CallsInv == CallsTypes /\ KeysKept /\ Waits /\ KeyedOnce /\ SentOnce /\ AnswersReady

-----------------------------------------------------------------------------
\* A call has at most one key, so there is room for all of them.
LEMMA RoomForKeys ==
  ASSUME CallsAssumption, NEW S \in SUBSET Calls
  PROVE  MaxKeys \in Nat /\ Cardinality(S) <= MaxKeys
<1> DEFINE n == Cardinality(Calls)
<1>1. n \in Nat /\ Cardinality(S) \in Nat /\ Cardinality(S) <= n
  BY FS_CardinalityType, FS_Subset DEF CallsAssumption
<1>2. n * (MaxAgain + 1) \in Nat /\ n * (MaxAgain + 1) >= n
  BY <1>1, SMT DEF CallsAssumption
<1> QED
  BY <1>1, <1>2 DEF MaxKeys

\* Every key a call uses is one the server can remember.
LEMMA KeysFit ==
  ASSUME CallsAssumption, CallsTypes, KeysKept
  PROVE  \A c \in Calls : key[c] # 0 => key[c] \in 1..MaxKeys
<1>1. MaxKeys \in Nat /\ keys <= MaxKeys
  BY RoomForKeys, {c \in Calls : key[c] # 0} \in SUBSET Calls DEF KeysKept, KeyCount
<1>2. \A c \in Calls : key[c] \in Nat /\ key[c] <= keys
  BY DEF CallsTypes, KeysKept, KeyKnown
<1> QED
  BY <1>1, <1>2 DEF CallsTypes

\* What the server does with a request that has a key.
LEMMA ExecutedKeyed ==
  ASSUME NEW c \in Calls, NEW k \in 1..MaxKeys, op[k] \in OpStates, NEW result \in Executed(c, k, "work")
  PROVE  /\ result.op \in OpStates /\ result.answer \in Answers
         /\ \/ result.effect = 0 /\ result.op = op[k]
            \/ result.effect = 1 /\ op[k] = "none" /\ result.op # "none"
         /\ result.answer = "ok" => result.op = "done"
<1>1. k # 0
  BY DEF MaxKeys
<1>2. CASE op[k] = "none"
  BY <1>1, <1>2 DEF Executed, OpStates, Answers
<1>3. CASE op[k] # "none"
  BY <1>1, <1>3 DEF Executed, OpStates, Answers
<1> QED
  BY <1>2, <1>3

\* What it does with one that has none.
LEMMA ExecutedUnkeyed ==
  ASSUME NEW c \in Calls, NEW st \in {"session", "work"}, NEW result \in Executed(c, 0, st)
  PROVE  /\ result.effect \in {0, 1} /\ result.answer \in Answers
         /\ st = "session" => result.effect = 0
         /\ result.answer = "ok" /\ st = "work" => result.effect = 1
BY DEF Executed, Answers

\* An execution, in time or late, is known to its own call alone.
LEMMA Execution ==
  ASSUME CallsAssumption, CallsInv, NEW c \in Calls, NEW st \in {"session", "work"},
         Keyed(c) => key[c] # 0 /\ st = "work",
         NEW result \in Executed(c, key[c], st), Remember(c, key[c], result)
  PROVE  /\ op' \in [1..MaxKeys -> OpStates] /\ effects' \in [Calls -> Nat]
         /\ result.answer \in Answers
         /\ \A k \in 1..MaxKeys : k # key[c] => op'[k] = op[k]
         /\ \A d \in Calls \ {c} : effects'[d] = effects[d]
         /\ \A d \in Calls \ {c} : key[d] # 0 => op'[key[d]] = op[key[d]]
         /\ Keyed(c) => /\ effects'[c] = IF op'[key[c]] = "none" THEN 0 ELSE 1
                        /\ op[key[c]] = "done" \/ result.answer = "ok" => op'[key[c]] = "done"
         /\ ~Keyed(c) => /\ effects'[c] = effects[c] + result.effect /\ result.effect \in {0, 1}
                         /\ st = "session" => result.effect = 0
                         /\ result.answer = "ok" /\ st = "work" => result.effect = 1
<1> USE DEF CallsInv, CallsTypes
<1>1. ASSUME NEW d \in Calls, key[d] # 0
      PROVE  key[d] \in 1..MaxKeys /\ (d # c => key[d] # key[c])
  BY <1>1, KeysFit DEF KeysKept, KeyKnown, KeyUnique, LateKey
<1>2. CASE Keyed(c)
  <2>1. key[c] \in 1..MaxKeys /\ key[c] # 0 /\ st = "work"
    BY <1>1, <1>2
  <2>2. /\ result.op \in OpStates /\ result.answer \in Answers
        /\ \/ result.effect = 0 /\ result.op = op[key[c]]
           \/ result.effect = 1 /\ op[key[c]] = "none" /\ result.op # "none"
        /\ result.answer = "ok" => result.op = "done"
    BY <2>1, ExecutedKeyed
  <2>3. op' = [op EXCEPT ![key[c]] = result.op] /\ effects' = [effects EXCEPT ![c] = effects[c] + result.effect]
    BY <2>1 DEF Remember
  <2>4. effects[c] = IF op[key[c]] = "none" THEN 0 ELSE 1
    BY <1>2, <2>1 DEF KeyedOnce
  <2> QED
    BY <1>1, <1>2, <2>1, <2>2, <2>3, <2>4
<1>3. CASE ~Keyed(c)
  <2>1. key[c] = 0
    BY <1>3 DEF KeysKept, KeyKnown, KeyUnique, LateKey
  <2>2. /\ result.effect \in {0, 1} /\ result.answer \in Answers
        /\ st = "session" => result.effect = 0
        /\ result.answer = "ok" /\ st = "work" => result.effect = 1
    BY <2>1, ExecutedUnkeyed
  <2>3. op' = op /\ effects' = [effects EXCEPT ![c] = effects[c] + result.effect]
    BY <2>1 DEF Remember
  <2> QED
    BY <1>1, <1>3, <2>1, <2>2, <2>3
<1> QED
  BY <1>2, <1>3

\* No call was made at first.
LEMMA CallsInitInv ==
  ASSUME CallsAssumption, CallsInit
  PROVE  CallsInv
<1>1. MaxKeys \in Nat
  BY FS_CardinalityType, SMT DEF CallsAssumption, MaxKeys
<1>2. CallsTypes
  BY <1>1 DEF CallsInit, CallsTypes, OpStates
<1>3. {c \in Calls : key[c] # 0} = {}
  BY DEF CallsInit
<1>4. KeysKept
  <2>1. KeyCount
    BY <1>3, FS_EmptySet DEF CallsInit, KeyCount
  <2>2. KeyKnown /\ KeyUnique /\ LateKey
    BY DEF CallsInit, KeyKnown, KeyUnique, LateKey, Keyed
  <2>3. KeyFresh
    BY <1>1 DEF CallsInit, KeyFresh
  <2> QED
    BY <2>1, <2>2, <2>3 DEF KeysKept
<1>5. Waits /\ KeyedOnce /\ SentOnce /\ AnswersReady
  BY DEF CallsInit, Waits, KeyedOnce, SentOnce, AnswersReady, LateWork
<1> QED
  BY <1>2, <1>4, <1>5 DEF CallsInv

-----------------------------------------------------------------------------
(* The steps. *)

\* An attempt that arrives keeps the invariant: a key is executed once.
LEMMA ExecuteInv ==
  ASSUME CallsAssumption, CallsInv, NEW c \in Calls, Execute(c)
  PROVE  CallsInv'
<1> USE DEF CallsInv, CallsTypes
<1>1. PICK result \in Executed(c, key[c], stage[c]) :
        /\ Remember(c, key[c], result)
        /\ \E a \in {result.answer, "body"} : flight' = [flight EXCEPT ![c] = a]
  BY DEF Execute
<1>2. PICK a \in {result.answer, "body"} : flight' = [flight EXCEPT ![c] = a]
  BY <1>1
<1>3. /\ stage[c] \in {"session", "work"} /\ flight[c] = "sent" /\ state[c] = "waiting" /\ UNCHANGED <<clientVars, late>>
      /\ Keyed(c) => key[c] # 0 /\ stage[c] = "work"
  BY DEF Execute, KeysKept, KeyKnown, KeyUnique, LateKey, Waits
<1>4. /\ op' \in [1..MaxKeys -> OpStates] /\ effects' \in [Calls -> Nat]
      /\ result.answer \in Answers
      /\ \A k \in 1..MaxKeys : k # key[c] => op'[k] = op[k]
      /\ \A d \in Calls \ {c} : effects'[d] = effects[d]
      /\ \A d \in Calls \ {c} : key[d] # 0 => op'[key[d]] = op[key[d]]
      /\ Keyed(c) => /\ effects'[c] = IF op'[key[c]] = "none" THEN 0 ELSE 1
                     /\ op[key[c]] = "done" \/ result.answer = "ok" => op'[key[c]] = "done"
      /\ ~Keyed(c) => /\ effects'[c] = effects[c] + result.effect /\ result.effect \in {0, 1}
                      /\ stage[c] = "session" => result.effect = 0
                      /\ result.answer = "ok" /\ stage[c] = "work" => result.effect = 1
  <2>1. PICK st \in {"session", "work"} : st = stage[c]
    BY <1>3
  <2>2. /\ result \in Executed(c, key[c], st) /\ Remember(c, key[c], result)
        /\ Keyed(c) => key[c] # 0 /\ st = "work"
    BY <1>1, <1>3, <2>1
  <2> HIDE DEF CallsInv, CallsTypes
  <2> QED
    BY <2>1, <2>2, Execution
<1>5. CallsTypes'
  BY <1>2, <1>3, <1>4 DEF clientVars
<1>6. KeysKept'
  <2>1. KeyCount' /\ KeyUnique' /\ LateKey' /\ KeyKnown'
    BY <1>3 DEF clientVars, KeysKept, KeyCount, KeyUnique, LateKey, KeyKnown, Keyed
  <2>2. KeyFresh'
    BY <1>3, <1>4, KeysFit DEF clientVars, KeysKept, KeyFresh, KeyKnown
  <2> QED
    BY <2>1, <2>2 DEF KeysKept
<1>7. Waits'
  BY <1>2, <1>3, <1>4 DEF clientVars, Waits, Retryable, Answers
<1>8. KeyedOnce'
  BY <1>2, <1>3, <1>4 DEF clientVars, KeyedOnce, Keyed
<1>9. SentOnce'
  BY <1>2, <1>3, <1>4 DEF clientVars, SentOnce, Keyed, LateWork, Answers
<1>10. AnswersReady'
  BY <1>2, <1>3, <1>4 DEF clientVars, AnswersReady, Ready, Keyed, KeysKept, KeyKnown, KeyUnique, LateKey, SentOnce, Answers
<1> QED
  BY <1>5, <1>6, <1>7, <1>8, <1>9, <1>10

\* So does one that was given up and arrives late.
LEMMA ExecuteLateInv ==
  ASSUME CallsAssumption, CallsInv, ExecuteLate
  PROVE  CallsInv'
<1> USE DEF CallsInv, CallsTypes
<1>1. PICK r \in late :
        /\ late' = late \ {r}
        /\ \E result \in Executed(r.call, r.key, r.stage) : Remember(r.call, r.key, result)
        /\ UNCHANGED <<clientVars, flight>>
  BY DEF ExecuteLate
<1> DEFINE c == r.call
<1>2. /\ c \in Calls /\ r.key = key[c] /\ r.stage \in {"session", "work"}
      /\ Keyed(c) => key[c] # 0 /\ r.stage = "work"
  BY DEF KeysKept, KeyKnown, KeyUnique, LateKey, Attempt
<1>3. PICK result \in Executed(c, key[c], r.stage) : Remember(c, key[c], result)
  BY <1>1, <1>2
<1>4. /\ op' \in [1..MaxKeys -> OpStates] /\ effects' \in [Calls -> Nat]
      /\ result.answer \in Answers
      /\ \A k \in 1..MaxKeys : k # key[c] => op'[k] = op[k]
      /\ \A d \in Calls \ {c} : effects'[d] = effects[d]
      /\ \A d \in Calls \ {c} : key[d] # 0 => op'[key[d]] = op[key[d]]
      /\ Keyed(c) => /\ effects'[c] = IF op'[key[c]] = "none" THEN 0 ELSE 1
                     /\ op[key[c]] = "done" \/ result.answer = "ok" => op'[key[c]] = "done"
      /\ ~Keyed(c) => /\ effects'[c] = effects[c] + result.effect /\ result.effect \in {0, 1}
                      /\ r.stage = "session" => result.effect = 0
                      /\ result.answer = "ok" /\ r.stage = "work" => result.effect = 1
  BY <1>2, <1>3, Execution
<1>5. CallsTypes'
  BY <1>1, <1>4 DEF clientVars
<1>6. KeysKept'
  <2>1. KeyCount' /\ KeyUnique' /\ LateKey' /\ KeyKnown'
    BY <1>1 DEF clientVars, KeysKept, KeyCount, KeyUnique, LateKey, KeyKnown, Keyed
  <2>2. KeyFresh'
    BY <1>1, <1>2, <1>4, KeysFit DEF clientVars, KeysKept, KeyFresh, KeyKnown
  <2> QED
    BY <2>1, <2>2 DEF KeysKept
<1>7. Waits'
  BY <1>1 DEF clientVars, Waits, Retryable
<1>8. KeyedOnce'
  BY <1>1, <1>2, <1>4, SMTT(20) DEF clientVars, KeyedOnce, Keyed
<1>9. SentOnce'
  <2> SUFFICES ASSUME NEW d \in Calls, ~Keyed(d)
               PROVE  /\ effects'[d] <= 1
                      /\ state[d] = "idle" \/ stage[d] = "session" \/ flight[d] = "sent" => effects'[d] = 0 /\ LateWork(d)' = {}
                      /\ LateWork(d)' # {} => effects'[d] = 0 /\ state[d] = "failed" /\ stage[d] = "work"
                      /\ \A q, s \in LateWork(d)' : q = s
    BY <1>1 DEF clientVars, SentOnce, Keyed
  <2>1. LateWork(d)' = LateWork(d) \ {r}
    BY <1>1 DEF LateWork
  <2>2. CASE d # c \/ r.stage = "session"
    <3>1. effects'[d] = effects[d]
      BY <1>2, <1>4, <2>2
    <3> QED
      BY <2>1, <3>1 DEF SentOnce
  <2>3. CASE d = c /\ r.stage = "work"
    <3>1. r \in LateWork(d)
      BY <2>3 DEF LateWork
    <3>2. LateWork(d)' = {} /\ effects[d] = 0 /\ state[d] = "failed" /\ stage[d] = "work"
      BY <2>1, <3>1 DEF SentOnce
    <3>3. effects'[d] \in {0, 1}
      BY <1>4, <2>3, <3>2
    <3>4. flight[d] # "sent"
      BY <3>2 DEF Waits
    <3> QED
      BY <3>2, <3>3, <3>4
  <2> QED
    BY <1>2, <2>2, <2>3
<1>10. AnswersReady'
  <2> SUFFICES ASSUME NEW d \in Calls, (flight[d] = "ok" /\ stage[d] = "work") \/ state[d] = "ok"
               PROVE  effects'[d] = 1 /\ (key[d] # 0 => op'[key[d]] = "done")
    BY <1>1 DEF clientVars, AnswersReady, Ready
  <2>1. Ready(d)
    BY DEF AnswersReady
  <2>2. CASE d # c
    BY <1>4, <2>1, <2>2 DEF Ready
  <2>3. CASE d = c /\ Keyed(c)
    BY <1>2, <1>4, <2>1, <2>3 DEF Ready
  <2>4. CASE d = c /\ ~Keyed(c)
    <3>1. r.stage = "session"
      <4>0. ~Keyed(d) /\ effects[d] = 1
        BY <2>1, <2>4 DEF Ready
      <4>1. LateWork(d) = {}
        BY <4>0 DEF SentOnce
      <4> QED
        BY <1>2, <2>4, <4>1 DEF LateWork
    <3> QED
      BY <1>4, <2>1, <2>4, <3>1 DEF Ready, KeysKept, KeyKnown, KeyUnique, LateKey
  <2> QED
    BY <2>2, <2>3, <2>4
<1> QED
  BY <1>5, <1>6, <1>7, <1>8, <1>9, <1>10

\* The other steps of a client leave the server alone.
LEMMA ForkEndsInv ==
  ASSUME CallsAssumption, CallsInv, ForkEnds
  PROVE  CallsInv'
<1> USE DEF CallsInv, CallsTypes
<1>1. PICK k \in 1..MaxKeys : op[k] = "running" /\ \E o \in {"done", "failed"} : op' = [op EXCEPT ![k] = o]
  BY DEF ForkEnds
<1>2. UNCHANGED <<clientVars, flight, late, effects>>
  BY DEF ForkEnds
<1>3. /\ op' \in [1..MaxKeys -> OpStates]
      /\ \A j \in 1..MaxKeys : (op'[j] = "none" <=> op[j] = "none") /\ (op[j] = "done" => op'[j] = "done")
  BY <1>1 DEF OpStates
<1>4. \A c \in Calls : key[c] # 0 => key[c] \in 1..MaxKeys
  BY KeysFit
<1>5. CallsTypes'
  BY <1>2, <1>3 DEF clientVars
<1>6. KeysKept'
  BY <1>2, <1>3 DEF clientVars, KeysKept, KeyCount, KeyUnique, LateKey, KeyKnown, KeyFresh, Keyed
<1>7. Waits' /\ SentOnce'
  BY <1>2 DEF clientVars, Waits, Retryable, SentOnce, LateWork, Keyed
<1>8. KeyedOnce' /\ AnswersReady'
  BY <1>2, <1>3, <1>4 DEF clientVars, KeyedOnce, AnswersReady, Ready, Keyed
<1> QED
  BY <1>5, <1>6, <1>7, <1>8

\* A call begins with a fresh key, or again with the one it was told.
LEMMA BeginInv ==
  ASSUME CallsAssumption, CallsInv, NEW c \in Calls, Begin(c)
  PROVE  CallsInv'
<1> USE DEF CallsInv, CallsTypes
<1>1. /\ state[c] = "idle" /\ flight[c] = "none" /\ known[c] = key[c]
      /\ state' = [state EXCEPT ![c] = "waiting"] /\ flight' = [flight EXCEPT ![c] = "sent"]
      /\ stage' = [stage EXCEPT ![c] = IF kind[c] = "transfer" THEN "session" ELSE "work"]
      /\ attempt' = [attempt EXCEPT ![c] = 0]
      /\ UNCHANGED <<kind, known, again, late, op, effects>>
  BY DEF Begin, Send, serverVars, Waits, KeysKept, KeyKnown
<1>2. CASE Keyed(c) /\ key[c] = 0
  <2>1. keys' = keys + 1 /\ key' = [key EXCEPT ![c] = keys + 1]
    BY <1>1, <1>2 DEF Begin, Keyed
  <2>2. CallsTypes'
    BY <1>1, <2>1
  <2>3. KeyCount'
    <3> DEFINE K == {d \in Calls : key[d] # 0}
    <3>1. {d \in Calls : key'[d] # 0} = K \cup {c} /\ c \notin K
      BY <1>2, <2>1
    <3>2. IsFiniteSet(K)
      BY FS_Subset, K \subseteq Calls DEF CallsAssumption
    <3>3. Cardinality(K \cup {c}) = Cardinality(K) + 1
      BY <3>1, <3>2, FS_AddElement
    <3> QED
      BY <2>1, <3>1, <3>3 DEF KeysKept, KeyCount
  <2>4. KeyKnown' /\ KeyUnique'
    <3>1. KeyKnown /\ KeyUnique /\ keys \in Nat /\ \A d \in Calls : key[d] \in Nat /\ key[d] <= keys
      BY DEF KeysKept, KeyKnown
    <3>2. /\ key'[c] = keys + 1 /\ known'[c] = 0 /\ state'[c] = "waiting" /\ Keyed(c)' /\ stage'[c] = "work"
          /\ \A d \in Calls \ {c} : /\ key'[d] = key[d] /\ known'[d] = known[d] /\ state'[d] = state[d]
                                    /\ stage'[d] = stage[d] /\ Keyed(d)' = Keyed(d)
      BY <1>1, <1>2, <2>1 DEF Keyed
    <3>3. KeyUnique'
      <4>1. \A d \in Calls \ {c} : key'[d] # key'[c]
        BY <3>1, <3>2
      <4>2. \A d, e \in Calls \ {c} : key'[d] = key'[e] /\ key'[d] # 0 => d = e
        BY <3>1, <3>2, SMTT(20) DEF KeyUnique
      <4> QED
        BY <4>1, <4>2 DEF KeyUnique
    <3>4. ASSUME NEW d \in Calls \ {c}
          PROVE  /\ key'[d] <= keys' /\ known'[d] \in {0, key'[d]}
                 /\ state'[d] = "idle" => known'[d] = key'[d]
                 /\ (state'[d] # "idle" /\ Keyed(d)') => key'[d] # 0
                 /\ ~Keyed(d)' => key'[d] = 0
                 /\ Keyed(d)' => stage'[d] = "work"
      BY <2>1, <3>1, <3>2 DEF KeyKnown
    <3> QED
      BY <2>1, <3>1, <3>2, <3>3, <3>4 DEF KeyKnown
  <2>5. \A r \in late : r.call \in Calls \ {c}
    BY <1>2 DEF KeysKept, LateKey, Attempt
  <2>6. LateKey'
    BY <1>1, <2>1, <2>5 DEF KeysKept, LateKey, Keyed
  <2>7. KeyFresh'
    BY <1>1, <2>1 DEF KeysKept, KeyFresh
  <2>8. keys + 1 \in 1..MaxKeys /\ op[keys + 1] = "none"
    <3>1. keys + 1 \in 1..MaxKeys
      <4>1. keys' <= MaxKeys /\ MaxKeys \in Nat
        BY <2>3, RoomForKeys, {d \in Calls : key'[d] # 0} \in SUBSET Calls DEF KeyCount
      <4> QED
        BY <2>1, <4>1
    <3> QED
      BY <3>1 DEF KeysKept, KeyFresh
  <2>9. KeyedOnce'
    BY <1>1, <1>2, <2>1, <2>8 DEF KeyedOnce, Keyed
  <2>10. SentOnce'
    BY <1>1, <1>2 DEF SentOnce, LateWork, Keyed
  <2>11. Waits'
    BY <1>1, <2>1 DEF Waits, Retryable
  <2>12. AnswersReady'
    BY <1>1, <2>1 DEF AnswersReady, Ready
  <2> QED
    BY <2>2, <2>3, <2>4, <2>6, <2>7, <2>9, <2>10, <2>11, <2>12 DEF KeysKept
<1>3. CASE ~(Keyed(c) /\ key[c] = 0)
  <2>1. keys' = keys /\ key' = key
    BY <1>1, <1>3 DEF Begin, Keyed, KeysKept, KeyKnown
  <2>2. CallsTypes'
    BY <1>1, <2>1
  <2>3. KeyCount' /\ KeyUnique' /\ LateKey' /\ KeyFresh'
    BY <1>1, <2>1 DEF KeysKept, KeyCount, KeyUnique, LateKey, KeyFresh, Keyed
  <2>4. KeyKnown'
    BY <1>1, <1>3, <2>1 DEF KeysKept, KeyKnown, Keyed
  <2>5. KeyedOnce'
    BY <1>1, <2>1 DEF KeyedOnce, Keyed
  <2>6. SentOnce'
    BY <1>1 DEF SentOnce, LateWork, Keyed
  <2>7. Waits'
    BY <1>1, <2>1 DEF Waits, Retryable
  <2>8. AnswersReady'
    BY <1>1, <2>1 DEF AnswersReady, Ready
  <2> QED
    BY <2>2, <2>3, <2>4, <2>5, <2>6, <2>7, <2>8 DEF KeysKept
<1> QED
  BY <1>2, <1>3

\* A failure ends the attempt, and the call unless it is retried.
LEMMA FailsInv ==
  ASSUME CallsAssumption, CallsInv, NEW c \in Calls, NEW transient \in BOOLEAN,
         state[c] = "waiting", flight[c] # "none", Fails(c, transient),
         \/ flight[c] # "sent" /\ late' = late
         \/ /\ flight[c] = "sent"
            /\ late' = late \cup {[call |-> c, key |-> key[c], stage |-> stage[c], nr |-> <<again[c], attempt[c]>>]}
  PROVE  CallsInv'
<1> USE DEF CallsInv, CallsTypes
<1> DEFINE r == [call |-> c, key |-> key[c], stage |-> stage[c], nr |-> <<again[c], attempt[c]>>]
<1>1. /\ \E s \in {"delay", "failed"} : /\ state' = [state EXCEPT ![c] = s]
                                        /\ s = "delay" => Retryable(c)
      /\ known' = known \/ known' = [known EXCEPT ![c] = key[c]]
      /\ flight' = [flight EXCEPT ![c] = "none"]
      /\ UNCHANGED <<kind, stage, attempt, key, again, keys, op, effects>>
  BY DEF Fails, serverVars
<1>2. PICK s \in {"delay", "failed"} : state' = [state EXCEPT ![c] = s] /\ (s = "delay" => Retryable(c))
  BY <1>1
<1>3. Keyed(c) => key[c] # 0 /\ stage[c] = "work"
  BY DEF KeysKept, KeyKnown
<1>4. r \in Attempt
  BY DEF Attempt
<1>5. CallsTypes'
  BY <1>1, <1>2, <1>4
<1>6. KeysKept'
  <2>1. KeyCount' /\ KeyUnique' /\ KeyFresh'
    BY <1>1 DEF KeysKept, KeyCount, KeyUnique, KeyFresh
  <2>2. KeyKnown'
    BY <1>1, <1>2, <1>3 DEF KeysKept, KeyKnown, Keyed
  <2>3. LateKey'
    BY <1>1, <1>3 DEF KeysKept, LateKey, Keyed
  <2> QED
    BY <2>1, <2>2, <2>3 DEF KeysKept
<1>7. Waits'
  BY <1>1, <1>2 DEF Waits, Retryable
<1>8. KeyedOnce'
  BY <1>1 DEF KeyedOnce, Keyed
<1>9. AnswersReady'
  BY <1>1, <1>2 DEF AnswersReady, Ready
<1>10. SentOnce'
  <2> SUFFICES ASSUME NEW d \in Calls, ~Keyed(d)
               PROVE  /\ effects[d] <= 1
                      /\ state'[d] = "idle" \/ stage[d] = "session" \/ flight'[d] = "sent" => effects[d] = 0 /\ LateWork(d)' = {}
                      /\ LateWork(d)' # {} => effects[d] = 0 /\ state'[d] = "failed" /\ stage[d] = "work"
                      /\ \A q, u \in LateWork(d)' : q = u
    BY <1>1 DEF SentOnce, Keyed
  <2>1. CASE d # c
    <3>1. LateWork(d)' = LateWork(d)
      BY <2>1 DEF LateWork
    <3> QED
      BY <3>1, <2>1, <1>1, <1>2 DEF SentOnce
  <2>2. CASE d = c /\ LateWork(c)' = LateWork(c)
    <3>1. LateWork(c) = {}
      BY <2>2 DEF SentOnce
    <3>2. state'[c] # "idle" /\ flight'[c] # "sent"
      BY <1>1, <1>2
    <3> QED
      BY <2>2, <3>1, <3>2 DEF SentOnce
  <2>3. CASE d = c /\ LateWork(c)' # LateWork(c)
    <3>1. flight[c] = "sent" /\ stage[c] = "work" /\ LateWork(c)' = LateWork(c) \cup {r}
      BY <2>3 DEF LateWork
    <3>2. LateWork(c) = {} /\ effects[c] = 0
      BY <2>3, <3>1 DEF SentOnce
    <3>3. state'[c] = "failed"
      BY <1>2, <2>3, <3>1 DEF Retryable, KeysKept, KeyKnown
    <3>4. flight'[c] # "sent"
      BY <1>1
    <3> QED
      BY <2>3, <3>1, <3>2, <3>3, <3>4
  <2> QED
    BY <2>1, <2>2, <2>3
<1> QED
  BY <1>5, <1>6, <1>7, <1>8, <1>9, <1>10

\* Going on with a call: the next attempt, the transfer after its session, a result.
LEMMA GoesOnInv ==
  ASSUME CallsAssumption, CallsInv, NEW c \in Calls,
         Retry(c) \/ Succeeds(c) \/ SessionOpened(c) \/ pendingFork(c) \/ mismatchedFork(c)
         \/ CallAgain(c)
  PROVE  CallsInv'
<1> USE DEF CallsInv, CallsTypes
<1>1. /\ UNCHANGED <<kind, key, late, keys, op, effects>>
      /\ known' = known \/ known' = [known EXCEPT ![c] = key[c]]
      /\ \A d \in Calls \ {c} : /\ state'[d] = state[d] /\ stage'[d] = stage[d] /\ flight'[d] = flight[d]
                                /\ known'[d] = known[d]
  BY DEF Retry, Succeeds, SessionOpened, pendingFork, mismatchedFork, CallAgain, Send, serverVars
<1>2. CallsTypes'
  <2>1. /\ \E x \in {"idle", "waiting", "ok", "pending", "failed"} : state' = [state EXCEPT ![c] = x]
        /\ flight' = flight \/ \E x \in {"none", "sent"} : flight' = [flight EXCEPT ![c] = x]
        /\ stage' = stage \/ stage' = [stage EXCEPT ![c] = "work"]
    BY DEF Retry, Succeeds, SessionOpened, pendingFork, mismatchedFork, CallAgain, Send
  <2>2. /\ \E n \in Nat : attempt' = attempt \/ attempt' = [attempt EXCEPT ![c] = n]
        /\ \E n \in Nat : again' = again \/ again' = [again EXCEPT ![c] = n]
    <3>1. attempt[c] + 1 \in Nat /\ again[c] + 1 \in Nat
      OBVIOUS
    <3> QED
      BY <3>1 DEF Retry, Succeeds, SessionOpened, pendingFork, mismatchedFork, CallAgain
  <2>3. attempt' \in [Calls -> Nat] /\ again' \in [Calls -> Nat]
    <3>1. attempt' \in [Calls -> Nat]
      BY <2>2
    <3>2. again' \in [Calls -> Nat]
      BY <2>2
    <3> QED
      BY <3>1, <3>2
  <2>4. known' \in [Calls -> Nat]
    BY <1>1
  <2>5. /\ state' \in [Calls -> {"idle", "waiting", "delay", "ok", "pending", "failed"}]
        /\ stage' \in [Calls -> {"session", "work"}]
        /\ flight' \in [Calls -> {"none", "sent", "body"} \cup Answers]
    BY <2>1
  <2> QED
    BY <1>1, <2>3, <2>4, <2>5
<1>3. KeyCount' /\ KeyUnique' /\ KeyFresh' /\ LateKey'
  BY <1>1 DEF KeysKept, KeyCount, KeyUnique, KeyFresh, LateKey, Keyed
<1>4. KeyKnown'
  BY <1>1 DEF KeysKept, KeyKnown, Keyed, Retry, Succeeds, SessionOpened, pendingFork, mismatchedFork, CallAgain, Send
<1>5. Waits'
  BY <1>1 DEF Waits, Retryable, Retry, Succeeds, SessionOpened, pendingFork, mismatchedFork, CallAgain, Send
<1>6. KeyedOnce'
  BY <1>1 DEF KeyedOnce, Keyed
<1>7. AnswersReady'
  BY <1>1 DEF AnswersReady, Ready, Retry, Succeeds, SessionOpened, pendingFork, mismatchedFork, CallAgain, Send
<1>8. SentOnce'
  BY <1>1 DEF SentOnce, LateWork, Keyed, KeysKept, KeyKnown, Waits, Retryable,
              Retry, Succeeds, SessionOpened, pendingFork, mismatchedFork, CallAgain, Send
<1> QED
  BY <1>2, <1>3, <1>4, <1>5, <1>6, <1>7, <1>8 DEF KeysKept

\* Every step keeps the invariant.
LEMMA CallsStepInv ==
  ASSUME CallsAssumption, CallsInv, [CallsNext]_callsVars
  PROVE  CallsInv'
<1>1. ASSUME NEW c \in Calls, TimesOut(c) PROVE CallsInv'
  BY <1>1, FailsInv DEF TimesOut
<1>2. ASSUME NEW c \in Calls, Refused(c) PROVE CallsInv'
  <2>1. PICK transient \in BOOLEAN : transient = (flight[c] = "transient")
    OBVIOUS
  <2> QED
    BY <1>2, <2>1, FailsInv DEF Refused
<1>3. CASE UNCHANGED callsVars
  BY <1>3 DEF callsVars, CallsInv, CallsTypes, KeysKept, KeyCount, KeyKnown, KeyUnique, LateKey, KeyFresh,
              Keyed, Waits, Retryable, KeyedOnce, SentOnce, LateWork, AnswersReady, Ready
<1> QED
  BY <1>1, <1>2, <1>3, BeginInv, ExecuteInv, GoesOnInv, ExecuteLateInv, ForkEndsInv DEF CallsNext, ClientStep

\* A call of the SDK has its effect at most once and returns only what is ready, for any
\* number of calls, attempts and late deliveries (packages/sdk/src/index.ts).
THEOREM CallsHaveOneEffect ==
  ASSUME CallsAssumption
  PROVE  CallsSpec => []OneEffect
<1>1. CallsInit => CallsInv
  BY CallsInitInv
<1>2. CallsInv /\ [CallsNext]_callsVars => CallsInv'
  BY CallsStepInv
<1>3. CallsInv => OneEffect
  <2> SUFFICES ASSUME CallsInv PROVE OneEffect
    OBVIOUS
  <2>1. ASSUME NEW c \in Calls PROVE effects[c] <= 1
    <3>1. CASE Keyed(c)
      <4>1. effects[c] \in {0, 1}
        BY <3>1 DEF CallsInv, KeyedOnce
      <4> QED
        BY <4>1
    <3>2. CASE ~Keyed(c)
      BY <3>2 DEF CallsInv, SentOnce
    <3> QED
      BY <3>1, <3>2
  <2>2. ReturnedIsReady
    BY DEF CallsInv, ReturnedIsReady, AnswersReady, Ready
  <2> QED
    BY <2>1, <2>2 DEF OneEffect, EffectOnce
<1> QED
  BY <1>1, <1>2, <1>3, PTL DEF CallsSpec
=============================================================================
