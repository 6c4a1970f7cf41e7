---------------------------- MODULE ExtendProofs ----------------------------
(***************************************************************************)
(* What a customer is told about a machine's life time, its host keeps,    *)
(* for any number of machines, keys and requests, whatever calls are lost  *)
(* or late.                                                                *)
(***************************************************************************)
EXTENDS Extend, TLAPS, WellFoundedInduction

RowRecord ==
  [state : RowStates, expires : Nat, placed : Nat, started : Nat, stopped : Nat, final : BOOLEAN]
OpRecord == [hash : Nat, target : Nat, result : Nat]
VmRecord == [boot : Nat, end : Nat, expires : Nat, keys : [Keys -> Nat], fired : BOOLEAN]
WorkerRecord ==
  [pc : {"idle", "find", "call", "view", "complete"}, m : Vms \cup {0}, key : Keys \cup {0},
   target : Nat, seen : Nat]
CallRecord == [m : Vms, key : Keys, target : Nat]

Types ==
  /\ now \in Nat \ {0}
  /\ row \in [Vms -> RowRecord]
  /\ extendOp \in [Vms -> [Keys -> OpRecord]]
  /\ vm \in [Vms -> VmRecord]
  /\ through \in [Vms -> Nat]
  /\ worker \in [Handlers -> WorkerRecord]
  /\ late \subseteq CallRecord
  /\ answered \subseteq Vms \X Keys \X Nat

\* No row and no target lies beyond some moment: CommittedUntil has a value.
Bounded ==
  \E b \in Nat : \A m \in Vms :
    row[m].expires <= b /\ \A k \in Keys : extendOp[m][k].target <= b

\* The host counts from a boot that came no earlier than the request, and takes
\* only extensions in its hand, so it is never behind the row.
RowBacked ==
  \A m \in Vms :
    /\ row[m].state = "none" => vm[m].boot = 0
    /\ vm[m].boot = 0 => row[m].expires <= now + Ttl
    /\ vm[m].boot # 0 => row[m].expires <= vm[m].expires /\ vm[m].expires # 0

\* A recorded result is an expiry that the host had.
ResultBacked ==
  \A m \in Vms, k \in Keys : extendOp[m][k].result # 0 =>
    vm[m].boot # 0 /\ extendOp[m][k].result <= vm[m].expires

\* Whoever serves or carries an operation has the target of its row.
Carries(m, k, target) ==
  m \in Vms /\ k \in Keys /\ extendOp[m][k].hash # 0 /\ extendOp[m][k].target = target
ServesRow ==
  /\ \A w \in Handlers : worker[w].pc # "idle" => Carries(worker[w].m, worker[w].key, worker[w].target)
  /\ \A c \in late : Carries(c.m, c.key, c.target)

\* What a worker saw on the host is still true when it records it.
SeenBacked ==
  \A w \in Handlers : worker[w].pc = "complete" =>
    /\ worker[w].seen # 0 /\ vm[worker[w].m].boot # 0
    /\ worker[w].seen <= vm[worker[w].m].expires

\* An answer is the result in its row.
AnsweredRecorded ==
  \A m \in Vms, k \in Keys, r \in Nat : <<m, k, r>> \in answered => r # 0 /\ extendOp[m][k].result = r

ExtendInv ==
  /\ Types /\ Bounded /\ RowBacked /\ ResultBacked /\ ServesRow /\ SeenBacked
  /\ AnsweredRecorded /\ HostWithinTargets

-----------------------------------------------------------------------------
(* Maxima. *)

\* A bounded set of natural numbers has a maximum.
LEMMA MaxExists ==
  ASSUME NEW S \in SUBSET Nat, S # {}, NEW b \in Nat, \A x \in S : x <= b
  PROVE  Max(S) \in S /\ \A y \in S : Max(S) >= y
<1> DEFINE T == {b - x : x \in S}
<1>1. T \subseteq Nat /\ T # {}
  <2>1. T \subseteq Nat
    OBVIOUS
  <2>2. PICK x \in S : TRUE
    OBVIOUS
  <2>3. b - x \in T
    BY <2>2
  <2> QED
    BY <2>1, <2>3
<1>2. PICK t \in T : \A u \in T : ~(<<u, t>> \in OpToRel(<, Nat))
  BY <1>1, NatLessThanWellFounded, WFMin
<1>3. \A u \in T : ~(u < t)
  BY <1>1, <1>2 DEF OpToRel
<1>4. PICK x \in S : t = b - x
  OBVIOUS
<1>5. \A y \in S : x >= y
  <2> SUFFICES ASSUME NEW y \in S PROVE x >= y
    OBVIOUS
  <2>1. b - y \in T
    OBVIOUS
  <2> QED
    BY <1>3, <1>4, <2>1
<1> QED
  BY <1>5 DEF Max

\* Of two numbers.
LEMMA MaxOfTwo ==
  ASSUME NEW a \in Nat, NEW b \in Nat
  PROVE  /\ Max({a, b}) \in Nat /\ Max({a, b}) \in {a, b}
         /\ Max({a, b}) >= a /\ Max({a, b}) >= b
<1> DEFINE S == {a, b}
<1>1. S \in SUBSET Nat /\ S # {} /\ a + b \in Nat /\ \A x \in S : x <= a + b
  OBVIOUS
<1>2. Max(S) \in S /\ \A y \in S : Max(S) >= y
  BY <1>1, MaxExists
<1> QED
  BY <1>2

\* CommittedUntil is a moment.
LEMMA CommittedIsNat ==
  ASSUME Types, Bounded, NEW m \in Vms
  PROVE  CommittedUntil(m) \in Nat
<1> DEFINE S == {row[m].expires} \cup Targets(m)
<1>1. PICK b \in Nat : row[m].expires <= b /\ \A k \in Keys : extendOp[m][k].target <= b
  BY DEF Bounded
<1>2. \A k \in Keys : extendOp[m][k].target \in Nat
  BY DEF Types, OpRecord
<1>3. row[m].expires \in Nat
  BY DEF Types, RowRecord
<1>4. S \in SUBSET Nat /\ S # {} /\ \A x \in S : x <= b
  BY <1>1, <1>2, <1>3 DEF Targets
<1>5. Max(S) \in S
  BY <1>4, MaxExists
<1> QED
  BY <1>4, <1>5 DEF CommittedUntil

-----------------------------------------------------------------------------
(* The invariant holds at first. *)

LEMMA InvInit == ExtendAssumption /\ ExtendInit => ExtendInv
<1> SUFFICES ASSUME ExtendAssumption, ExtendInit PROVE ExtendInv
  OBVIOUS
<1> USE DEF ExtendInit
<1>1. Types
  BY DEF Types, RowRecord, OpRecord, VmRecord, WorkerRecord, CallRecord, RowStates, NoOp, NoRequest
<1>2. Bounded
  <2>1. \A m \in Vms : row[m].expires <= 1 /\ \A k \in Keys : extendOp[m][k].target <= 1
    BY DEF NoOp
  <2> QED
    BY <2>1 DEF Bounded
<1>3. RowBacked
  BY DEF RowBacked, ExtendAssumption
<1>4. ResultBacked /\ ServesRow /\ SeenBacked /\ AnsweredRecorded /\ HostWithinTargets
  BY DEF ResultBacked, ServesRow, SeenBacked, AnsweredRecorded, HostWithinTargets, NoOp, NoRequest
<1> QED
  BY <1>1, <1>2, <1>3, <1>4 DEF ExtendInv

-----------------------------------------------------------------------------
(* Kinds of steps. *)

\* What happens to a row without moving its expiry.
LEMMA RowStep ==
  ASSUME ExtendInv, row' \in [Vms -> RowRecord], through' \in [Vms -> Nat],
         \A m \in Vms : row'[m].expires = row[m].expires
                             /\ (row'[m].state = "none" => row[m].state = "none"),
         UNCHANGED <<now, extendOp, vm, worker, late, answered>>
  PROVE  ExtendInv'
<1> USE DEF ExtendInv
<1>1. Types'
  BY DEF Types
<1>2. Bounded'
  BY DEF Bounded
<1>3. RowBacked'
  BY DEF RowBacked
<1>4. (ResultBacked /\ ServesRow /\ SeenBacked /\ AnsweredRecorded /\ HostWithinTargets)'
  BY DEF ResultBacked, ServesRow, Carries, SeenBacked, AnsweredRecorded, HostWithinTargets, Targets
<1> QED
  BY <1>1, <1>2, <1>3, <1>4

\* What a request, a late call or the host does while the rows stay: an expiry
\* on a host only grows, and only to the target of a row.
LEMMA HostStep ==
  ASSUME ExtendInv, UNCHANGED <<now, row, extendOp, through, answered>>,
         vm' \in [Vms -> VmRecord],
         \A m \in Vms :
           /\ vm'[m].boot = vm[m].boot /\ vm'[m].expires >= vm[m].expires
           /\ vm'[m].expires \in {vm[m].expires} \cup Targets(m),
         worker' \in [Handlers -> WorkerRecord],
         \A w \in Handlers :
           \/ worker'[w] = worker[w]
           \/ worker'[w].pc = "idle"
           \/ /\ Carries(worker'[w].m, worker'[w].key, worker'[w].target)
              /\ worker'[w].pc = "complete" =>
                   /\ worker'[w].seen # 0 /\ vm[worker'[w].m].boot # 0
                   /\ worker'[w].seen <= vm[worker'[w].m].expires,
         \A c \in late' : c \in CallRecord /\ Carries(c.m, c.key, c.target)
  PROVE  ExtendInv'
<1> USE DEF ExtendInv
<1>0. \A m \in Vms : vm[m].boot \in Nat /\ vm[m].expires \in Nat /\ vm'[m].expires \in Nat
                         /\ row[m].expires \in Nat
  BY DEF Types, VmRecord, RowRecord
<1>1. Types'
  BY DEF Types
<1>2. Bounded'
  BY DEF Bounded
<1>3. RowBacked'
  BY <1>0 DEF RowBacked
<1>4. ResultBacked'
  <2>1. \A m \in Vms, k \in Keys : extendOp[m][k].result \in Nat
    BY DEF Types, OpRecord
  <2> QED
    BY <1>0, <2>1 DEF ResultBacked
<1>5. ServesRow'
  BY DEF ServesRow, Carries
<1>6. SeenBacked'
  <2> SUFFICES ASSUME NEW w \in Handlers, worker'[w].pc = "complete"
               PROVE  /\ worker'[w].seen # 0 /\ vm'[worker'[w].m].boot # 0
                      /\ worker'[w].seen <= vm'[worker'[w].m].expires
    BY DEF SeenBacked
  <2>1. worker'[w].m \in Vms
    BY <1>5 DEF ServesRow, Carries
  <2>2. worker'[w].seen \in Nat
    BY DEF WorkerRecord
  <2>3. /\ worker'[w].seen # 0 /\ vm[worker'[w].m].boot # 0
        /\ worker'[w].seen <= vm[worker'[w].m].expires
    BY DEF SeenBacked
  <2> QED
    BY <1>0, <2>1, <2>2, <2>3
<1>7. AnsweredRecorded'
  BY DEF AnsweredRecorded
<1>8. HostWithinTargets'
  BY DEF HostWithinTargets, Targets
<1> QED
  BY <1>1, <1>2, <1>3, <1>4, <1>5, <1>6, <1>7, <1>8

\* A host that takes an extension moves its expiry to the row's target or not at all.
LEMMA ExtendedGrows ==
  ASSUME ExtendInv, NEW m \in Vms, NEW k \in Keys, NEW target \in Nat, Carries(m, k, target)
  PROVE  /\ ExtendedVm(m, k, target) \in VmRecord
         /\ ExtendedVm(m, k, target).boot = vm[m].boot
         /\ ExtendedVm(m, k, target).expires >= vm[m].expires
         /\ ExtendedVm(m, k, target).expires \in {vm[m].expires} \cup Targets(m)
<1>1. vm[m] \in VmRecord
  BY DEF ExtendInv, Types
<1>2. target \in Targets(m)
  BY DEF Carries, Targets
<1>3. vm[m].expires \in Nat
  BY <1>1 DEF VmRecord
<1>4. /\ Max({vm[m].expires, target}) \in Nat /\ Max({vm[m].expires, target}) >= vm[m].expires
      /\ Max({vm[m].expires, target}) \in {vm[m].expires, target}
  BY <1>3, MaxOfTwo
<1>5. CASE vm[m].keys[k] # 0
  BY <1>1, <1>3, <1>5 DEF ExtendedVm
<1>6. CASE vm[m].keys[k] = 0
  <2> DEFINE e == [vm[m] EXCEPT !.keys[k] = target, !.expires = Max({@, target})]
  <2>1. e \in VmRecord /\ e.boot = vm[m].boot /\ e.expires = Max({vm[m].expires, target})
    BY <1>1, <1>4 DEF VmRecord
  <2> QED
    BY <1>2, <1>4, <1>6, <2>1 DEF ExtendedVm
<1> QED
  BY <1>5, <1>6

-----------------------------------------------------------------------------
(* The steps. *)

\* Steps on a row that leave its expiry alone.
LEMMA RowSteps ==
  ASSUME ExtendInv, NEW m \in Vms,
         ObserveBoot(m) \/ Meter(m) \/ Delete(m) \/ MarkStopped(m) \/ ReconcileGone(m) \/ ReaperDestroys(m)
  PROVE  ExtendInv'
<1>1. /\ row \in [Vms -> RowRecord] /\ through \in [Vms -> Nat]
      /\ vm[m].boot \in Nat /\ vm[m].end \in Nat /\ now \in Nat
  BY DEF ExtendInv, Types, VmRecord
<1>2. row[m] \in RowRecord /\ through[m] \in Nat
  BY <1>1
<1>3. CASE ObserveBoot(m)
  BY <1>1, <1>2, <1>3, RowStep DEF ObserveBoot, RowRecord, RowStates
<1>4. CASE Meter(m)
  BY <1>1, <1>2, <1>4, RowStep DEF Meter, RowRecord
<1>5. CASE Delete(m)
  BY <1>1, <1>2, <1>5, RowStep DEF Delete, Stops, RowRecord, RowStates
<1>6. CASE MarkStopped(m)
  BY <1>1, <1>2, <1>6, RowStep DEF MarkStopped, RowRecord, RowStates
<1>7. CASE ReconcileGone(m)
  BY <1>1, <1>2, <1>7, RowStep DEF ReconcileGone, RowRecord, RowStates
<1>8. CASE ReaperDestroys(m)
  BY <1>1, <1>2, <1>8, RowStep DEF ReaperDestroys, Stops, RowRecord, RowStates
<1> QED
  BY <1>3, <1>4, <1>5, <1>6, <1>7, <1>8

\* The host's own steps.
LEMMA HostSteps ==
  ASSUME ExtendInv, NEW m \in Vms, HostDestroy(m) \/ TimerFires(m) \/ Reap(m)
  PROVE  ExtendInv'
<1>1. /\ vm \in [Vms -> VmRecord] /\ now \in Nat /\ worker \in [Handlers -> WorkerRecord]
      /\ late \subseteq CallRecord /\ \A c \in late : Carries(c.m, c.key, c.target)
  BY DEF ExtendInv, Types, ServesRow
<1>2. UNCHANGED <<now, row, extendOp, through, worker, late, answered>>
  BY DEF HostDestroy, TimerFires, Reap
<1>3. /\ vm' \in [Vms -> VmRecord]
      /\ \A n \in Vms : vm'[n].boot = vm[n].boot /\ vm'[n].expires = vm[n].expires
  <2>1. CASE vm' = [vm EXCEPT ![m].end = now]
    BY <1>1, <2>1 DEF VmRecord
  <2>2. CASE vm' = [vm EXCEPT ![m].fired = TRUE]
    BY <1>1, <2>2 DEF VmRecord
  <2> QED
    BY <2>1, <2>2 DEF HostDestroy, TimerFires, Reap
<1>4. \A n \in Vms : vm[n].expires \in Nat
  BY <1>1 DEF VmRecord
<1> QED
  BY <1>1, <1>2, <1>3, <1>4, HostStep

\* Steps of a request that leave host and rows alone.
LEMMA RequestSteps ==
  ASSUME ExtendInv, NEW w \in Handlers,
         \/ \E m \in Vms, k \in Keys, ttl \in Extensions : RetryExtend(w, m, k, ttl)
         \/ FindExtend(w) \/ ViewExtend(w) \/ CallRefused(w) \/ CallLost(w) \/ HandlerDies(w),
         ExtendAssumption
  PROVE  ExtendInv'
<1>1. /\ vm \in [Vms -> VmRecord] /\ worker \in [Handlers -> WorkerRecord]
      /\ late \subseteq CallRecord /\ \A c \in late : Carries(c.m, c.key, c.target)
  BY DEF ExtendInv, Types, ServesRow
<1>2. \A n \in Vms : vm[n].expires \in Nat
  BY <1>1 DEF VmRecord
<1>3. worker[w] \in WorkerRecord /\ NoRequest \in WorkerRecord /\ NoRequest.pc = "idle"
  BY <1>1 DEF NoRequest, WorkerRecord
<1>4. worker[w].pc # "idle" => Carries(worker[w].m, worker[w].key, worker[w].target)
  BY DEF ExtendInv, ServesRow
<1>5. UNCHANGED <<now, row, extendOp, vm, through, answered>>
  BY DEF RetryExtend, FindExtend, ViewExtend, CallRefused, CallLost, HandlerDies
<1>6. SUFFICES /\ \E x \in WorkerRecord :
                    /\ worker' = [worker EXCEPT ![w] = x]
                    /\ \/ x.pc = "idle"
                       \/ /\ Carries(x.m, x.key, x.target)
                          /\ x.pc = "complete" =>
                               x.seen # 0 /\ vm[x.m].boot # 0 /\ x.seen <= vm[x.m].expires
               /\ \A c \in late' : c \in CallRecord /\ Carries(c.m, c.key, c.target)
  BY <1>1, <1>2, <1>5, <1>6, HostStep
<1>7. CASE \E m \in Vms, k \in Keys, ttl \in Extensions : RetryExtend(w, m, k, ttl)
  <2>1. PICK m \in Vms, k \in Keys, ttl \in Extensions : RetryExtend(w, m, k, ttl)
    BY <1>7
  <2> DEFINE x == [pc |-> "find", m |-> m, key |-> k, target |-> extendOp[m][k].target, seen |-> 0]
  <2>2. extendOp[m][k].target \in Nat
    BY DEF ExtendInv, Types, OpRecord
  <2>3. x \in WorkerRecord /\ Carries(x.m, x.key, x.target)
    BY <2>1, <2>2 DEF WorkerRecord, RetryExtend, Carries, ExtendAssumption
  <2> QED
    BY <1>1, <2>1, <2>3 DEF RetryExtend, Serves
<1>8. CASE FindExtend(w)
  <2> DEFINE x == IF row[worker[w].m].state = "running" THEN [worker[w] EXCEPT !.pc = "call"] ELSE NoRequest
  <2>1. worker' = [worker EXCEPT ![w] = x] /\ late' = late
    BY <1>8 DEF FindExtend
  <2>2. x \in WorkerRecord /\ (x.pc = "idle" \/ (x.pc = "call" /\ Carries(x.m, x.key, x.target)))
    BY <1>3, <1>4, <1>8 DEF FindExtend, WorkerRecord
  <2> QED
    BY <1>1, <2>1, <2>2
<1>9. CASE ViewExtend(w)
  <2> DEFINE m == worker[w].m
             x == IF Up(m) /\ vm[m].expires >= worker[w].target
                  THEN [worker[w] EXCEPT !.pc = "complete", !.seen = vm[m].expires] ELSE NoRequest
  <2>1. worker' = [worker EXCEPT ![w] = x] /\ late' = late /\ m \in Vms
    BY <1>4, <1>9 DEF ViewExtend, Carries
  <2>2. CASE Up(m) /\ vm[m].expires >= worker[w].target
    <3>1. vm[m].boot # 0 /\ vm[m].expires # 0 /\ vm[m].expires \in Nat
      BY <1>2, <2>1, <2>2 DEF Up, ExtendInv, RowBacked
    <3>2. /\ x \in WorkerRecord /\ x.m = m /\ x.key = worker[w].key /\ x.target = worker[w].target
          /\ x.seen = vm[m].expires
      BY <1>3, <2>2, <3>1 DEF WorkerRecord
    <3>3. Carries(x.m, x.key, x.target)
      BY <1>4, <1>9, <3>2 DEF ViewExtend
    <3>4. x.seen # 0 /\ vm[x.m].boot # 0 /\ x.seen <= vm[x.m].expires
      BY <3>1, <3>2
    <3> QED
      BY <1>1, <2>1, <3>2, <3>3, <3>4
  <2>3. CASE ~(Up(m) /\ vm[m].expires >= worker[w].target)
    <3>1. x = NoRequest
      BY <2>3
    <3> QED
      BY <1>1, <1>3, <2>1, <3>1
  <2> QED
    BY <2>2, <2>3
<1>10. CASE CallRefused(w) \/ HandlerDies(w)
  BY <1>1, <1>3, <1>10 DEF CallRefused, HandlerDies
<1>11. CASE CallLost(w)
  <2> DEFINE c == [m |-> worker[w].m, key |-> worker[w].key, target |-> worker[w].target]
  <2>1. Carries(worker[w].m, worker[w].key, worker[w].target)
    BY <1>4, <1>11 DEF CallLost
  <2>2. c \in CallRecord /\ Carries(c.m, c.key, c.target)
    BY <1>3, <2>1 DEF CallRecord, Carries, WorkerRecord
  <2> HIDE DEF c
  <2>3. late' = late \cup {c} /\ worker' = [worker EXCEPT ![w] = NoRequest]
    BY <1>11 DEF CallLost, c
  <2> QED
    BY <1>1, <1>3, <2>2, <2>3
<1> QED
  BY <1>7, <1>8, <1>9, <1>10, <1>11

\* The host takes an extension, in time or late.
LEMMA CallSteps ==
  ASSUME ExtendInv
  PROVE  /\ \A w \in Handlers : CallExtend(w) => ExtendInv'
         /\ \A c \in late : LateExtend(c) => ExtendInv'
<1>1. /\ vm \in [Vms -> VmRecord] /\ worker \in [Handlers -> WorkerRecord]
      /\ late \subseteq CallRecord /\ \A c \in late : Carries(c.m, c.key, c.target)
  BY DEF ExtendInv, Types, ServesRow
<1>2. \A n \in Vms : vm[n].expires \in Nat
  BY <1>1 DEF VmRecord
<1>3. ASSUME NEW m \in Vms, NEW k \in Keys, NEW target \in Nat, Carries(m, k, target),
             vm' = [vm EXCEPT ![m] = ExtendedVm(m, k, target)]
      PROVE  /\ vm' \in [Vms -> VmRecord]
             /\ \A n \in Vms :
                  /\ vm'[n].boot = vm[n].boot /\ vm'[n].expires >= vm[n].expires
                  /\ vm'[n].expires \in {vm[n].expires} \cup Targets(n)
  BY <1>1, <1>2, <1>3, ExtendedGrows
<1>4. ASSUME NEW w \in Handlers, CallExtend(w) PROVE ExtendInv'
  <2> DEFINE x == worker[w]
  <2>1. x \in WorkerRecord /\ Carries(x.m, x.key, x.target)
    BY <1>1, <1>4 DEF ExtendInv, ServesRow, CallExtend
  <2>2. x.m \in Vms /\ x.key \in Keys /\ x.target \in Nat
    BY <2>1 DEF Carries, WorkerRecord
  <2>3. /\ vm' = [vm EXCEPT ![x.m] = ExtendedVm(x.m, x.key, x.target)]
        /\ worker' = [worker EXCEPT ![w].pc = "view"]
        /\ UNCHANGED <<now, row, extendOp, through, late, answered>>
    BY <1>4 DEF CallExtend
  <2>4. /\ vm' \in [Vms -> VmRecord]
        /\ \A n \in Vms :
             /\ vm'[n].boot = vm[n].boot /\ vm'[n].expires >= vm[n].expires
             /\ vm'[n].expires \in {vm[n].expires} \cup Targets(n)
    BY <1>3, <2>1, <2>2, <2>3
  <2>5. /\ worker' \in [Handlers -> WorkerRecord]
        /\ \A v \in Handlers : worker'[v] = worker[v]
                 \/ (worker'[v].pc = "view" /\ Carries(worker'[v].m, worker'[v].key, worker'[v].target))
    BY <1>1, <2>1, <2>3 DEF WorkerRecord
  <2> QED
    BY <1>1, <2>3, <2>4, <2>5, HostStep
<1>5. ASSUME NEW c \in late, LateExtend(c) PROVE ExtendInv'
  <2>1. c.m \in Vms /\ c.key \in Keys /\ c.target \in Nat /\ Carries(c.m, c.key, c.target)
    BY <1>1 DEF CallRecord
  <2>2. /\ vm' = [vm EXCEPT ![c.m] = ExtendedVm(c.m, c.key, c.target)] \/ vm' = vm
        /\ UNCHANGED <<now, row, extendOp, through, worker, answered>> /\ late' \subseteq late
    BY <1>5 DEF LateExtend
  <2>3. /\ vm' \in [Vms -> VmRecord]
        /\ \A n \in Vms :
             /\ vm'[n].boot = vm[n].boot /\ vm'[n].expires >= vm[n].expires
             /\ vm'[n].expires \in {vm[n].expires} \cup Targets(n)
    BY <1>1, <1>2, <1>3, <2>1, <2>2
  <2> QED
    BY <1>1, <2>2, <2>3, HostStep
<1> QED
  BY <1>4, <1>5

\* A machine is placed: its row has had no expiry and its host no boot.
LEMMA PlaceStep ==
  ASSUME ExtendInv, ExtendAssumption, NEW m \in Vms, Place(m)
  PROVE  ExtendInv'
<1>1. /\ row' = [row EXCEPT ![m].state = "starting", ![m].placed = now, ![m].expires = now + Ttl]
      /\ UNCHANGED <<now, extendOp, vm, through, worker, late, answered>>
      /\ row[m].state = "none"
  BY DEF Place
<1>2. row \in [Vms -> RowRecord] /\ now \in Nat /\ Ttl \in Nat
  BY DEF ExtendInv, Types, ExtendAssumption
<1>3. /\ row' \in [Vms -> RowRecord]
      /\ row'[m].expires = now + Ttl /\ row'[m].state = "starting"
      /\ \A n \in Vms \ {m} : row'[n] = row[n]
  <2> DEFINE r == [row[m] EXCEPT !.state = "starting", !.placed = now, !.expires = now + Ttl]
  <2>1. row[m] \in RowRecord /\ now + Ttl \in Nat
    BY <1>2
  <2>2. r \in RowRecord /\ r.expires = now + Ttl /\ r.state = "starting"
    BY <1>2, <2>1 DEF RowRecord, RowStates
  <2>3. row' = [row EXCEPT ![m] = r]
    BY <1>1, <1>2
  <2> HIDE DEF r
  <2> QED
    BY <1>2, <2>2, <2>3
<1>4. Types'
  BY <1>1, <1>3 DEF ExtendInv, Types
<1>5. Bounded'
  <2>1. PICK b \in Nat : \A n \in Vms : row[n].expires <= b /\ \A k \in Keys : extendOp[n][k].target <= b
    BY DEF ExtendInv, Bounded
  <2>2. \A n \in Vms : row[n].expires \in Nat /\ \A k \in Keys : extendOp[n][k].target \in Nat
    BY DEF ExtendInv, Types, RowRecord, OpRecord
  <2>3. b + now + Ttl \in Nat
    BY <1>2, <2>1
  <2>4. \A n \in Vms : /\ row'[n].expires <= b + now + Ttl
                           /\ \A k \in Keys : extendOp'[n][k].target <= b + now + Ttl
    BY <1>1, <1>2, <1>3, <2>1, <2>2
  <2> QED
    BY <2>3, <2>4 DEF Bounded
<1>6. RowBacked'
  BY <1>1, <1>2, <1>3 DEF ExtendInv, RowBacked
<1>7. (ResultBacked /\ ServesRow /\ SeenBacked /\ AnsweredRecorded /\ HostWithinTargets)'
  BY <1>1 DEF ExtendInv, ResultBacked, ServesRow, Carries, SeenBacked, AnsweredRecorded, HostWithinTargets, Targets
<1> QED
  BY <1>4, <1>5, <1>6, <1>7 DEF ExtendInv

\* A machine boots: nothing has been promised beyond what its host now counts.
LEMMA BootStep ==
  ASSUME ExtendInv, ExtendAssumption, NEW m \in Vms, Boot(m)
  PROVE  ExtendInv'
<1>1. /\ vm' = [vm EXCEPT ![m].boot = now, ![m].expires = now + Ttl]
      /\ UNCHANGED <<now, row, extendOp, through, worker, late, answered>>
      /\ row[m].state \in ActiveStates /\ vm[m].boot = 0
  BY DEF Boot
<1>2. vm \in [Vms -> VmRecord] /\ now \in Nat \ {0} /\ Ttl \in Nat
  BY DEF ExtendInv, Types, ExtendAssumption
<1>3. /\ vm' \in [Vms -> VmRecord]
      /\ vm'[m].expires = now + Ttl /\ vm'[m].boot = now
      /\ \A n \in Vms \ {m} : vm'[n] = vm[n]
  <2> DEFINE v == [vm[m] EXCEPT !.boot = now, !.expires = now + Ttl]
  <2>1. vm[m] \in VmRecord /\ now + Ttl \in Nat
    BY <1>2
  <2>2. v \in VmRecord /\ v.expires = now + Ttl /\ v.boot = now
    BY <1>2, <2>1 DEF VmRecord
  <2>3. vm' = [vm EXCEPT ![m] = v]
    BY <1>1, <1>2
  <2> HIDE DEF v
  <2> QED
    BY <1>2, <2>2, <2>3
<1>4. Types' /\ Bounded'
  BY <1>1, <1>3 DEF ExtendInv, Types, Bounded
<1>5. RowBacked'
  BY <1>1, <1>2, <1>3 DEF ExtendInv, RowBacked, ActiveStates
<1>6. ResultBacked'
  BY <1>1, <1>2, <1>3 DEF ExtendInv, ResultBacked
<1>7. (ServesRow /\ AnsweredRecorded)'
  BY <1>1 DEF ExtendInv, ServesRow, Carries, AnsweredRecorded
<1>8. SeenBacked'
  <2>1. \A w \in Handlers : worker[w].pc = "complete" => worker[w].m \in Vms
    BY DEF ExtendInv, ServesRow, Carries
  <2> QED
    BY <1>1, <1>3, <2>1 DEF ExtendInv, SeenBacked
<1>9. HostWithinTargets'
  BY <1>1, <1>3 DEF ExtendInv, HostWithinTargets, Targets
<1> QED
  BY <1>4, <1>5, <1>6, <1>7, <1>8, <1>9 DEF ExtendInv

\* Time passes.
LEMMA TickStep ==
  ASSUME ExtendInv, ExtendAssumption, Tick
  PROVE  ExtendInv'
<1>1. now \in Nat \ {0} /\ Ttl \in Nat /\ now' = now + 1
      /\ UNCHANGED <<row, extendOp, vm, through, worker, late, answered>>
  BY DEF Tick, ExtendInv, Types, ExtendAssumption
<1>2. \A m \in Vms : row[m].expires \in Nat
  BY DEF ExtendInv, Types, RowRecord
<1>3. (Types /\ Bounded)'
  BY <1>1 DEF ExtendInv, Types, Bounded
<1>4. RowBacked'
  BY <1>1, <1>2 DEF ExtendInv, RowBacked
<1>5. (ResultBacked /\ ServesRow /\ SeenBacked /\ AnsweredRecorded /\ HostWithinTargets)'
  BY <1>1 DEF ExtendInv, ResultBacked, ServesRow, Carries, SeenBacked, AnsweredRecorded, HostWithinTargets, Targets
<1> QED
  BY <1>3, <1>4, <1>5 DEF ExtendInv

\* A new operation: its key was free, so nobody carries another target for it.
LEMMA BeginStep ==
  ASSUME ExtendInv, ExtendAssumption, NEW w \in Handlers, NEW m \in Vms, NEW k \in Keys,
         NEW ttl \in Extensions, BeginExtend(w, m, k, ttl)
  PROVE  ExtendInv'
<1> DEFINE target == ExtendTarget(m, ttl)
           x == [pc |-> "find", m |-> m, key |-> k, target |-> target, seen |-> 0]
           o == [hash |-> ttl, target |-> target, result |-> 0]
<1>1. /\ extendOp[m][k] = NoOp /\ extendOp' = [extendOp EXCEPT ![m][k] = o]
      /\ worker' = [worker EXCEPT ![w] = x]
      /\ UNCHANGED <<now, row, vm, through, late, answered>>
  BY DEF BeginExtend, Serves
<1>2. target \in Nat
  <2>1. CommittedUntil(m) \in Nat /\ now + ttl \in Nat
    BY CommittedIsNat DEF ExtendInv, Types, ExtendAssumption
  <2> QED
    BY <2>1, MaxOfTwo DEF ExtendTarget
<1>3. /\ extendOp \in [Vms -> [Keys -> OpRecord]] /\ worker \in [Handlers -> WorkerRecord]
      /\ ttl \in Nat \ {0}
  BY DEF ExtendInv, Types, ExtendAssumption
<1>4. o \in OpRecord /\ o.hash # 0 /\ o.target = target /\ o.result = 0
  BY <1>2, <1>3 DEF OpRecord
<1>5. x \in WorkerRecord /\ x.pc = "find" /\ x.m = m /\ x.key = k /\ x.target = target
  BY <1>2 DEF WorkerRecord
<1> HIDE DEF target, x, o
<1>6. /\ extendOp' \in [Vms -> [Keys -> OpRecord]] /\ extendOp'[m][k] = o
      /\ \A n \in Vms, j \in Keys : extendOp'[n][j] = extendOp[n][j] \/ (n = m /\ j = k /\ extendOp'[n][j] = o)
  BY <1>1, <1>3, <1>4
<1>7. NoOp.hash = 0 /\ NoOp.target = 0 /\ NoOp.result = 0
  BY DEF NoOp
<1>8. /\ worker' \in [Handlers -> WorkerRecord]
      /\ \A v \in Handlers : worker'[v] = worker[v] \/ worker'[v] = x
  BY <1>1, <1>3, <1>5
<1>9. Types'
  BY <1>1, <1>6, <1>8 DEF ExtendInv, Types
<1>10. Bounded'
  <2>1. PICK b \in Nat : \A n \in Vms : row[n].expires <= b /\ \A j \in Keys : extendOp[n][j].target <= b
    BY DEF ExtendInv, Bounded
  <2>2. \A n \in Vms : row[n].expires \in Nat /\ \A j \in Keys : extendOp[n][j].target \in Nat
    BY DEF ExtendInv, Types, RowRecord, OpRecord
  <2>3. \A n \in Vms : /\ row'[n].expires <= b + target
                           /\ \A j \in Keys : extendOp'[n][j].target <= b + target
    BY <1>1, <1>2, <1>4, <1>6, <2>1, <2>2
  <2> QED
    BY <1>2, <2>3 DEF Bounded
<1>11. RowBacked'
  BY <1>1 DEF ExtendInv, RowBacked
<1>12. ResultBacked'
  BY <1>1, <1>4, <1>6 DEF ExtendInv, ResultBacked
<1>13. ServesRow'
  <2>1. ASSUME NEW n \in Vms, NEW j \in Keys, NEW t, Carries(n, j, t)
        PROVE  Carries(n, j, t)'
    BY <1>1, <1>6, <1>7, <2>1 DEF Carries
  <2>2. ASSUME NEW v \in Handlers, worker'[v].pc # "idle"
        PROVE  Carries(worker[v].m, worker[v].key, worker[v].target)'
    <3>1. CASE worker'[v] = worker[v]
      BY <2>1, <2>2, <3>1 DEF ExtendInv, ServesRow, Carries
    <3>2. CASE worker'[v] = x
      BY <1>4, <1>5, <1>6, <3>2 DEF Carries
    <3> QED
      BY <1>8, <3>1, <3>2
  <2>3. ASSUME NEW c \in late' PROVE Carries(c.m, c.key, c.target)'
    BY <1>1, <2>1 DEF ExtendInv, ServesRow, Carries
  <2> QED
    BY <2>2, <2>3 DEF ServesRow
<1>14. SeenBacked'
  BY <1>1, <1>5, <1>8 DEF ExtendInv, SeenBacked
<1>15. AnsweredRecorded'
  BY <1>1, <1>6, <1>7 DEF ExtendInv, AnsweredRecorded
<1>16. HostWithinTargets'
  <2> SUFFICES ASSUME NEW n \in Vms, vm[n].boot # 0
               PROVE  vm[n].expires \in {vm[n].boot + Ttl} \cup Targets(n)'
    BY <1>1 DEF HostWithinTargets
  <2>1. vm[n].expires # 0
    BY DEF ExtendInv, RowBacked
  <2>2. CASE vm[n].expires = vm[n].boot + Ttl
    BY <2>2
  <2>3. CASE vm[n].expires \in Targets(n)
    <3>1. PICK j \in Keys : vm[n].expires = extendOp[n][j].target
      BY <2>3 DEF Targets
    <3>2. extendOp'[n][j] = extendOp[n][j]
      BY <1>1, <1>6, <1>7, <2>1, <3>1
    <3> QED
      BY <3>1, <3>2 DEF Targets
  <2> QED
    BY <2>2, <2>3 DEF ExtendInv, HostWithinTargets
<1> QED
  BY <1>9, <1>10, <1>11, <1>12, <1>13, <1>14, <1>15, <1>16 DEF ExtendInv

\* A completed operation is answered again: the row's result.
LEMMA ReplayStep ==
  ASSUME ExtendInv, NEW m \in Vms, NEW k \in Keys, ReplayExtend(m, k)
  PROVE  ExtendInv'
<1>1. /\ answered' = answered \cup {<<m, k, extendOp[m][k].result>>} /\ extendOp[m][k].result # 0
      /\ UNCHANGED <<now, row, extendOp, vm, through, worker, late>>
  BY DEF ReplayExtend
<1>2. extendOp[m][k].result \in Nat
  BY DEF ExtendInv, Types, OpRecord
<1>3. Types' /\ Bounded'
  BY <1>1, <1>2 DEF ExtendInv, Types, Bounded
<1>4. AnsweredRecorded'
  BY <1>1, <1>2 DEF ExtendInv, AnsweredRecorded
<1>5. (RowBacked /\ ResultBacked /\ ServesRow /\ SeenBacked /\ HostWithinTargets)'
  BY <1>1 DEF ExtendInv, RowBacked, ResultBacked, ServesRow, Carries, SeenBacked, HostWithinTargets, Targets
<1> QED
  BY <1>3, <1>4, <1>5 DEF ExtendInv

\* The first completion records what its worker saw; every one answers the record.
LEMMA CompleteStep ==
  ASSUME ExtendInv, NEW w \in Handlers, CompleteExtend(w)
  PROVE  ExtendInv'
<1> DEFINE x == worker[w]
           m == x.m
           k == x.key
           result == Recorded(x)
<1>1. /\ x.pc = "complete"
      /\ extendOp' = [extendOp EXCEPT ![m][k].result = result]
      /\ answered' = answered \cup {<<m, k, result>>}
      /\ worker' = [worker EXCEPT ![w] = NoRequest]
      /\ UNCHANGED <<now, vm, through, late>>
      /\ \/ row' = [row EXCEPT ![m].expires = Max({@, result})]
         \/ row' = row
  BY DEF CompleteExtend
<1>2. x \in WorkerRecord /\ m \in Vms /\ k \in Keys /\ Carries(m, k, x.target)
  BY <1>1 DEF ExtendInv, Types, ServesRow, Carries
<1>3. /\ extendOp \in [Vms -> [Keys -> OpRecord]] /\ worker \in [Handlers -> WorkerRecord]
      /\ row \in [Vms -> RowRecord] /\ NoRequest \in WorkerRecord /\ NoRequest.pc = "idle"
  BY DEF ExtendInv, Types, WorkerRecord, NoRequest
<1>4. extendOp[m][k].result \in Nat /\ x.seen \in Nat /\ vm[m].expires \in Nat
  BY <1>2, <1>3 DEF OpRecord, WorkerRecord, ExtendInv, Types, VmRecord
<1>5. /\ result \in Nat /\ result # 0 /\ vm[m].boot # 0 /\ result <= vm[m].expires
      /\ extendOp[m][k].result # 0 => result = extendOp[m][k].result
  BY <1>1, <1>2, <1>4 DEF Recorded, ExtendInv, SeenBacked, ResultBacked
<1> HIDE DEF x, m, k, result
<1>6. /\ extendOp' \in [Vms -> [Keys -> OpRecord]] /\ extendOp'[m][k].result = result
      /\ \A n \in Vms, j \in Keys :
           /\ extendOp'[n][j].hash = extendOp[n][j].hash /\ extendOp'[n][j].target = extendOp[n][j].target
           /\ extendOp'[n][j].result = extendOp[n][j].result \/ (n = m /\ j = k)
  <2> DEFINE o == [extendOp[m][k] EXCEPT !.result = result]
  <2>1. /\ o \in OpRecord /\ o.result = result
        /\ o.hash = extendOp[m][k].hash /\ o.target = extendOp[m][k].target
    <3>1. extendOp[m][k] \in OpRecord
      BY <1>2, <1>3
    <3> QED
      BY <1>5, <3>1 DEF OpRecord
  <2>2. extendOp' = [extendOp EXCEPT ![m] = [extendOp[m] EXCEPT ![k] = o]]
    BY <1>1, <1>2, <1>3
  <2> HIDE DEF o
  <2>3. [extendOp[m] EXCEPT ![k] = o] \in [Keys -> OpRecord]
    BY <1>2, <1>3, <2>1
  <2>4. \A n \in Vms, j \in Keys : extendOp'[n][j] = IF n = m /\ j = k THEN o ELSE extendOp[n][j]
    BY <1>2, <1>3, <2>2
  <2>5. extendOp' \in [Vms -> [Keys -> OpRecord]]
    BY <1>2, <1>3, <2>2, <2>3
  <2> QED
    BY <1>2, <2>1, <2>4, <2>5
<1>7. /\ row' \in [Vms -> RowRecord]
      /\ \A n \in Vms :
           /\ row'[n].state = row[n].state
           /\ row'[n].expires = row[n].expires \/ (n = m /\ row'[n].expires = result)
  <2>1. row[m] \in RowRecord /\ row[m].expires \in Nat
    BY <1>2, <1>3 DEF RowRecord
  <2>2. Max({row[m].expires, result}) \in Nat /\ Max({row[m].expires, result}) \in {row[m].expires, result}
    BY <1>5, <2>1, MaxOfTwo
  <2> DEFINE r == [row[m] EXCEPT !.expires = Max({@, result})]
  <2>3. r \in RowRecord /\ r.state = row[m].state /\ r.expires \in {row[m].expires, result}
    BY <2>1, <2>2 DEF RowRecord
  <2>4. row' = [row EXCEPT ![m] = r] \/ row' = row
    BY <1>1, <1>2, <1>3
  <2> HIDE DEF r
  <2> QED
    BY <1>2, <1>3, <2>3, <2>4
<1>8. /\ worker' \in [Handlers -> WorkerRecord]
      /\ \A v \in Handlers : worker'[v] = worker[v] \/ worker'[v].pc = "idle"
  BY <1>1, <1>3
<1>9. Types'
  BY <1>1, <1>2, <1>5, <1>6, <1>7, <1>8 DEF ExtendInv, Types
<1>10. Bounded'
  <2>1. PICK b \in Nat : \A n \in Vms : row[n].expires <= b /\ \A j \in Keys : extendOp[n][j].target <= b
    BY DEF ExtendInv, Bounded
  <2>2. \A n \in Vms : row[n].expires \in Nat /\ \A j \in Keys : extendOp[n][j].target \in Nat
    BY DEF ExtendInv, Types, RowRecord, OpRecord
  <2>3. \A n \in Vms : /\ row'[n].expires <= b + result
                           /\ \A j \in Keys : extendOp'[n][j].target <= b + result
    BY <1>5, <1>6, <1>7, <2>1, <2>2
  <2> QED
    BY <1>5, <2>1, <2>3 DEF Bounded
<1>11. RowBacked'
  BY <1>1, <1>5, <1>7 DEF ExtendInv, RowBacked
<1>12. ResultBacked'
  BY <1>1, <1>5, <1>6 DEF ExtendInv, ResultBacked
<1>13. ServesRow'
  BY <1>1, <1>6, <1>8 DEF ExtendInv, ServesRow, Carries
<1>14. SeenBacked'
  BY <1>1, <1>8 DEF ExtendInv, SeenBacked
<1>15. AnsweredRecorded'
  <2> SUFFICES ASSUME NEW n \in Vms, NEW j \in Keys, NEW r \in Nat, <<n, j, r>> \in answered'
               PROVE  r # 0 /\ extendOp'[n][j].result = r
    BY DEF AnsweredRecorded
  <2>1. CASE <<n, j, r>> \in answered
    <3>1. r # 0 /\ extendOp[n][j].result = r
      BY <2>1 DEF ExtendInv, AnsweredRecorded
    <3> QED
      BY <1>5, <1>6, <3>1
  <2>2. CASE <<n, j, r>> = <<m, k, result>>
    BY <1>5, <1>6, <2>2
  <2> QED
    BY <1>1, <2>1, <2>2
<1>16. HostWithinTargets'
  <2>1. \A n \in Vms : Targets(n)' = Targets(n)
    BY <1>6 DEF Targets
  <2> QED
    BY <1>1, <2>1 DEF ExtendInv, HostWithinTargets
<1> QED
  BY <1>9, <1>10, <1>11, <1>12, <1>13, <1>14, <1>15, <1>16 DEF ExtendInv

-----------------------------------------------------------------------------
(* Theorems. *)

\* Every step keeps the invariant.
LEMMA InvNext == ExtendAssumption /\ ExtendInv /\ [ExtendNext]_extendVars => ExtendInv'
<1> SUFFICES ASSUME ExtendAssumption, ExtendInv, [ExtendNext]_extendVars PROVE ExtendInv'
  OBVIOUS
<1>1. CASE Tick
  BY <1>1, TickStep
<1>2. ASSUME NEW w \in Handlers, ExtendStep(w) PROVE ExtendInv'
  <2>1. CASE \E m \in Vms, k \in Keys, ttl \in Extensions : BeginExtend(w, m, k, ttl)
    BY <2>1, BeginStep
  <2>2. CASE CallExtend(w)
    BY <2>2, CallSteps
  <2>3. CASE CompleteExtend(w)
    BY <2>3, CompleteStep
  <2>4. CASE \/ \E m \in Vms, k \in Keys, ttl \in Extensions : RetryExtend(w, m, k, ttl)
             \/ FindExtend(w) \/ ViewExtend(w) \/ CallRefused(w) \/ CallLost(w) \/ HandlerDies(w)
    BY <2>4, RequestSteps
  <2> QED
    BY <1>2, <2>1, <2>2, <2>3, <2>4 DEF ExtendStep
<1>3. ASSUME NEW m \in Vms, MachineStep(m) PROVE ExtendInv'
  <2>1. CASE Place(m)
    BY <2>1, PlaceStep
  <2>2. CASE Boot(m)
    BY <2>2, BootStep
  <2>3. CASE ObserveBoot(m) \/ Meter(m) \/ Delete(m) \/ MarkStopped(m) \/ ReconcileGone(m) \/ ReaperDestroys(m)
    BY <2>3, RowSteps
  <2>4. CASE HostDestroy(m) \/ TimerFires(m) \/ Reap(m)
    BY <2>4, HostSteps
  <2>5. CASE \E k \in Keys : ReplayExtend(m, k)
    BY <2>5, ReplayStep
  <2> QED
    BY <1>3, <2>1, <2>2, <2>3, <2>4, <2>5 DEF MachineStep
<1>4. ASSUME NEW c \in late, LateExtend(c) PROVE ExtendInv'
  BY <1>4, CallSteps
<1>5. ASSUME NEW S \in SUBSET Vms, ReaperSelects(S) PROVE ExtendInv'
  <2>1. UNCHANGED <<now, row, extendOp, vm, through, worker, late, answered>>
    BY <1>5 DEF ReaperSelects
  <2> QED
    BY <2>1, RowStep DEF ExtendInv, Types
<1>6. CASE UNCHANGED extendVars
  <2>1. UNCHANGED <<now, row, extendOp, vm, through, worker, late, answered>>
    BY <1>6 DEF extendVars
  <2> QED
    BY <2>1, RowStep DEF ExtendInv, Types
<1> QED
  BY <1>1, <1>2, <1>3, <1>4, <1>5, <1>6 DEF ExtendNext

\* The invariant answers the three questions.
LEMMA InvIsSafe == ExtendInv => PromiseBackedByHost
<1> SUFFICES ASSUME ExtendInv PROVE PromiseBackedByHost
  OBVIOUS
<1>1. ASSUME NEW a \in answered
      PROVE  /\ a[1] \in Vms /\ a[2] \in Keys
             /\ a[3] # 0 /\ extendOp[a[1]][a[2]].result = a[3]
  <2>1. a \in Vms \X Keys \X Nat
    BY DEF ExtendInv, Types
  <2>2. a = <<a[1], a[2], a[3]>> /\ a[1] \in Vms /\ a[2] \in Keys /\ a[3] \in Nat
    BY <2>1
  <2> QED
    BY <2>2 DEF ExtendInv, AnsweredRecorded
<1>2. SameAnswer
  BY <1>1 DEF SameAnswer
<1>3. HostKeepsPromise
  BY <1>1 DEF HostKeepsPromise, Up, ExtendInv, RowBacked, ResultBacked
<1> QED
  BY <1>2, <1>3 DEF ExtendInv, PromiseBackedByHost

\* A machine's host keeps it as long as its row and every answered extension
\* say and never longer than its TTL or an admitted target, and a key has one
\* answer (beginExtend and completeExtend of domain/machines.ts, ExtendInternal
\* of nehemiahd/machine.go), whatever is lost, late, retried or crashes.
THEOREM PromisesAreKept == ExtendAssumption /\ ExtendSpec => []PromiseBackedByHost
<1> SUFFICES ASSUME ExtendAssumption PROVE ExtendSpec => []PromiseBackedByHost
  OBVIOUS
<1>1. ExtendInit => ExtendInv
  BY InvInit
<1>2. ExtendInv /\ [ExtendNext]_extendVars => ExtendInv'
  BY InvNext
<1> QED
  BY <1>1, <1>2, InvIsSafe, PTL DEF ExtendSpec

\* No step lets a host end a machine's time earlier than before, or boots it anew
\* (ExtendInternal, createInternal).
NeverShortened ==
  \A m \in Vms : vm[m].boot # 0 => vm'[m].boot = vm[m].boot /\ vm'[m].expires >= vm[m].expires

\* The expiry of a booted machine only grows, in whatever order requests,
\* retries and late calls reach ExtendInternal of nehemiahd/machine.go.
THEOREM ExpiryOnlyGrows == ExtendAssumption /\ ExtendSpec => [][NeverShortened]_extendVars
<1> SUFFICES ASSUME ExtendAssumption PROVE ExtendSpec => [][NeverShortened]_extendVars
  OBVIOUS
<1>1. ExtendInit => ExtendInv
  BY InvInit
<1>2. ExtendInv /\ [ExtendNext]_extendVars => ExtendInv'
  BY InvNext
<1>3. ExtendInv /\ [ExtendNext]_extendVars => [NeverShortened]_extendVars
  <2> SUFFICES ASSUME ExtendInv, ExtendNext PROVE NeverShortened
    OBVIOUS
  <2>1. /\ vm \in [Vms -> VmRecord] /\ now \in Nat
        /\ \A m \in Vms : vm[m].expires \in Nat
    BY DEF ExtendInv, Types, VmRecord
  <2>2. CASE vm' = vm
    BY <2>1, <2>2 DEF NeverShortened
  <2>3. ASSUME NEW n \in Vms, Boot(n) PROVE NeverShortened
    BY <2>1, <2>3 DEF NeverShortened, Boot
  <2>4. ASSUME NEW n \in Vms, HostDestroy(n) \/ TimerFires(n) \/ Reap(n) PROVE NeverShortened
    <3>1. CASE vm' = [vm EXCEPT ![n].end = now]
      BY <2>1, <3>1 DEF NeverShortened, VmRecord
    <3>2. CASE vm' = [vm EXCEPT ![n].fired = TRUE]
      BY <2>1, <3>2 DEF NeverShortened, VmRecord
    <3> QED
      BY <2>4, <3>1, <3>2 DEF HostDestroy, TimerFires, Reap
  <2>5. ASSUME NEW n, NEW k, NEW target, Carries(n, k, target), target \in Nat,
               vm' = [vm EXCEPT ![n] = ExtendedVm(n, k, target)]
        PROVE  NeverShortened
    BY <2>1, <2>5, ExtendedGrows DEF NeverShortened, Carries
  <2>6. ASSUME NEW w \in Handlers, CallExtend(w) PROVE NeverShortened
    <3>1. Carries(worker[w].m, worker[w].key, worker[w].target) /\ worker[w].target \in Nat
      BY <2>6 DEF CallExtend, ExtendInv, ServesRow, Types, WorkerRecord
    <3> QED
      BY <2>5, <2>6, <3>1 DEF CallExtend
  <2>7. ASSUME NEW c \in late, LateExtend(c) PROVE NeverShortened
    <3>1. Carries(c.m, c.key, c.target) /\ c.target \in Nat
      BY DEF ExtendInv, ServesRow, Types, CallRecord
    <3> QED
      BY <2>2, <2>5, <2>7, <3>1 DEF LateExtend
  <2>8. ASSUME NEW w \in Handlers, ExtendStep(w) PROVE NeverShortened
    BY <2>2, <2>6, <2>8
    DEF ExtendStep, BeginExtend, RetryExtend, FindExtend, ViewExtend, CallRefused, CallLost, HandlerDies, CompleteExtend
  <2>9. ASSUME NEW m \in Vms, MachineStep(m) PROVE NeverShortened
    BY <2>2, <2>3, <2>4, <2>9
    DEF MachineStep, Place, ObserveBoot, Meter, Delete, MarkStopped, ReconcileGone, ReaperDestroys, ReplayExtend
  <2> QED
    BY <2>2, <2>7, <2>8, <2>9 DEF ExtendNext, Tick, ReaperSelects
<1> QED
  BY <1>1, <1>2, <1>3, PTL DEF ExtendSpec
=============================================================================
