------------------------------- MODULE Extend -------------------------------
(***************************************************************************)
(* The life time of machines: extension (beginExtend, completeExtend and   *)
(* MachineService.extend of domain/machines.ts, ExtendInternal and the TTL *)
(* timer of nehemiahd/machine.go), the expiry reaper                       *)
(* (jobs/reap-expired-machines.ts) and the spend cap that every new        *)
(* commitment is held against (billing/admission.ts).  One organization;   *)
(* a machine costs one unit per unit of time, which stands for the three   *)
(* dimensions the code prices and adds.  Time is a clock that host and     *)
(* control plane share; 0 stands for NULL.                                 *)
(***************************************************************************)
EXTENDS Naturals, FiniteSets, FiniteSetsExt

CONSTANTS
  Vms, Keys, Handlers,
  Stuck,        \* rows left in stopping and never placed: no one ends them (README, 5)
  Ttl,          \* requested_ttl_seconds of every machine
  Extensions,   \* values of ttlSeconds in extend requests
  Cap,          \* spend_cap_cents, in units
  BatchLimit,   \* LIMIT of the reaper's query
  Reporting,    \* machines whose usage is reported at all; reports may be arbitrarily late
  Lossy,        \* whether extend calls may be lost and the control plane may crash
  MaxRequest,   \* bound: no create, boot, delete or extend after this time
  MaxTime       \* bound on the clock

ExtendAssumption ==
  /\ Stuck \subseteq Vms /\ Reporting \subseteq Vms /\ Ttl \in Nat \ {0} /\ Extensions \subseteq Nat \ {0}
  /\ Lossy \in BOOLEAN /\ Cap \in Nat /\ BatchLimit \in Nat \ {0} /\ MaxRequest \in Nat /\ MaxTime \in Nat

VARIABLES
  now,
  row,      \* machines: state, expires_at, placed_at (or created_at), started_at, stopped_at, usage_finalized_at
  extendOp, \* machine_extend_operations by machine and key: hash, target, result
  vm,       \* on the host: boot, end, ExpiresAt, extendOperations, and whether the timer fired
  through,  \* end of the last usage recorded for the machine
  worker,   \* extend requests being served
  late,     \* extend calls whose answer nobody waits for
  batch,    \* rows the reaper selected and has not destroyed yet
  answered, \* history: expiries answered to customers
  over      \* history: time run after the committed end

extendVars == <<now, row, extendOp, vm, through, worker, late, batch, answered, over>>

RowStates == {"none", "starting", "running", "stopping", "stopped", "lost"}
ActiveStates == {"starting", "running", "stopping"}
EndedStates == {"stopped", "lost"}
NoOp == [hash |-> 0, target |-> 0, result |-> 0]
NoRequest == [pc |-> "idle", m |-> 0, key |-> 0, target |-> 0, seen |-> 0]

ExtendInit ==
  /\ now = 1
  /\ row = [m \in Vms |->
       IF m \in Stuck
       THEN [state |-> "stopping", expires |-> 1, placed |-> 1, started |-> 0, stopped |-> 0, final |-> FALSE]
       ELSE [state |-> "none", expires |-> 0, placed |-> 0, started |-> 0, stopped |-> 0, final |-> FALSE]]
  /\ extendOp = [m \in Vms |-> [k \in Keys |-> NoOp]]
  /\ vm = [m \in Vms |->
       [boot |-> 0, end |-> 0, expires |-> 0, keys |-> [k \in Keys |-> 0], fired |-> FALSE]]
  /\ through = [m \in Vms |-> 0]
  /\ worker = [w \in Handlers |-> NoRequest]
  /\ late = {} /\ batch = {} /\ answered = {} /\ over = 0

Up(m) == vm[m].boot # 0 /\ vm[m].end = 0
Minus(a, b) == IF a > b THEN a - b ELSE 0          \* GREATEST(a - b, 0)
Targets(m) == {extendOp[m][k].target : k \in Keys}
CommittedUntil(m) == Max({row[m].expires} \cup Targets(m))
Total(f(_)) == MapThenSumSet(f, Vms)

-----------------------------------------------------------------------------
(* BillingAdmissionPolicy.enforce. *)

\* COALESCE(usage through, started_at, placed_at) up to stopped_at or now, until
\* usage is final.
Unmetered(m) ==
  LET from == IF through[m] # 0 THEN through[m]
              ELSE IF row[m].started # 0 THEN row[m].started ELSE row[m].placed
  IN  CASE row[m].state \in ActiveStates -> Minus(now, from)
        [] row[m].state \in EndedStates /\ ~row[m].final -> Minus(row[m].stopped, from)
        [] OTHER -> 0

\* Mutant: what an admitted extension promised is not counted until it is done.
OutstandingByRow(m) == IF row[m].state \in ActiveStates THEN Minus(row[m].expires, now) ELSE 0

Outstanding(m) == IF row[m].state \in ActiveStates THEN Minus(CommittedUntil(m), now) ELSE 0

\* usage_events of a machine: its runtime up to the last recorded period.
Billed(m) == Minus(through[m], vm[m].boot)

WithinCap(additional) ==
  LET Exposure(m) == Billed(m) + Outstanding(m) + Unmetered(m)
  IN  Total(Exposure) + additional <= Cap

-----------------------------------------------------------------------------
(* Creation, usage and deletion, as far as life times depend on them. *)

\* insertRequested and placement in one step; expires_at runs from the request.
Place(m) ==
  /\ row[m].state = "none" /\ now <= MaxRequest /\ WithinCap(Ttl)
  /\ row' = [row EXCEPT ![m].state = "starting", ![m].placed = now, ![m].expires = now + Ttl]
  /\ UNCHANGED <<now, extendOp, vm, through, worker, late, batch, answered, over>>

\* The host counts the TTL from the boot.
Boot(m) ==
  /\ row[m].state \in ActiveStates /\ m \notin Stuck /\ vm[m].boot = 0
  /\ vm' = [vm EXCEPT ![m].boot = now, ![m].expires = now + Ttl]
  /\ UNCHANGED <<now, row, extendOp, through, worker, late, batch, answered, over>>

\* started_at is the host's own.
ObserveBoot(m) ==
  /\ row[m].state = "starting" /\ vm[m].boot # 0
  /\ row' = [row EXCEPT ![m].state = "running", ![m].started = vm[m].boot]
  /\ UNCHANGED <<now, extendOp, vm, through, worker, late, batch, answered, over>>

\* A usage event for the time since the last one; the last one is final.
Meter(m) ==
  LET upto == IF vm[m].end # 0 THEN vm[m].end ELSE now
  IN  /\ m \in Reporting /\ vm[m].boot # 0 /\ ~(row[m].state = "lost" /\ row[m].final)
      /\ (upto > through[m] \/ (vm[m].end # 0 /\ ~row[m].final))
      /\ through' = [through EXCEPT ![m] = upto]
      /\ row' = [row EXCEPT ![m].final = vm[m].end # 0]
      /\ UNCHANGED <<now, extendOp, vm, worker, late, batch, answered, over>>

\* destroy's first transaction.
Stops(m) == IF row[m].state \in {"starting", "running"} THEN "stopping" ELSE row[m].state

Delete(m) ==
  /\ row[m].state \in {"starting", "running"} /\ now <= MaxRequest
  /\ row' = [row EXCEPT ![m].state = Stops(m)]
  /\ UNCHANGED <<now, extendOp, vm, through, worker, late, batch, answered, over>>

\* The rest of destroy, by whoever carries it on: the host deletes the machine.

HostDestroy(m) ==
  /\ row[m].state = "stopping" /\ Up(m)
  /\ vm' = [vm EXCEPT ![m].end = now]
  /\ UNCHANGED <<now, row, extendOp, through, worker, late, batch, answered, over>>

\* Host deletion confirmed, by its answer or by its 404; the reconciler also
\* fails a starting machine that its host no longer has.
MarkStopped(m) ==
  /\ row[m].state \in {"starting", "stopping"} /\ vm[m].end # 0
  /\ row' = [row EXCEPT ![m].state = "stopped", ![m].stopped = now]
  /\ UNCHANGED <<now, extendOp, vm, through, worker, late, batch, answered, over>>

\* The reconciler finds a running machine gone: closeHostLoss ends its usage
\* where reports ended; without a report usage stays open and stopped_at is the start,
\* however late the first report may still come.
ReconcileGone(m) ==
  /\ row[m].state = "running" /\ vm[m].end # 0
  /\ row' = [row EXCEPT ![m].state = "lost", ![m].final = @ \/ through[m] # 0,
                        ![m].stopped = IF through[m] # 0 THEN through[m] ELSE row[m].started]
  /\ UNCHANGED <<now, extendOp, vm, through, worker, late, batch, answered, over>>

-----------------------------------------------------------------------------
(* The host: the TTL timer and ExtendInternal. *)

\* time.AfterFunc starts reap, which waits for the manager's lock.
TimerFires(m) ==
  /\ Up(m) /\ now >= vm[m].expires /\ ~vm[m].fired
  /\ vm' = [vm EXCEPT ![m].fired = TRUE]
  /\ UNCHANGED <<now, row, extendOp, through, worker, late, batch, answered, over>>

\* reap has the lock.  It does not look at ExpiresAt.
Reap(m) ==
  /\ Up(m) /\ vm[m].fired
  /\ vm' = [vm EXCEPT ![m].end = now]
  /\ UNCHANGED <<now, row, extendOp, through, worker, late, batch, answered, over>>

\* Mutant: the target replaces the expiry, also an earlier one a later one.
ShortenedVm(m, k, target) ==
  IF vm[m].keys[k] # 0 THEN vm[m]
  ELSE [vm[m] EXCEPT !.keys[k] = target, !.expires = target]

\* Recording the key, moving the expiry and the timer.  Stop cannot call back
\* a reap that already waits for the lock.
ExtendedVm(m, k, target) ==
  IF vm[m].keys[k] # 0 THEN vm[m]
  ELSE [vm[m] EXCEPT !.keys[k] = target, !.expires = Max({@, target})]

\* A future target for a machine that is there; a used key must repeat its target.
CanExtendInternal(m, k, target) == Up(m) /\ target > now /\ vm[m].keys[k] \in {0, target}

-----------------------------------------------------------------------------
(* beginExtend, MachineService.extend and completeExtend. *)

ExtendTarget(m, ttl) == Max({CommittedUntil(m), now + ttl})

Serves(w, pc, m, k, target) ==
  worker' = [worker EXCEPT ![w] = [pc |-> pc, m |-> m, key |-> k, target |-> target, seen |-> 0]]

\* First use of a key: a started machine, the cap, and the target is stored.
BeginExtend(w, m, k, ttl) ==
  LET target == ExtendTarget(m, ttl)
  IN  /\ worker[w].pc = "idle" /\ extendOp[m][k] = NoOp /\ now <= MaxRequest
      /\ row[m].state = "running"      \* or starting with its host id, which is the same here
      /\ WithinCap(target - Max({CommittedUntil(m), now}))
      /\ extendOp' = [extendOp EXCEPT ![m][k] = [hash |-> ttl, target |-> target, result |-> 0]]
      /\ Serves(w, "find", m, k, target)
      /\ UNCHANGED <<now, row, vm, through, late, batch, answered, over>>

\* A repeated key with the same request takes up the stored target; another
\* request under the key is a conflict and changes nothing.
RetryExtend(w, m, k, ttl) ==
  /\ worker[w].pc = "idle" /\ extendOp[m][k].hash = ttl /\ extendOp[m][k].result = 0 /\ now <= MaxRequest
  /\ Serves(w, "find", m, k, extendOp[m][k].target)
  /\ UNCHANGED <<now, row, extendOp, vm, through, late, batch, answered, over>>

\* A completed operation is answered from its row, whatever became of the machine.
ReplayExtend(m, k) ==
  /\ extendOp[m][k].result # 0 /\ now <= MaxRequest
  /\ answered' = answered \cup {<<m, k, extendOp[m][k].result>>}
  /\ UNCHANGED <<now, row, extendOp, vm, through, worker, late, batch, over>>

\* The row is read again: only a started machine is extended.
FindExtend(w) ==
  /\ worker[w].pc = "find"
  /\ worker' = [worker EXCEPT ![w] = IF row[@.m].state = "running" THEN [@ EXCEPT !.pc = "call"] ELSE NoRequest]
  /\ UNCHANGED <<now, row, extendOp, vm, through, late, batch, answered, over>>

CallExtend(w) ==
  LET x == worker[w]
  IN  /\ x.pc = "call" /\ CanExtendInternal(x.m, x.key, x.target)
      /\ vm' = [vm EXCEPT ![x.m] = ExtendedVm(x.m, x.key, x.target)]
      /\ worker' = [worker EXCEPT ![w].pc = "view"]
      /\ UNCHANGED <<now, row, extendOp, through, late, batch, answered, over>>

\* The host's handler then reads the machine anew for its answer, in which client
\* and service look for the target; without it the result is not known.
ViewExtend(w) ==
  LET x == worker[w]
      expires == vm[x.m].expires
  IN  /\ x.pc = "view"
      /\ worker' = [worker EXCEPT ![w] =
           IF Up(x.m) /\ expires >= x.target THEN [x EXCEPT !.pc = "complete", !.seen = expires] ELSE NoRequest]
      /\ UNCHANGED <<now, row, extendOp, vm, through, late, batch, answered, over>>

\* The host refuses: the machine is gone or the target is past.
CallRefused(w) ==
  /\ worker[w].pc = "call"
  /\ ~CanExtendInternal(worker[w].m, worker[w].key, worker[w].target)
  /\ worker' = [worker EXCEPT ![w] = NoRequest]
  /\ UNCHANGED <<now, row, extendOp, vm, through, late, batch, answered, over>>

\* No answer in time, or the control plane dies: the call may still arrive.
CallLost(w) ==
  /\ Lossy /\ worker[w].pc = "call"
  /\ late' = late \cup {[m |-> worker[w].m, key |-> worker[w].key, target |-> worker[w].target]}
  /\ worker' = [worker EXCEPT ![w] = NoRequest]
  /\ UNCHANGED <<now, row, extendOp, vm, through, batch, answered, over>>

HandlerDies(w) ==
  /\ Lossy /\ worker[w].pc \in {"find", "view", "complete"}
  /\ worker' = [worker EXCEPT ![w] = NoRequest]
  /\ UNCHANGED <<now, row, extendOp, vm, through, late, batch, answered, over>>

LateExtend(c) ==
  /\ late' = late \ {c}
  /\ vm' = IF CanExtendInternal(c.m, c.key, c.target)
           THEN [vm EXCEPT ![c.m] = ExtendedVm(c.m, c.key, c.target)] ELSE vm
  /\ UNCHANGED <<now, row, extendOp, through, worker, batch, answered, over>>

\* The first completion is recorded, later ones answer with it.
Recorded(x) == IF extendOp[x.m][x.key].result # 0 THEN extendOp[x.m][x.key].result ELSE x.seen

CompleteExtend(w) ==
  LET x == worker[w]
      result == Recorded(x)
  IN  /\ x.pc = "complete"
      /\ extendOp' = [extendOp EXCEPT ![x.m][x.key].result = result]
      /\ row' = IF row[x.m].state \in ActiveStates
                THEN [row EXCEPT ![x.m].expires = Max({@, result})] ELSE row
      /\ answered' = answered \cup {<<x.m, x.key, result>>}
      /\ worker' = [worker EXCEPT ![w] = NoRequest]
      /\ UNCHANGED <<now, vm, through, late, batch, over>>

-----------------------------------------------------------------------------
(* The expiry reaper and time. *)

Expired == {m \in Vms : row[m].state \in ActiveStates /\ CommittedUntil(m) <= now}

\* ORDER BY expires_at LIMIT.  A run may start before the last one is done.
ReaperSelects(S) ==
  /\ S \subseteq Expired /\ ~(S \subseteq batch)
  /\ Cardinality(S) = Min({BatchLimit, Cardinality(Expired)})
  /\ \A m \in S, n \in Expired \ S : row[m].expires <= row[n].expires
  /\ batch' = batch \cup S
  /\ UNCHANGED <<now, row, extendOp, vm, through, worker, late, answered, over>>

\* destroy, which does not ask again whether the machine expired.
ReaperDestroys(m) ==
  /\ m \in batch
  /\ batch' = batch \ {m}
  /\ row' = [row EXCEPT ![m].state = Stops(m)]
  /\ UNCHANGED <<now, extendOp, vm, through, worker, late, answered, over>>

\* The host's timers are punctual at the grain of this clock, and a placed
\* machine boots before the last request.
Tick ==
  /\ now < MaxTime
  /\ \A m \in Vms \ Stuck : row[m].state # "none" /\ vm[m].boot = 0 => now < MaxRequest
  /\ \A m \in Vms : Up(m) => now < vm[m].expires /\ ~vm[m].fired
  /\ now' = now + 1
  /\ over' = over + Cardinality({m \in Vms : Up(m) /\ CommittedUntil(m) <= now})
  /\ UNCHANGED <<row, extendOp, vm, through, worker, late, batch, answered>>

ExtendStep(w) ==
  \/ \E m \in Vms, k \in Keys, ttl \in Extensions : BeginExtend(w, m, k, ttl) \/ RetryExtend(w, m, k, ttl)
  \/ FindExtend(w) \/ CallExtend(w) \/ ViewExtend(w) \/ CallRefused(w) \/ CallLost(w) \/ HandlerDies(w) \/ CompleteExtend(w)

MachineStep(m) ==
  \/ Place(m) \/ Boot(m) \/ ObserveBoot(m) \/ Meter(m) \/ Delete(m) \/ HostDestroy(m)
  \/ MarkStopped(m) \/ ReconcileGone(m) \/ TimerFires(m) \/ Reap(m) \/ ReaperDestroys(m)
  \/ \E k \in Keys : ReplayExtend(m, k)

ExtendNext ==
  \/ Tick
  \/ \E w \in Handlers : ExtendStep(w)
  \/ \E m \in Vms : MachineStep(m)
  \/ \E c \in late : LateExtend(c)
  \/ \E S \in SUBSET Vms : ReaperSelects(S)

ExtendSpec == ExtendInit /\ [][ExtendNext]_extendVars

-----------------------------------------------------------------------------
(* Properties. *)

\* Everyone who uses a key is answered the same expiry, however many requests
\* race, whatever other extensions the host took in between (completeExtend
\* lines 661-687).
SameAnswer ==
  \A a, b \in answered : a[1] = b[1] /\ a[2] = b[2] => a[3] = b[3]

\* While a machine runs, its host keeps it at least as long as its row and every
\* answered extension say, in whatever order extensions reached the host.
HostKeepsPromise ==
  \A m \in Vms : Up(m) =>
    /\ row[m].expires <= vm[m].expires
    /\ \A a \in answered : a[1] = m => a[3] <= vm[m].expires

\* However often an extension is retried, lost or late, a host never keeps a
\* machine longer than its own TTL or a target that was admitted: "it can only
\* reapply the original instant, never add another relative TTL"
\* (nehemiahd/machine.go:545).
HostWithinTargets ==
  \A m \in Vms : vm[m].boot # 0 => vm[m].expires \in {vm[m].boot + Ttl} \cup Targets(m)

\* While a machine runs its host keeps it as long as any answered extension says
\* and no longer than an admitted target; one key has one answer (beginExtend,
\* completeExtend, nehemiahd ExtendInternal).
PromiseBackedByHost == HostKeepsPromise /\ HostWithinTargets /\ SameAnswer

Ran(m) == (IF Up(m) THEN now ELSE vm[m].end) - vm[m].boot
MayRun(m) == IF row[m].state \in ActiveStates THEN Minus(CommittedUntil(m), now) ELSE 0

\* What the organization's machines have run, and may still run under its commitments,
\* is within the cap (admission.ts:99), whatever of it has not been reported yet.  A
\* lost machine counts to the stopped_at that finishAndRelease gave it: its last report
\* or, without one, its start.  Time run beyond a commitment, which only a machine
\* that booted late can do, comes on top.
CommittedWithinCap ==
  LET Spent(m) == IF row[m].state = "lost" THEN row[m].stopped - vm[m].boot ELSE Ran(m)
  IN  Total(Spent) + Total(MayRun) <= Cap + over
=============================================================================
