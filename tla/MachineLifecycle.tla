-------------------------- MODULE MachineLifecycle --------------------------
(***************************************************************************)
(* The life of managed machines: MachineService.create and destroy,        *)
(* MachineReconciler and the expiry reaper run as interleaved workers      *)
(* that alternate database transactions (MachineTable) and calls to a      *)
(* host (HostDaemon) over a network that delays and loses answers.         *)
(*                                                                         *)
(* A worker is one in-flight request or job.  What it read earlier is in   *)
(* seen[w]  and may be stale by the time it is used.  A control-plane      *)
(* process may die between any two steps: its worker forgets everything    *)
(* and the claims it held stay in the database until they expire.          *)
(***************************************************************************)
EXTENDS MachineTable, HostDaemon

CONSTANTS
  Creators,     \* POST /v1/machines requests in flight
  Destroyers,   \* DELETE requests and the expiry reaper
  Reconcilers,  \* reconcile(machine) activities
  NoMachine,    \* an idle worker works on no machine
  MaxCrashes,   \* bound: control-plane crashes
  MaxRestarts,  \* bound: nehemiahd restarts
  MaxOutages    \* bound: hosts that stop sending heartbeats

ASSUME WorkerAssumption ==
  /\ Workers = Creators \cup Destroyers \cup Reconcilers
  /\ Creators \cap Destroyers = {}
  /\ Creators \cap Reconcilers = {}
  /\ Destroyers \cap Reconcilers = {}
  /\ NoMachine \notin Machines

ASSUME BoundsAssumption ==
  MaxCrashes \in Nat /\ MaxRestarts \in Nat /\ MaxOutages \in Nat

VARIABLES
  pc,       \* what each worker does next
  job,      \* the machine it works on
  seen,     \* the row as the worker last read it
  late,     \* requests a host may still execute although nobody waits
  crashes, restarts, outages

workerVars == <<pc, job, seen>>
boundVars  == <<crashes, restarts, outages>>
vars == <<tableVars, daemonVars, workerVars, late, boundVars>>

-----------------------------------------------------------------------------
(* Program counters.  A worker at a call has sent its request, or is about *)
(* to; the others are between two transactions.                            *)

CreatePcs    == {"claim", "reserve", "create", "observe", "compensate",
                 "abandon", "fail", "createRelease", "unclaim"}
DestroyPcs   == {"stop", "destroy", "stopped", "destroyRelease"}
ReconcilePcs == {"recover", "persist", "orphan", "delete", "get", "present",
                 "gone", "expire", "finishStopped", "finishFailed",
                 "finishLost", "reconcileRelease", "unreconcile"}

Pcs          == {"idle"} \cup CreatePcs \cup DestroyPcs \cup ReconcilePcs

CreateCalls  == {"create", "recover"}
DestroyCalls == {"compensate", "destroy", "orphan", "delete", "expire"}
Calls        == CreateCalls \cup DestroyCalls \cup {"get"}

\* Where a worker goes when its call fails without a definite answer: the
\* client throws an ambiguous HostRequestError.
AfterAmbiguous(p) ==
  CASE p = "create"     -> "idle"      \* returns the pending machine, keeps its claim
    [] p = "compensate" -> "abandon"
    [] p = "destroy"    -> "idle"      \* rethrown to the caller
    [] OTHER            -> "unreconcile"

Rows == [state : States, host : Hosts \cup {NoHost}, vm : 0..MaxBoots]

Unread == [state |-> "absent", host |-> NoHost, vm |-> 0]

Row(m) == [state |-> state[m], host |-> host[m], vm |-> vmId[m]]

Requests == [op : {"create", "destroy"}, m : Machines, vm : 0..MaxBoots]

TypeOK ==
  /\ TableTypeOK
  /\ DaemonTypeOK
  /\ pc \in [Workers -> Pcs]
  /\ job \in [Workers -> Machines \cup {NoMachine}]
  /\ seen \in [Workers -> Rows]
  /\ late \subseteq Requests
  /\ crashes \in 0..MaxCrashes
  /\ restarts \in 0..MaxRestarts
  /\ outages \in 0..MaxOutages

Init ==
  /\ TableInit
  /\ DaemonInit
  /\ pc = [w \in Workers |-> "idle"]
  /\ job = [w \in Workers |-> NoMachine]
  /\ seen = [w \in Workers |-> Unread]
  /\ late = {}
  /\ crashes = 0
  /\ restarts = 0
  /\ outages = 0

-----------------------------------------------------------------------------
(* Worker bookkeeping. *)

\* Go on at p; "idle" returns to the caller.
Goto(w, p) ==
  /\ pc' = [pc EXCEPT ![w] = p]
  /\ job' = [job EXCEPT ![w] = IF p = "idle" THEN NoMachine ELSE @]
  /\ seen' = [seen EXCEPT ![w] = IF p = "idle" THEN Unread ELSE @]

\* Go on at p with a newly read row.
GotoWith(w, p, row) ==
  /\ pc' = [pc EXCEPT ![w] = p]
  /\ seen' = [seen EXCEPT ![w] = row]
  /\ UNCHANGED job

\* Begin work on m.
Start(w, m, p, row) ==
  /\ pc[w] = "idle"
  /\ pc' = [pc EXCEPT ![w] = p]
  /\ job' = [job EXCEPT ![w] = m]
  /\ seen' = [seen EXCEPT ![w] = row]

\* Begin a call to the host of the row.  A host that is stale has no active
\* credential to resolve, so the request fails before it is sent.
CallPc(p, h) == IF hostState[h] = "stale" THEN AfterAmbiguous(p) ELSE p

otherVars == <<daemonVars, late, boundVars>>

-----------------------------------------------------------------------------
(* MachineService.create *)

\* findByIdempotency and insertRequested.  A row that is not 'requested' is
\* returned as a replay; a lost insert race reads the winner's row.
CreateBegin(c, m) ==
  /\ Start(c, m, "claim", Unread)
  /\ \/ InsertRequested(m)
     \/ state[m] = "requested" /\ UNCHANGED tableVars
  /\ UNCHANGED otherVars

CreateClaim(c) ==
  /\ pc[c] = "claim"
  /\ \/ ClaimCreate(job[c], c) /\ Goto(c, "reserve")
     \/ ~CanClaimCreate(job[c]) /\ Goto(c, "idle") /\ UNCHANGED tableVars
  /\ UNCHANGED otherVars

\* A reservation is followed by POST /internal/v1/machines.
CreateReserve(c) ==
  /\ pc[c] = "reserve"
  /\ \E h \in Hosts :
       /\ Reserve(job[c], h)
       /\ GotoWith(c, "create", [seen[c] EXCEPT !.host = h])
  /\ UNCHANGED otherVars

\* Mutant: an error of the scheduler does not stop the create.
CreateUnreserved(c) ==
  /\ pc[c] = "reserve"
  /\ Goto(c, "create")
  /\ UNCHANGED <<tableVars, otherVars>>

\* reserve throws: quota, capacity (reported availability or a skipped locked
\* host may hide a host that fits), a row that is no longer 'requested', or a
\* connection lost before or after the commit.  No reservation is known.
CreateNotReserved(c) ==
  /\ pc[c] = "reserve"
  /\ \/ UNCHANGED tableVars
     \/ \E h \in Hosts : Reserve(job[c], h)
  /\ Goto(c, "fail")
  /\ UNCHANGED otherVars

\* The host answers with the machine.
CreateAnswered(c) ==
  /\ pc[c] = "create"
  /\ \E v \in Runtimes :
       /\ CreateInternal(job[c], v)
       /\ GotoWith(c, "observe", [seen[c] EXCEPT !.vm = v])
  /\ UNCHANGED <<tableVars, late, boundVars>>

\* The host refuses with a definite 4xx.
CreateRejected(c) ==
  /\ pc[c] = "create"
  /\ CreateRefused(job[c])
  /\ Goto(c, "fail")
  /\ UNCHANGED <<tableVars, late, boundVars>>

CreateObserve(c) ==
  /\ pc[c] = "observe"
  /\ \E ready \in BOOLEAN : ObserveHost(job[c], seen[c].vm, ready)
  /\ Goto(c, "idle")
  /\ UNCHANGED otherVars

\* observeHost throws, its transaction committed or not, and the created
\* machine is destroyed again.
CreateObserveFails(c) ==
  /\ pc[c] = "observe"
  /\ \/ UNCHANGED tableVars
     \/ \E ready \in BOOLEAN : ObserveHost(job[c], seen[c].vm, ready)
  /\ Goto(c, CallPc("compensate", seen[c].host))
  /\ UNCHANGED otherVars

\* The compensating delete failed: leave the machine to the reconciler.
CreateAbandon(c) ==
  /\ pc[c] = "abandon"
  /\ LET from == {"starting", "running"} IN
       \/ Transition(job[c], from, "stopping")
       \/ ~CanTransition(job[c], from) /\ UNCHANGED tableVars
  /\ Goto(c, "unclaim")
  /\ UNCHANGED otherVars

\* Mutant: the reservation is released whoever settled the row.
CreateFailAndRelease(c) ==
  /\ pc[c] = "fail"
  /\ \/ FailCreate(job[c], c)
     \/ ~CanFailCreate(job[c], c) /\ UNCHANGED tableVars
  /\ Goto(c, IF seen[c].host # NoHost THEN "createRelease" ELSE "idle")
  /\ UNCHANGED otherVars

\* failCreate; the reservation is released only by whoever failed the row.
CreateFail(c) ==
  /\ pc[c] = "fail"
  /\ \/ /\ FailCreate(job[c], c)
        /\ Goto(c, IF seen[c].host # NoHost THEN "createRelease" ELSE "idle")
     \/ /\ ~CanFailCreate(job[c], c)
        /\ UNCHANGED tableVars
        /\ Goto(c, "unclaim")
  /\ UNCHANGED otherVars

CreateRelease(c) ==
  /\ pc[c] = "createRelease"
  /\ Release(job[c], seen[c].host)
  /\ Goto(c, "idle")
  /\ UNCHANGED otherVars

CreateUnclaim(c) ==
  /\ pc[c] = "unclaim"
  /\ ReleaseCreateClaim(job[c], c)
  /\ Goto(c, "idle")
  /\ UNCHANGED otherVars

-----------------------------------------------------------------------------
(* MachineService.destroy, for a DELETE or an expired machine. *)

DestroyBegin(d, m) ==
  /\ state[m] \notin Terminal \cup {"absent"}
  /\ Start(d, m, "stop", [Row(m) EXCEPT !.state = "absent"])  \* not read again
  /\ UNCHANGED <<tableVars, otherVars>>

\* The branches after the transition look at the row as it was read before.
DestroyStop(d) ==
  /\ pc[d] = "stop"
  /\ LET from == {"requested", "placing", "starting", "running"} IN
       \/ /\ Transition(job[d], from, "stopping")
          /\ \/ /\ seen[d].host # NoHost /\ seen[d].vm = 0
                /\ Goto(d, "idle")                    \* left to the reconciler
             \/ /\ seen[d].vm # 0
                /\ Goto(d, CallPc("destroy", seen[d].host))
             \/ /\ seen[d].host = NoHost
                /\ Goto(d, "stopped")
       \/ ~CanTransition(job[d], from) /\ Goto(d, "idle") /\ UNCHANGED tableVars
  /\ UNCHANGED otherVars

DestroyStopped(d) ==
  /\ pc[d] = "stopped"
  /\ \/ Transition(job[d], {"stopping"}, "stopped")
     \/ ~CanTransition(job[d], {"stopping"}) /\ UNCHANGED tableVars
  /\ Goto(d, IF seen[d].host # NoHost THEN "destroyRelease" ELSE "idle")
  /\ UNCHANGED otherVars

DestroyRelease(d) ==
  /\ pc[d] = "destroyRelease"
  /\ Release(job[d], seen[d].host)
  /\ Goto(d, "idle")
  /\ UNCHANGED otherVars

-----------------------------------------------------------------------------
(* MachineReconciler.reconcile *)

ReconcileBegin(r, m) ==
  /\ ClaimReconcile(m, r)
  /\ Start(r, m, CallPc(IF vmId[m] = 0 THEN "recover"
                        ELSE IF state[m] = "stopping" THEN "delete" ELSE "get",
                        host[m]), Row(m))
  /\ UNCHANGED otherVars

\* No host machine id: replay the create with the original key.
ReconcileRecovered(r) ==
  /\ pc[r] = "recover"
  /\ \E v \in Runtimes :
       /\ CreateInternal(job[r], v)
       /\ GotoWith(r, "persist", [seen[r] EXCEPT !.vm = v])
  /\ UNCHANGED <<tableVars, late, boundVars>>

ReconcilePersist(r) ==
  /\ pc[r] = "persist"
  /\ LET m == job[r] IN
       \/ /\ PersistRecovered(m, seen[r].vm)
          /\ GotoWith(r, IF state[m] = "stopping"
                         THEN CallPc("delete", seen[r].host) ELSE "present",
                      [seen[r] EXCEPT !.state = state[m]])
       \/ /\ ~CanPersistRecovered(m, seen[r].vm)
          /\ Goto(r, CallPc("orphan", seen[r].host))
          /\ UNCHANGED tableVars
  /\ UNCHANGED otherVars

\* GET /internal/v1/machines/:id
ReconcileGet(r) ==
  /\ pc[r] = "get"
  /\ Goto(r, IF seen[r].vm \in live[job[r]] THEN "present" ELSE "gone")
  /\ UNCHANGED <<tableVars, otherVars>>

\* The host knows the machine.  A running row only refreshes readiness; a
\* starting one becomes running, waits, or has passed its startup deadline.
\* (nehemiahd drops a machine from its registry before it becomes terminal,
\* so the branch for a terminal host status is never taken.)
ReconcilePresent(r) ==
  /\ pc[r] = "present"
  /\ \/ Goto(r, "unreconcile") /\ UNCHANGED tableVars
     \/ /\ seen[r].state = "starting"
        /\ \/ MarkRunning(job[r]) /\ Goto(r, "unreconcile")
           \/ Goto(r, CallPc("expire", seen[r].host)) /\ UNCHANGED tableVars
  /\ UNCHANGED otherVars

\* 404: lost if the row was running, failed if its startup deadline passed.
ReconcileGone(r) ==
  /\ pc[r] = "gone"
  /\ \/ seen[r].state = "running" /\ Goto(r, "finishLost")
     \/ seen[r].state = "starting" /\ \E p \in {"finishFailed", "unreconcile"} : Goto(r, p)
  /\ UNCHANGED <<tableVars, otherVars>>

FinishAs(p) == CASE p = "finishStopped" -> "stopped"
                 [] p = "finishFailed"  -> "failed"
                 [] OTHER               -> "lost"

\* finishAndRelease
ReconcileFinish(r) ==
  /\ pc[r] \in {"finishStopped", "finishFailed", "finishLost"}
  /\ \/ Finish(job[r], FinishAs(pc[r])) /\ Goto(r, "reconcileRelease")
     \/ ~CanFinish(job[r]) /\ Goto(r, "unreconcile") /\ UNCHANGED tableVars
  /\ UNCHANGED otherVars

ReconcileRelease(r) ==
  /\ pc[r] = "reconcileRelease"
  /\ Release(job[r], seen[r].host)
  /\ Goto(r, "unreconcile")
  /\ UNCHANGED otherVars

ReconcileEnd(r) ==
  /\ pc[r] = "unreconcile"
  /\ ReleaseReconcileClaim(job[r], r)
  /\ Goto(r, "idle")
  /\ UNCHANGED otherVars

-----------------------------------------------------------------------------
(* Calls every worker makes, and the network. *)

\* Where a worker goes once its delete succeeded; a 404 is a success for all
\* of them but the compensation of create.
AfterDestroyed(p) ==
  CASE p = "compensate" -> "fail"
    [] p = "destroy"    -> "stopped"
    [] p = "orphan"     -> "unreconcile"
    [] p = "delete"     -> "finishStopped"
    [] OTHER            -> "finishFailed"

AfterNotFound(p) == IF p = "compensate" THEN "abandon" ELSE AfterDestroyed(p)

\* DELETE /internal/v1/machines/:id
DestroyAnswered(w) ==
  /\ pc[w] \in DestroyCalls
  /\ \/ /\ DestroyInternal(job[w], seen[w].vm)
        /\ Goto(w, AfterDestroyed(pc[w]))
     \/ /\ seen[w].vm \notin live[job[w]]
        /\ Goto(w, AfterNotFound(pc[w]))
        /\ UNCHANGED daemonVars
  /\ UNCHANGED <<tableVars, late, boundVars>>

\* A request can still act on the host: the create key is unknown, or the
\* machine to destroy is alive.  Once false this stays false, except over a
\* restart, which no request survives.
MayAct(q) == IF q.op = "create" THEN createKey[q.m] = 0 ELSE q.vm \in live[q.m]

\* What is left of w's call when nobody waits for it.
Outstanding(w) ==
  {q \in Requests : /\ pc[w] \in Calls \ {"get"}
                    /\ q.op = IF pc[w] \in CreateCalls THEN "create" ELSE "destroy"
                    /\ q.m = job[w]
                    /\ q.vm = seen[w].vm
                    /\ MayAct(q)}

\* A timeout, a broken connection or a 5xx: the worker gives up, and the
\* request may be executed yet.
CallAmbiguous(w) ==
  /\ pc[w] \in Calls
  /\ late' = late \cup Outstanding(w)
  /\ Goto(w, AfterAmbiguous(pc[w]))
  /\ UNCHANGED <<tableVars, daemonVars, boundVars>>

\* A host executes a request whose sender has gone.
LateExecuted(q) ==
  /\ q \in late
  /\ late' = late \ {q}
  /\ \/ q.op = "create" /\ Boot(q.m)
     \/ q.op = "destroy" /\ DestroyInternal(q.m, q.vm)
     \/ UNCHANGED daemonVars
  /\ UNCHANGED <<tableVars, workerVars, boundVars>>

-----------------------------------------------------------------------------
(* The environment. *)

\* The process that runs w dies.
Crash(w) ==
  /\ pc[w] # "idle"
  /\ crashes < MaxCrashes
  /\ crashes' = crashes + 1
  /\ late' = late \cup Outstanding(w)
  /\ Goto(w, "idle")
  /\ UNCHANGED <<tableVars, daemonVars, restarts, outages>>

\* nehemiahd on h restarts.  Connections break, so no earlier request runs.
DaemonRestarts(h) ==
  /\ restarts < MaxRestarts
  /\ restarts' = restarts + 1
  /\ LET S == {m \in Machines : host[m] = h} IN
       /\ \E survivors \in SUBSET S : Restart(S, survivors)
       /\ late' = {q \in late : q.m \notin S}
  /\ UNCHANGED <<tableVars, workerVars, crashes, outages>>

\* Time passes for a claim; the reconciler sweeps a leaked reservation.
ClaimExpires(m) ==
  /\ CreateClaimExpires(m) \/ ReconcileClaimExpires(m)
  /\ UNCHANGED <<workerVars, otherVars>>

Sweep(m) == ReleaseLeaked(m) /\ UNCHANGED <<workerVars, otherVars>>

\* What a stale host leads to.
StaleHosts ==
  /\ MarkLostOnStaleHosts \/ \E h \in Hosts : HostReturns(h)
  /\ UNCHANGED <<workerVars, otherVars>>

\* The stale-host sweep finds a host without a recent heartbeat.
Outage(h) ==
  /\ outages < MaxOutages
  /\ outages' = outages + 1
  /\ MarkStale(h)
  /\ UNCHANGED <<daemonVars, workerVars, late, crashes, restarts>>

Expire(m) == Reap(m) /\ UNCHANGED <<tableVars, workerVars, late, boundVars>>

-----------------------------------------------------------------------------
CreateStep(c) ==
  \/ CreateClaim(c) \/ CreateReserve(c) \/ CreateNotReserved(c)
  \/ CreateAnswered(c) \/ CreateRejected(c)
  \/ CreateObserve(c) \/ CreateObserveFails(c) \/ CreateAbandon(c)
  \/ CreateFail(c) \/ CreateRelease(c) \/ CreateUnclaim(c)

DestroyStep(d) == DestroyStop(d) \/ DestroyStopped(d) \/ DestroyRelease(d)

ReconcileStep(r) ==
  \/ ReconcileRecovered(r) \/ ReconcilePersist(r) \/ ReconcileGet(r)
  \/ ReconcilePresent(r) \/ ReconcileGone(r) \/ ReconcileFinish(r)
  \/ ReconcileRelease(r) \/ ReconcileEnd(r)

\* The next step of a worker that is not idle.
WorkerStep(w) ==
  \/ w \in Creators /\ CreateStep(w)
  \/ w \in Destroyers /\ DestroyStep(w)
  \/ w \in Reconcilers /\ ReconcileStep(w)
  \/ DestroyAnswered(w)
  \/ CallAmbiguous(w)

Next ==
  \/ \E w \in Workers : WorkerStep(w) \/ Crash(w)
  \/ \E m \in Machines : \/ \E c \in Creators : CreateBegin(c, m)
                         \/ \E d \in Destroyers : DestroyBegin(d, m)
                         \/ \E r \in Reconcilers : ReconcileBegin(r, m)
  \/ \E q \in late : LateExecuted(q)
  \/ \E m \in Machines : ClaimExpires(m) \/ Sweep(m) \/ Expire(m)
  \/ StaleHosts
  \/ \E h \in Hosts : DaemonRestarts(h) \/ Outage(h)

Spec == Init /\ [][Next]_vars

\* The timers of main.ts keep running the reaper and the reconciler; a claim
\* of a dead process expires; every call returns or times out; a host that is
\* asked again and again answers a delete or a replayed create in the end; and
\* the host's TTL timer fires.  Nothing is assumed of outages, crashes, late
\* requests or of clients.
Fairness ==
  /\ \A w \in Workers : WF_vars(WorkerStep(w))
  /\ \A d \in Destroyers, m \in Machines : SF_vars(DestroyBegin(d, m))
  /\ \A r \in Reconcilers :
       /\ \A m \in Machines : SF_vars(ReconcileBegin(r, m))
       /\ SF_vars(ReconcileRecovered(r))
       /\ SF_vars(DestroyAnswered(r))
  /\ \A m \in Machines : WF_vars(ClaimExpires(m)) /\ WF_vars(Sweep(m)) /\ WF_vars(Expire(m))

FairSpec == Spec /\ Fairness

-----------------------------------------------------------------------------
(* Safety.  The invariants of the rows are in MachineTable. *)

\* Intent and reservation are committed before a host is asked for anything:
\* a runtime, or a request for one, exists only for a placed row.
IntentFirst ==
  \A m \in Machines :
    live[m] # {} \/ (\E q \in late : q.m = m) => host[m] # NoHost

\* Every step of every worker is one transaction that MachineTable allows, or
\* leaves the rows alone: a worker that releases, stops or marks a machine
\* running on the strength of an earlier read is entitled to it still.
ImplementsTable == TableSpec

-----------------------------------------------------------------------------
(* Liveness, under Fairness. *)

\* A machine whose host id is on record ends, and its capacity comes back,
\* whatever crashed or timed out on the way: destroy, the reaper and the
\* reconciler retry until one of them has the host's answer.  So does the capacity
\* of a row that ended without a host id: a create or delete that died between its
\* terminal transition and its release is swept by releaseLeakedReservations.
RecordedMachinesEnd ==
  \A m \in Machines :
    vmId[m] # 0 \/ (state[m] \in Terminal /\ host[m] # NoHost) ~>
      state[m] \in Terminal /\ released[m]

\* Every runtime that outlives its row (a late create, an unlucky
\* compensation, a delete that read a stale row) is gone in the end.
OrphansEnd == <>[](\A m \in Machines : state[m] \in Terminal => live[m] = {})

-----------------------------------------------------------------------------
(* What a document says and the code does not do. *)

\* docs/nehemiah/architecture.md:141: a 'stopped' row's host cleanup is confirmed.
\* destroy branches on the row it read before its own transition, so this is violated.
StoppedIsClean == \A m \in Machines : state[m] = "stopped" => live[m] = {}
=============================================================================
