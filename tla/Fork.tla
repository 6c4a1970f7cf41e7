-------------------------------- MODULE Fork --------------------------------
(***************************************************************************)
(* One batch fork: MachineService.fork and its retries, reconcileFork, the *)
(* transactions of PostgresMachineRepository they run (domain/machines.ts) *)
(* and the daemon's fork reservation they replay.  Every transaction is    *)
(* one step; a worker may be overtaken by another one, by its own claim's  *)
(* expiry or by a late request between any two steps.  The children carry  *)
(* the same resources, so the batch counts its reservations in children.   *)
(***************************************************************************)
EXTENDS Naturals, FiniteSets

CONSTANTS
  Children,   \* the machines of the batch
  Requesters, \* requests POST /v1/machines/:id/fork with one idempotency key
  Reconciler, \* the reconciler that holds the advisory lock
  Deletable,  \* children the tenant may delete once they are visible
  Faults,     \* "crashes", "rejects", "sourceEnds", "restarts", "hostDown", "invalid", "warming",
              \* "slow", "unremoved"
  Others,     \* reserved on the host for other machines, in children
  MaxFaults,  \* bound on faults taken
  Nobody      \* no claim

\* A fork asks for one child at least.
ForkAssumption == IsFiniteSet(Children) /\ Children # {} /\ Others \in Nat

Parties == Requesters \cup {Reconciler}

VARIABLES
  forkOp,       \* the row of machine_fork_operations
  kids,         \* state of the children's rows of machines
  hostReserved, \* what is reserved on the host row, in children
  work,         \* what each worker is doing
  wire,         \* workers whose fork request is still on its way or at the host
  daemon,       \* the daemon: reservation, virtual machines, those it answered as cleaned
                \* although it kept them, source, reachability
  faults

forkVars == <<forkOp, kids, hostReserved, work, wire, daemon, faults>>

NoWork == [pc |-> "idle", cleanup |-> FALSE, token |-> FALSE, answer |-> "none",
         seen |-> {}, complete |-> TRUE]

ForkInit ==
  /\ forkOp = [state |-> "none", cleanup |-> FALSE, claim |-> Nobody, by |-> "none"]
  /\ kids = [c \in Children |-> "none"] /\ hostReserved = Others
  /\ work = [w \in Parties |-> NoWork] /\ wire = {} /\ faults = 0
  /\ daemon = [res |-> "none", vms |-> {}, kept |-> {}, source |-> TRUE, up |-> TRUE]

Goes(w, pc) == work' = [work EXCEPT ![w].pc = pc]
Ends(w) == work' = [work EXCEPT ![w] = NoWork]
Fault(kind) == kind \in Faults /\ faults < MaxFaults /\ faults' = faults + 1

-----------------------------------------------------------------------------
(* Transactions of the repository. *)

\* What a worker loads of the operation.
Loaded(w) == work' = [work EXCEPT ![w] =
  [NoWork EXCEPT !.pc = IF forkOp.cleanup THEN "claim" ELSE "call", !.cleanup = forkOp.cleanup]]

Forkable == daemon.source /\ daemon.up

\* beginFork: the first request allocates the batch, a retry finds it.
beginFork(w) ==
  /\ w \in Requesters /\ work[w].pc = "idle"
  /\ IF forkOp.state = "none"
     THEN /\ Forkable
          /\ forkOp' = [forkOp EXCEPT !.state = "pending"]
          /\ kids' = [c \in Children |-> "starting"]
          /\ hostReserved' = hostReserved + Cardinality(Children)
          /\ Loaded(w)
     ELSE forkOp.state = "pending" /\ Loaded(w) /\ UNCHANGED <<forkOp, kids, hostReserved>>
  /\ UNCHANGED <<wire, daemon, faults>>

\* Mutant: the reconciler takes only operations whose cleanup is not requested.
claimPendingForksFresh ==
  /\ work[Reconciler].pc = "idle" /\ forkOp.state = "pending" /\ ~forkOp.cleanup
  /\ Loaded(Reconciler)
  /\ UNCHANGED <<forkOp, kids, hostReserved, wire, daemon, faults>>

claimPendingForks ==
  /\ work[Reconciler].pc = "idle" /\ forkOp.state = "pending"
  /\ Loaded(Reconciler)
  /\ UNCHANGED <<forkOp, kids, hostReserved, wire, daemon, faults>>

\* requestForkCleanup, for whoever finds the operation pending and unclaimed.
CleanupClaimed(w) ==
  forkOp' = [forkOp EXCEPT !.cleanup = TRUE, !.claim = IF @ = Nobody THEN w ELSE @]
Claims(w) == forkOp.state = "pending" /\ forkOp.claim = Nobody

\* Mutant: the batch is released by whoever finds it pending.
completeForkCleanupUnclaimed(w) ==
  /\ work[w].pc = "complete"
  /\ kids' = [c \in Children |-> IF kids[c] \in {"starting", "running"} THEN "failed" ELSE kids[c]]
  /\ hostReserved' = IF hostReserved < Cardinality(Children) THEN 0 ELSE hostReserved - Cardinality(Children)
  /\ forkOp' = [forkOp EXCEPT !.state = "failed", !.by = "cleanup", !.claim = Nobody]
  /\ Ends(w)
  /\ UNCHANGED <<wire, daemon, faults>>

Released ==
  /\ kids' = [c \in Children |-> IF kids[c] \in {"starting", "running"} THEN "failed" ELSE kids[c]]
  /\ hostReserved' = IF hostReserved < Cardinality(Children) THEN 0 ELSE hostReserved - Cardinality(Children)

completeForkCleanup(w) ==
  /\ work[w].pc = "complete"
  /\ IF forkOp.state = "pending" /\ forkOp.claim = w
     THEN Released /\ forkOp' = [forkOp EXCEPT !.state = "failed", !.by = "cleanup", !.claim = Nobody]
     ELSE UNCHANGED <<forkOp, kids, hostReserved>>
  /\ Ends(w)
  /\ UNCHANGED <<wire, daemon, faults>>

failFork(w) ==
  /\ work[w].pc = "fail"
  /\ IF forkOp.state = "pending" /\ ~forkOp.cleanup
     THEN Released /\ forkOp' = [forkOp EXCEPT !.state = "failed", !.by = "rejected", !.claim = Nobody]
     ELSE UNCHANGED <<forkOp, kids, hostReserved>>
  /\ Ends(w)
  /\ UNCHANGED <<wire, daemon, faults>>


completeFork(w) ==
  /\ work[w].pc = "commit"
  /\ IF forkOp.state = "pending" /\ ~forkOp.cleanup
     THEN kids' = [c \in Children |-> "running"] /\ forkOp' = [forkOp EXCEPT !.state = "succeeded"]
     ELSE UNCHANGED <<forkOp, kids>>
  /\ Ends(w)
  /\ UNCHANGED <<hostReserved, wire, daemon, faults>>

releaseForkCleanupClaim(w) ==
  /\ work[w].pc \in {"release", "reclaim"}
  /\ forkOp' = [forkOp EXCEPT !.claim = IF @ = w /\ forkOp.state = "pending" THEN Nobody ELSE @]
  /\ IF work[w].pc = "release" THEN Ends(w)
     ELSE work' = [work EXCEPT ![w] = [@ EXCEPT !.pc = "finish", !.token = FALSE]]
  /\ UNCHANGED <<kids, hostReserved, wire, daemon, faults>>

\* The five minutes of a cleanup claim are over: its holder is gone, or it is
\* slow and still at work.
CleanupClaimExpires ==
  /\ forkOp.claim # Nobody /\ forkOp.state = "pending"
  /\ IF work[forkOp.claim].token THEN Fault("slow") ELSE UNCHANGED faults
  /\ forkOp' = [forkOp EXCEPT !.claim = Nobody]
  /\ UNCHANGED <<kids, hostReserved, work, wire, daemon>>

-----------------------------------------------------------------------------
(* MachineService.fork and reconcileFork. *)

\* An operation whose cleanup is requested is claimed first; a request goes on
\* without the claim, the reconciler does not.
ClaimFirst(w) ==
  /\ work[w].pc = "claim"
  /\ IF forkOp.state # "pending" THEN Ends(w) /\ UNCHANGED forkOp
     ELSE /\ CleanupClaimed(w)
          /\ IF ~Claims(w) /\ w = Reconciler THEN Ends(w)
             ELSE work' = [work EXCEPT ![w] =
                    [@ EXCEPT !.pc = "call", !.cleanup = TRUE, !.token = Claims(w)]]
  /\ UNCHANGED <<kids, hostReserved, wire, daemon, faults>>

Call(w) ==
  /\ work[w].pc = "call" /\ w \notin wire
  /\ wire' = wire \cup {w} /\ Goes(w, "calling")
  /\ UNCHANGED <<forkOp, kids, hostReserved, daemon, faults>>

Answered(w, answer, seen) ==
  work' = IF work[w].pc = "calling"
          THEN [work EXCEPT ![w] = [@ EXCEPT !.pc = "answered", !.answer = answer, !.seen = seen,
                                        !.complete = (seen = Children)]]
          ELSE work

\* The request timed out or its answer was lost: it may still be on its way.
TimesOut(w) ==
  /\ work[w].pc = "calling"
  /\ Answered(w, "ambiguous", {})
  /\ UNCHANGED <<forkOp, kids, hostReserved, wire, daemon, faults>>

\* What the answer leads to.  A complete batch that is not ready yet stays
\* pending (completeFork); past its deadline, or with a child that ended, it
\* counts as invalid.
AfterAnswer(k) ==
  CASE k.answer = "cleaned" -> "finish"
    [] k.answer = "invalid" -> "finish"
    [] k.answer = "ambiguous" -> IF k.token THEN "reclaim" ELSE "finish"
    [] k.answer = "rejected" -> IF ~k.cleanup THEN "fail" ELSE IF k.token THEN "release" ELSE "idle"
    [] k.answer = "warming" -> IF k.cleanup THEN "finish" ELSE "idle"
    [] k.answer = "ready" -> IF k.cleanup THEN "finish" ELSE "commit"

Decide(w) ==
  /\ work[w].pc = "answered"
  /\ LET next == AfterAnswer(work[w]) IN IF next = "idle" THEN Ends(w) ELSE Goes(w, next)
  /\ UNCHANGED <<forkOp, kids, hostReserved, wire, daemon, faults>>

\* finishForkCleanup: the claim, then the deletions, then the end.
AfterClaim(k) == IF k.answer = "cleaned" THEN "complete" ELSE "destroy"

finishForkCleanup(w) ==
  /\ work[w].pc = "finish"
  /\ IF work[w].cleanup /\ work[w].token
     THEN Goes(w, AfterClaim(work[w])) /\ UNCHANGED forkOp
     ELSE IF forkOp.state # "pending" THEN Ends(w) /\ UNCHANGED forkOp
     ELSE /\ CleanupClaimed(w)
          /\ IF Claims(w)
             THEN work' = [work EXCEPT ![w] =
                    [@ EXCEPT !.pc = AfterClaim(work[w]), !.cleanup = TRUE, !.token = TRUE]]
             ELSE Ends(w)
  /\ UNCHANGED <<kids, hostReserved, wire, daemon, faults>>

\* cleanupForkObservations deletes the observed children one after the other.
cleanupForkObservations(w, c, ok) ==
  /\ work[w].pc = "destroy" /\ c \in work[w].seen
  /\ ok => daemon.up
  /\ daemon' = [daemon EXCEPT !.vms = IF ok THEN @ \ {c} ELSE @]
  /\ work' = [work EXCEPT ![w].seen = @ \ {c}, ![w].complete = @ /\ ok]
  /\ UNCHANGED <<forkOp, kids, hostReserved, wire, faults>>

CleanupDone(w) ==
  /\ work[w].pc = "destroy" /\ work[w].seen = {}
  /\ Goes(w, IF work[w].complete THEN "complete" ELSE "release")
  /\ UNCHANGED <<forkOp, kids, hostReserved, wire, daemon, faults>>

\* The process dies, or its client goes away.
Crash(w) ==
  /\ work[w].pc # "idle" /\ Fault("crashes") /\ Ends(w)
  /\ UNCHANGED <<forkOp, kids, hostReserved, wire, daemon>>

-----------------------------------------------------------------------------
(* The daemon. *)

\* forkInternal without a reservation: accepted, refused, or unavailable.  A
\* reservation that cannot be saved ends like a batch that did not boot.
HostAccepts(w) ==
  /\ w \in wire /\ daemon.up /\ daemon.res = "none" /\ daemon.source
  /\ daemon' = [daemon EXCEPT !.res = "booting"]
  /\ UNCHANGED <<forkOp, kids, hostReserved, work, wire, faults>>

HostRejects(w) ==
  /\ w \in wire /\ daemon.up /\ daemon.res = "none"
  /\ IF daemon.source THEN Fault("rejects") ELSE UNCHANGED faults
  /\ wire' = wire \ {w} /\ Answered(w, "rejected", {})
  /\ UNCHANGED <<forkOp, kids, hostReserved, daemon>>

\* removeForkChildrenLocked and the save that commits it.  A full metering outbox
\* leaves every child, a child whose final observation fails is left, and after a
\* save that fails twice all are restored; the batch counts as cleaned all the same.
Remains ==
  IF "unremoved" \notin Faults THEN {{}}
  ELSE SUBSET (IF daemon.res = "booting" THEN Children ELSE daemon.vms)
CleanedBut(left) == [daemon EXCEPT !.res = "failed", !.vms = left, !.kept = left]

\* runManagedFork boots the whole batch or rolls it back; a batch whose success
\* cannot be saved is rolled back too.
HostBoots(ok) ==
  /\ daemon.res = "booting"
  /\ IF ok THEN daemon' = [daemon EXCEPT !.res = "succeeded", !.vms = Children]
     ELSE \E left \in Remains : daemon' = CleanedBut(left)
  /\ UNCHANGED <<forkOp, kids, hostReserved, work, wire, faults>>

\* forkReservationResult: a batch that is no longer complete is removed; a failed
\* one is answered as it failed.
HostReplays(w) ==
  /\ w \in wire /\ daemon.up /\ daemon.res \in {"succeeded", "failed"}
  /\ wire' = wire \ {w}
  /\ IF daemon.res = "succeeded" /\ daemon.vms = Children
     THEN Answered(w, "ready", Children) /\ UNCHANGED daemon
     ELSE /\ Answered(w, "cleaned", {})
          /\ IF daemon.res = "failed" THEN UNCHANGED daemon
             ELSE \E left \in Remains : daemon' = CleanedBut(left)
  /\ UNCHANGED <<forkOp, kids, hostReserved, faults>>

\* reap: what a failed batch left ends with its lease.
Reaped(c) ==
  /\ daemon.res = "failed" /\ c \in daemon.vms
  /\ daemon' = [daemon EXCEPT !.vms = @ \ {c}, !.kept = @ \ {c}]
  /\ UNCHANGED <<forkOp, kids, hostReserved, work, wire, faults>>

\* An answer that breaks the contract: part of the batch, other descriptors, a
\* child that ended.
HostAnswersInvalid(w) ==
  /\ w \in wire /\ daemon.up /\ daemon.res = "succeeded" /\ Fault("invalid")
  /\ wire' = wire \ {w}
  /\ \E seen \in SUBSET daemon.vms : Answered(w, "invalid", seen)
  /\ UNCHANGED <<forkOp, kids, hostReserved, daemon>>

\* The children of the batch are there and not all ready, as after a restart.
HostAnswersWarming(w) ==
  /\ w \in wire /\ daemon.up /\ daemon.res = "succeeded" /\ daemon.vms = Children /\ Fault("warming")
  /\ wire' = wire \ {w} /\ Answered(w, "warming", Children)
  /\ UNCHANGED <<forkOp, kids, hostReserved, daemon>>

\* Reconcile after a restart: what there is of a pending, failed or incomplete batch
\* is removed.  A daemon that cannot save that does not start.
HostRestarts ==
  /\ Fault("restarts") /\ daemon.res # "none"
  /\ IF daemon.res = "succeeded" /\ daemon.vms = Children THEN UNCHANGED daemon
     ELSE \E left \in Remains : daemon' = CleanedBut(left)
  /\ UNCHANGED <<forkOp, kids, hostReserved, work, wire>>

SourceEnds ==
  /\ daemon.source /\ Fault("sourceEnds") /\ daemon' = [daemon EXCEPT !.source = FALSE]
  /\ UNCHANGED <<forkOp, kids, hostReserved, work, wire>>

\* The host is stale, or its credential is revoked, for a while.
HostDown ==
  /\ daemon.up /\ Fault("hostDown") /\ daemon' = [daemon EXCEPT !.up = FALSE]
  /\ UNCHANGED <<forkOp, kids, hostReserved, work, wire>>
HostUp ==
  /\ ~daemon.up /\ daemon' = [daemon EXCEPT !.up = TRUE]
  /\ UNCHANGED <<forkOp, kids, hostReserved, work, wire, faults>>

-----------------------------------------------------------------------------
(* Children that are visible: MachineService.destroy and the reconciler. *)

ReleasedChild(c, state) ==
  kids' = [kids EXCEPT ![c] = state] /\ hostReserved' = hostReserved - 1

destroy(c) ==
  /\ c \in Deletable /\ forkOp.state = "succeeded" /\ kids[c] = "running" /\ daemon.up
  /\ daemon' = [daemon EXCEPT !.vms = @ \ {c}] /\ ReleasedChild(c, "stopped")
  /\ UNCHANGED <<forkOp, work, wire, faults>>

Lost(c) ==
  /\ forkOp.state = "succeeded" /\ kids[c] = "running" /\ daemon.up /\ c \notin daemon.vms
  /\ ReleasedChild(c, "lost")
  /\ UNCHANGED <<forkOp, work, wire, daemon, faults>>

-----------------------------------------------------------------------------

WorkerStep(w) ==
  \/ ClaimFirst(w) \/ Call(w) \/ Decide(w) \/ finishForkCleanup(w)
  \/ completeFork(w) \/ failFork(w) \/ completeForkCleanup(w)
  \/ releaseForkCleanupClaim(w) \/ CleanupDone(w)
Destroys(w, ok) == \E c \in Children : cleanupForkObservations(w, c, ok)
HostStep(w) == HostAccepts(w) \/ HostReplays(w)

ForkNext ==
  \/ \E w \in Parties :
       \/ beginFork(w) \/ WorkerStep(w) \/ TimesOut(w) \/ Crash(w)
       \/ Destroys(w, TRUE) \/ Destroys(w, FALSE)
       \/ HostStep(w) \/ HostRejects(w)
       \/ HostAnswersInvalid(w) \/ HostAnswersWarming(w)
  \/ claimPendingForks \/ CleanupClaimExpires
  \/ HostBoots(TRUE) \/ HostBoots(FALSE)
  \/ HostRestarts \/ SourceEnds \/ HostDown \/ HostUp
  \/ \E c \in Children : Reaped(c) \/ destroy(c) \/ Lost(c)

ForkSpec == ForkInit /\ [][ForkNext]_forkVars

-----------------------------------------------------------------------------
(* Properties. *)

Booked == {c \in Children : kids[c] \in {"starting", "running"}}

\* The host row carries one reservation for each child that is starting or
\* running, and none for the others, however workers, claims and late answers
\* interleave (beginFork, failFork, completeForkCleanup, release).
BookedOnce == hostReserved = Others + Cardinality(Booked)

\* A batch whose cleanup was confirmed left nothing on the host but what the daemon
\* itself kept when it answered that the batch was cleaned (forkReservationResult),
\* and nothing comes back: a request that arrives later replays the failed
\* reservation.
CleanedIsClean == forkOp.state = "failed" /\ forkOp.by = "cleanup" => daemon.vms \subseteq daemon.kept

\* What the scheduler and the tenant may rely on of a batch (beginFork ..
\* completeForkCleanup in domain/machines.ts).
ForkSafe == BookedOnce /\ CleanedIsClean

\* No worker, late request or restart takes a virtual machine from a batch that
\* became visible before the tenant deleted one of its children: a requested cleanup
\* keeps completeFork from committing, and a complete batch is not cleaned up
\* (forkReservationResult, Reconcile).
VisibleIsKept ==
  forkOp.state = "succeeded" /\ daemon.vms \ daemon.vms' # {} => \E c \in Children : kids'[c] = "stopped"

\* docs/nehemiah/security-checklist.md:122: Firecracker processes survive a restart of
\* the daemon; so a visible child ends with its own row only.
VisibleSurvives ==
  forkOp.state = "succeeded" => \A c \in daemon.vms \ daemon.vms' : kids'[c] = "stopped"
=============================================================================
