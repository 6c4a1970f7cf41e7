------------------------------ MODULE Metering ------------------------------
(***************************************************************************)
(* Usage of one machine lease: the host's cumulative observations and      *)
(* AuthoritativeMetering (billing/metering.ts), the legacy producer they   *)
(* replace (enqueueUsageIntervals and flushUsageOutbox of                  *)
(* jobs/reconcile-machines.ts) and the closing of a lease whose host was   *)
(* lost.  Time is a small clock shared by host and control plane; runtime  *)
(* is the time since the meter's start.  Observations are delivered in any *)
(* order and any number of times.  A batch is taken one observation at a   *)
(* time, and egress, which is billed with the same deltas, is left out.    *)
(***************************************************************************)
EXTENDS Naturals, FiniteSets, SequencesExt

CONSTANTS
  MaxTime,     \* bound on the clock
  MaxSeq,      \* bound on observations of the lease
  Window,      \* maximumForwardSequenceWindow
  Expires,     \* expires_at of the machine
  Faults,      \* kinds of observation the host may send besides "exact"
  MaxReturns   \* bound on hosts brought back by the operator

VARIABLES
  now,
  vm,       \* on the host: when the VMM booted and ended
  sent,     \* observations the host has written
  machine,  \* the row of machines
  host,     \* "up", "stale" or "quarantined"
  returns,
  meter,    \* the row of machine_meter_state
  stored,   \* host_usage_observations
  outbox,   \* usage_outbox
  ledger    \* usage_events: intervals and where they come from

meterVars == <<now, vm, sent, machine, host, returns, meter, stored, outbox, ledger>>

Never == MaxTime + 1
Terminal == {"stopped", "lost"}
Interval(src, seq, from, to) == [src |-> src, seq |-> seq, from |-> from, to |-> to]

NoMeter == [known |-> FALSE, start |-> FALSE, final |-> FALSE, closed |-> FALSE,
            quarantined |-> FALSE, last |-> 0, projected |-> 0, end |-> Never]

MeterInit ==
  /\ now = 0 /\ host = "up" /\ returns = 0
  /\ vm = [boot |-> Never, end |-> Never, began |-> Never]
  /\ machine = [state |-> "starting", started |-> Never, stopped |-> Never,
                checkpoint |-> Never, finalized |-> FALSE, unusable |-> FALSE]
  /\ sent = {} /\ meter = NoMeter /\ stored = {} /\ outbox = {} /\ ledger = {}

-----------------------------------------------------------------------------
(* The machine and its host. *)

\* The clock starts with the boot.
Tick == now < MaxTime /\ vm.boot # Never /\ now' = now + 1
        /\ UNCHANGED <<vm, sent, machine, host, returns, meter, stored, outbox, ledger>>

VmBoots ==
  /\ vm.boot = Never /\ vm' = [vm EXCEPT !.boot = now]
  /\ UNCHANGED <<now, sent, machine, host, returns, meter, stored, outbox, ledger>>

LastSeq == Cardinality({o.seq : o \in sent})
Observation(kind, how, runtime) ==
  [seq |-> LastSeq + 1, kind |-> kind, how |-> how, runtime |-> runtime, at |-> now,
   early |-> FALSE]

\* LastRuntimeNS: the high-water mark the daemon has persisted.
LastRuntime == Max({o.runtime : o \in sent})

\* The daemon starts the meter with the VMM, or later when it was upgraded.
MeterStarts ==
  /\ vm.boot # Never /\ vm.end = Never /\ vm.began = Never
  /\ vm' = [vm EXCEPT !.began = now]
  /\ sent' = {Observation("start", "exact", 0)}
  /\ UNCHANGED <<now, machine, host, returns, meter, stored, outbox, ledger>>

Checkpoints(how) ==
  /\ vm.began < now /\ vm.end = Never /\ LastSeq < MaxSeq - 1
  /\ sent' = sent \cup {Observation("checkpoint", how, now - vm.began)}
  /\ UNCHANGED <<now, vm, machine, host, returns, meter, stored, outbox, ledger>>

\* A host whose state was damaged writes another payload under a used sequence.
Rewrites(o) ==
  /\ "reset" \in Faults /\ o.kind = "checkpoint" /\ o.how = "exact"
  /\ sent' = sent \cup {[o EXCEPT !.how = "reset"]}
  /\ UNCHANGED <<now, vm, machine, host, returns, meter, stored, outbox, ledger>>

\* The VMM ends on request or at its expiry, exactly metered; or with the last
\* defensible counters: those of now when only a counter could not be read, the
\* persisted ones when a restart finds the VMM gone (finalizePersistedMachine).
VmEnds(how) ==
  /\ vm.boot # Never /\ vm.end = Never
  /\ IF how = "exact" THEN machine.state = "stopping" \/ now >= Expires ELSE how \in Faults
  /\ vm' = [vm EXCEPT !.end = now]
  /\ IF vm.began = Never THEN UNCHANGED sent
     ELSE \E runtime \in {now - vm.began} \cup (IF how = "degraded" THEN {LastRuntime} ELSE {}) :
            sent' = sent \cup {Observation("final", how, runtime)}
  /\ UNCHANGED <<now, machine, host, returns, meter, stored, outbox, ledger>>

MarkRunning ==
  /\ machine.state = "starting" /\ vm.boot # Never /\ host = "up"
  /\ machine' = [machine EXCEPT !.state = "running", !.started = vm.boot]
  /\ UNCHANGED <<now, vm, sent, host, returns, meter, stored, outbox, ledger>>

Stop ==
  /\ machine.state = "running" /\ machine' = [machine EXCEPT !.state = "stopping"]
  /\ UNCHANGED <<now, vm, sent, host, returns, meter, stored, outbox, ledger>>

Stopped ==
  /\ machine.state = "stopping" /\ vm.end # Never
  /\ machine' = [machine EXCEPT !.state = "stopped", !.stopped = now]
  /\ UNCHANGED <<now, vm, sent, host, returns, meter, stored, outbox, ledger>>

HostGoesStale ==
  /\ host = "up" /\ host' = "stale"
  /\ UNCHANGED <<now, vm, sent, machine, returns, meter, stored, outbox, ledger>>

\* The operator activates the host again, after rotation if it was quarantined.
HostReturns ==
  /\ host # "up" /\ returns < MaxReturns /\ host' = "up" /\ returns' = returns + 1
  /\ UNCHANGED <<now, vm, sent, machine, meter, stored, outbox, ledger>>

-----------------------------------------------------------------------------
(* AuthoritativeMetering.ingest: a function of the rows it locks. *)

Rows == [meter |-> meter, machine |-> machine, outbox |-> outbox, ledger |-> ledger, bad |-> {}]

\* A stored observation keeps from its first receipt whether that was before the
\* machine's expiry; received_at decides nothing else.
Received(o) == [o EXCEPT !.early = (o.kind = "final" /\ now < Expires)]

\* observationIntegrityReason of an observation as received: rates beyond what
\* the host can do, and a final observation before the machine ended.
Implausible(m, o) ==
  \/ o.how = "implausible"
  \/ /\ m.start /\ o.kind = "final" /\ machine.state \notin Terminal \cup {"stopping"}
     /\ o.how = "exact" => o.early

\* processObservation's anomalies: quarantine, closed or finished lease, wrong
\* start, counters or clocks that went back.
Anomaly(m, o) ==
  \/ m.quarantined \/ m.closed
  \/ ~m.start /\ (o.seq # 1 \/ o.kind # "start")
  \/ m.start /\ o.kind = "start"
  \/ m.final
  \/ o.how = "reset" \/ Implausible(m, o)

LegacyStart(r) == IF r.checkpoint # Never THEN r.checkpoint ELSE r.started

\* closeLegacyPrefix and the start of the meter: the legacy producer bills up to
\* the boundary, and what it billed past the host's start counts as projected.
closeLegacyPrefix(S, o) ==
  LET legacy == LegacyStart(S.machine)
      boundary == IF legacy # Never /\ legacy > o.at THEN legacy ELSE o.at
      row == [src |-> "cutover", from |-> legacy, to |-> boundary, final |-> FALSE, status |-> "new"]
  IN [S EXCEPT
        !.outbox = IF legacy < boundary THEN @ \cup {row} ELSE @,
        !.machine.checkpoint = IF @ # Never /\ @ > boundary THEN @ ELSE boundary,
        !.meter.projected = boundary - o.at,
        !.meter.end = boundary]

\* The part of the cumulative runtime that was not projected yet, from the end of
\* the last period on.
Billed(S, o) ==
  LET m == S.meter
      delta == IF o.runtime > m.projected THEN o.runtime - m.projected ELSE 0
      to == m.end + delta
  IN [S EXCEPT
        !.ledger = IF delta = 0 THEN @ ELSE @ \cup {Interval("host", o.seq, m.end, to)},
        !.meter.projected = m.projected + delta, !.meter.end = to,
        !.meter.final = (o.kind = "final"),
        !.machine.checkpoint = IF o.kind = "final" THEN to ELSE @,
        !.machine.finalized = (@ \/ o.kind = "final"),
        !.meter.quarantined = (o.how = "degraded"),
        !.bad = IF o.how = "degraded" THEN @ \cup {o.seq} ELSE @]

\* processObservation of the next observation in order.
processObservation(S, o) ==
  LET N == [S EXCEPT !.meter.last = o.seq] IN
  IF Anomaly(S.meter, o)
  THEN [N EXCEPT !.meter.quarantined = TRUE, !.bad = @ \cup {o.seq}]
  ELSE IF o.kind = "start" THEN closeLegacyPrefix([N EXCEPT !.meter.start = TRUE], o)
  ELSE Billed(N, o)

\* The observations that can be processed now: from the high-water mark on,
\* without a gap.
Contiguous(m, obs) ==
  {o \in obs : o.seq > m.last /\ \A k \in (m.last + 1)..o.seq : \E p \in obs : p.seq = k}
InOrder(obs) == SetToSortSeq(obs, LAMBDA a, b : a.seq < b.seq)

\* A violation of admission or integrity takes the host out of service as well.
Quarantines ==
  /\ meter' = [meter EXCEPT !.known = TRUE, !.quarantined = TRUE]
  /\ host' = "quarantined"
  /\ UNCHANGED <<machine, outbox, ledger>>

Violates(o) ==
  \/ o.seq > meter.last + Window
  \/ o.seq = meter.last + 1 /\ Implausible(meter, Received(o))
  \/ \E p \in stored : p.seq = o.seq /\ [p EXCEPT !.early = FALSE] # o

\* POST /internal/v1/hosts/:id/usage-observations.  A request that authenticated
\* before the host went stale is still taken.
ingest(o) ==
  /\ host # "quarantined"
  /\ IF Violates(o) THEN Quarantines /\ UNCHANGED stored
     ELSE LET all == IF \E p \in stored : p.seq = o.seq THEN stored ELSE stored \cup {Received(o)}
              S == FoldLeft(processObservation, [Rows EXCEPT !.meter.known = TRUE],
                            InOrder(Contiguous(meter, all)))
          IN
          /\ stored' = all
          /\ meter' = S.meter /\ machine' = S.machine /\ outbox' = S.outbox /\ ledger' = S.ledger
          /\ host' = IF o.seq \in S.bad THEN "quarantined" ELSE host
  /\ UNCHANGED <<now, vm, sent, returns>>

-----------------------------------------------------------------------------
(* Loss of the host. *)

\* closeHostLoss: closes at the last accepted boundary.
LossClosed(r) ==
  IF ~meter.start THEN UNCHANGED meter /\ machine' = r
  ELSE /\ meter' = IF meter.final THEN meter ELSE [meter EXCEPT !.closed = TRUE]
       /\ machine' = [r EXCEPT !.checkpoint = IF meter.end # Never THEN meter.end ELSE @,
                               !.finalized = TRUE]

LostAt == IF meter.end # Never THEN meter.end
          ELSE IF machine.started # Never THEN machine.started ELSE 0

\* markLostOnStaleHosts: the row first, its meter in the next transaction.
MarkLostOnStaleHost ==
  /\ host # "up" /\ machine.state \notin Terminal
  /\ machine' = [machine EXCEPT !.state = "lost", !.stopped = LostAt]
  /\ UNCHANGED <<now, vm, sent, host, returns, meter, stored, outbox, ledger>>

\* finishAndRelease(.., 'lost', ..): the host no longer has the running machine;
\* the meter is closed first.
CloseGone ==
  /\ host = "up" /\ machine.state = "running" /\ vm.end # Never
  /\ LossClosed(machine)
  /\ UNCHANGED <<now, vm, sent, host, returns, stored, outbox, ledger>>

\* The start may have been accepted after closeHostLoss found nothing to close.
Cutoffs == (IF meter.closed \/ meter.final THEN {meter.end} ELSE {})
             \cup (IF meter.closed THEN {} ELSE {machine.started})

FinishGone ==
  /\ host = "up" /\ machine.state = "running" /\ vm.end # Never
  /\ \E at \in Cutoffs : machine' = [machine EXCEPT !.state = "lost", !.stopped = at]
  /\ UNCHANGED <<now, vm, sent, host, returns, meter, stored, outbox, ledger>>

\* Mutant: only machines that are 'lost' are closed.
closeUnfinalizedLostOnly ==
  /\ machine.state = "lost" /\ ~machine.finalized /\ meter.start
  /\ LossClosed(machine)
  /\ UNCHANGED <<now, vm, sent, host, returns, stored, outbox, ledger>>

closeUnfinalizedAuthoritativeTerminals ==
  /\ machine.state \in Terminal /\ ~machine.finalized /\ meter.start
  /\ machine.state = "lost" \/ host # "up"
  /\ LossClosed(machine)
  /\ UNCHANGED <<now, vm, sent, host, returns, stored, outbox, ledger>>

-----------------------------------------------------------------------------
(* The legacy producer, for leases without an accepted start. *)

Enqueued(src, to) ==
  /\ outbox' = outbox \cup {[src |-> src, from |-> LegacyStart(machine), to |-> to,
                             final |-> (src = "final"), status |-> "new"]}
  /\ machine' = [machine EXCEPT !.checkpoint = to]

\* Mutant: leases with an accepted start stay with the legacy producer.
LegacyAlways == machine.started # Never /\ ~machine.unusable

Legacy == machine.started # Never /\ ~machine.unusable /\ ~meter.start

enqueueFinal ==
  /\ Legacy /\ machine.state \in Terminal /\ ~machine.finalized
  /\ ~\E o \in outbox : o.final
  /\ IF LegacyStart(machine) > machine.stopped
     THEN machine' = [machine EXCEPT !.unusable = TRUE] /\ UNCHANGED outbox
     ELSE Enqueued("final", machine.stopped)
  /\ UNCHANGED <<now, vm, sent, host, returns, meter, stored, ledger>>

enqueueCheckpoint ==
  /\ Legacy /\ machine.state = "running" /\ LegacyStart(machine) < now
  /\ Enqueued("checkpoint", now)
  /\ UNCHANGED <<now, vm, sent, host, returns, meter, stored, ledger>>

SetStatus(o, status) == (outbox \ {o}) \cup {[o EXCEPT !.status = status]}

\* flushUsageOutbox claims a row and writes its events; a final row waits for the
\* others, and a row claimed again writes under the same keys.
recordMachineRuntime(o) ==
  /\ o.status = "new"
  /\ o.final => \A p \in outbox : p.final \/ p.status = "done"
  /\ ledger' = IF o.from < o.to THEN ledger \cup {Interval(o.src, 0, o.from, o.to)} ELSE ledger
  /\ outbox' = SetStatus(o, "recorded")
  /\ UNCHANGED <<now, vm, sent, machine, host, returns, meter, stored>>

FlushDone(o) ==
  /\ o.status = "recorded"
  /\ outbox' = SetStatus(o, "done")
  /\ machine' = [machine EXCEPT !.finalized =
       @ \/ ((\E p \in outbox' : p.final) /\ \A p \in outbox' : p.status = "done")]
  /\ UNCHANGED <<now, vm, sent, host, returns, meter, stored, ledger>>

\* The worker fails or its claim expires after events were written.
FlushRetried(o) ==
  /\ o.status = "recorded"
  /\ outbox' = SetStatus(o, "new")
  /\ UNCHANGED <<now, vm, sent, machine, host, returns, meter, stored, ledger>>

-----------------------------------------------------------------------------

Deliver == \E o \in sent : ingest(o)
Flush == \E o \in outbox : recordMachineRuntime(o) \/ FlushDone(o)
Enqueue == enqueueFinal \/ enqueueCheckpoint

MeterNext ==
  \/ Tick \/ VmBoots \/ MeterStarts \/ MarkRunning \/ Stop \/ Stopped
  \/ HostGoesStale \/ HostReturns
  \/ \E how \in {"exact"} \cup (Faults \ {"degraded"}) : Checkpoints(how)
  \/ \E o \in sent : Rewrites(o)
  \/ \E how \in {"exact"} \cup Faults : VmEnds(how)
  \/ Deliver \/ Enqueue \/ Flush
  \/ \E o \in outbox : FlushRetried(o)
  \/ MarkLostOnStaleHost \/ CloseGone \/ FinishGone \/ closeUnfinalizedAuthoritativeTerminals

MeterSpec == MeterInit /\ [][MeterNext]_meterVars

\* A host that is up resends what it wrote; the reconciler runs again and again,
\* and its workers do not fail for ever.
MeterFairSpec ==
  /\ MeterSpec
  /\ WF_meterVars(Tick) /\ WF_meterVars(MarkLostOnStaleHost)
  /\ \A k \in 1..MaxSeq : WF_meterVars(host = "up" /\ \E o \in sent : o.seq = k /\ ingest(o))
  /\ WF_meterVars(closeUnfinalizedAuthoritativeTerminals) /\ WF_meterVars(enqueueFinal)
  /\ WF_meterVars(\E o \in outbox : recordMachineRuntime(o))
  /\ \A k \in {"cutover", "checkpoint", "final"} :
       SF_meterVars(\E o \in outbox : o.src = k /\ FlushDone(o))

-----------------------------------------------------------------------------
(* Properties. *)

Charges == {Interval(o.src, 0, o.from, o.to) : o \in outbox} \cup ledger
Covered(i) == i.from..(i.to - 1)

\* No moment of a lease is charged twice, by two observations, by the legacy
\* producer twice or by both, however observations are reordered, repeated and
\* delayed across the cutover (processObservation, closeLegacyPrefix).
BilledOnce ==
  \A i, j \in Charges : i # j => Covered(i) \cap Covered(j) = {}

\* Time is charged from the boot of the VMM on and never ahead of the clock.  What
\* the host metered, and the prefix the legacy producer is left with at the
\* cutover, ends with the VMM; what the legacy producer charges by itself ends when
\* the row was stopped, and its final interval where the row says the machine ended.
BilledWhileRunning ==
  \A i \in Charges :
    /\ i.from >= vm.boot /\ i.to <= now
    /\ i.src \in {"host", "cutover"} => i.to <= vm.end
    /\ machine.state = "stopped" \/ i.src = "final" => i.to <= machine.stopped

\* A meter closed by an exact final observation has charged every moment from
\* the meter's start to the end of the VMM (no gap at the cutover).
ExactFinalIsComplete ==
  meter.final /\ ~meter.quarantined =>
    vm.began..(vm.end - 1) \subseteq UNION {Covered(i) : i \in Charges}

\* Nothing is charged after the meter's final observation or its closing by
\* host loss (observations after closure quarantine the lease).
ClosedMeterChargesNothing ==
  meter.final \/ meter.closed => Charges' = Charges

\* When a lease that is metered the legacy way is finalized, all of its intervals
\* are in the ledger (flushUsageOutbox).
FinalizedIsRecorded ==
  machine.finalized /\ ~meter.start =>
    \A o \in outbox : o.from < o.to => Interval(o.src, 0, o.from, o.to) \in ledger

\* The usage of every machine that ran and ended is finalized, or flagged for the
\* operator, whoever metered it and wherever its host went (enqueueUsageIntervals,
\* flushUsageOutbox, closeUnfinalizedAuthoritativeTerminals).
UsageIsSettled ==
  (machine.state \in Terminal /\ machine.started # Never)
    ~> machine.finalized \/ machine.unusable \/ meter.quarantined

=============================================================================
