------------------------------ MODULE MCMachines ------------------------------
(***************************************************************************)
(* Machines, their hosts and what they are made of, for TLC: the rows and  *)
(* their capacity, forks, extensions, metering, templates, volumes and the *)
(* host fleet.  The components with theorems are extended, so that what is *)
(* checked is what is proved.  A behaviour is of one part; the others rest *)
(* in their initial state, or their variables are not used.                *)
(***************************************************************************)
EXTENDS MachineTable, Fork, Extend, HostFleet, Templates, Volumes, Integers, FiniteSets, Sequences, TLC

CONSTANTS
  Parts,            \* the parts this run lets happen
  x1, x2            \* two of a kind

VARIABLES
  part,   \* the part this behaviour is of
  \* Extend
  spendNow, spendRow, spendExtendOp, spendVm, spendThrough, spendWorker, spendLate,
  spendBatch, spendAnswered, spendOver,
  \* Metering
  metNow, metVm, sent, machine, metHost, returns, meter, metStored, outbox, ledger,
  \* Templates
  temTpl, temVersion, temPub, temExports, temPuts, temObjects, temReplica, temAged,
  temInstalled, temUp, temRepl, temRemover, temMach, temFailures,
  \* Volumes
  volClock, volVol, volRes, volReq, volCaps, volUploads, volStored, volKept, volJob,
  volDeletion, volVolFaults

spendState ==
  <<spendNow, spendRow, spendExtendOp, spendVm, spendThrough, spendWorker, spendLate,
    spendBatch, spendAnswered, spendOver>>
metState ==
  <<metNow, metVm, sent, machine, metHost, returns, meter, metStored, outbox, ledger>>
pubState ==
  <<temTpl, temVersion, temPub, temExports, temPuts, temObjects, temReplica, temAged,
    temInstalled, temUp, temRepl, temRemover, temMach, temFailures>>
volState ==
  <<volClock, volVol, volRes, volReq, volCaps, volUploads, volStored, volKept, volJob,
    volDeletion, volVolFaults>>

\* The large machine takes twice the room of the small one and fits on h1 only; both
\* fit together nowhere.
UnevenDemand ==
  [S \in SUBSET {"small", "large"} |-> Cardinality(S) + (IF "large" \in S THEN 1 ELSE 0)]
UnevenRoom == [h1 |-> 2, h2 |-> 1]
\* The large host goes stale and returns while the small one stays ready.
TableStep == TableNext /\ hostState'["h2"] = hostState["h2"]

\* An administrator, a member and a key without the scope.
TemplateCallers ==
  {[kind |-> "user", scopes |-> {"templates:write"}, administers |-> TRUE],
   [kind |-> "user", scopes |-> {"templates:write"}, administers |-> FALSE],
   [kind |-> "api_key", scopes |-> {"templates:read"}, administers |-> FALSE]}

\* A fork whose children the tenant deletes as soon as they are visible.
FrkDel == INSTANCE Fork WITH
  Deletable <- {"c1"}, Faults <- {"rejects", "sourceEnds", "restarts", "slow"}

\* Two machines under a cap that both of them and an extension exceed.
Spend == INSTANCE Extend WITH
  Stuck <- {}, Ttl <- 1, BatchLimit <- 1, MaxRequest <- 2, Vms <- {x1, x2},
  Keys <- {"k1"}, Handlers <- {"w1"}, Extensions <- {2}, Cap <- 3,
  Reporting <- {x1, x2}, Lossy <- FALSE, MaxTime <- 2,
  now <- spendNow, row <- spendRow, extendOp <- spendExtendOp, vm <- spendVm,
  through <- spendThrough, worker <- spendWorker, late <- spendLate,
  batch <- spendBatch, answered <- spendAnswered, over <- spendOver
\* They are deleted, found gone or ended by their timers; the reaper is in the part above.
SpendStep == Spend!ExtendNext /\ spendBatch' = spendBatch

\* A lease measured the old way and by observations, across the cutover.
Met == INSTANCE Metering WITH
  MaxTime <- 2, MaxSeq <- 3, Window <- 2, Expires <- 1, Faults <- {"degraded"},
  MaxReturns <- 0, now <- metNow, vm <- metVm, host <- metHost, stored <- metStored
\* A host that comes back and sends observations that contradict each other.
Anom == INSTANCE Metering WITH
  MaxTime <- 1, MaxSeq <- 3, Window <- 2, Expires <- 1,
  Faults <- {"reset", "implausible"}, MaxReturns <- 1, now <- metNow, vm <- metVm,
  host <- metHost, stored <- metStored

\* Two requests publish the same version.
Pub == INSTANCE Templates WITH
  Templates <- {"t1", "t2"}, Replicators <- {}, Instances <- {}, MaxFailures <- 2,
  tpl <- temTpl, version <- temVersion, pub <- temPub, exports <- temExports,
  puts <- temPuts, objects <- temObjects, replica <- temReplica, aged <- temAged,
  installed <- temInstalled, up <- temUp, repl <- temRepl, remover <- temRemover,
  mach <- temMach, failures <- temFailures
\* A request whose answers from the store or the database are lost.
Out == INSTANCE Templates WITH
  Replicators <- {}, Removers <- {}, Instances <- {}, Outages <- TRUE, tpl <- temTpl,
  version <- temVersion, pub <- temPub, exports <- temExports, puts <- temPuts,
  objects <- temObjects, replica <- temReplica, aged <- temAged,
  installed <- temInstalled, up <- temUp, repl <- temRepl, remover <- temRemover,
  mach <- temMach, failures <- temFailures

\* Two requests reserve and upload revisions of one volume.
Vol == INSTANCE Volumes WITH
  Requests <- {x1, x2}, Reservations <- {"r1", "r2"}, DeleteWorkers <- {},
  VolumeTtl <- 9, Settlement <- 2, VolHorizon <- 4, Removes <- FALSE, Limit <- 2,
  MaxVolFaults <- 0, clock <- volClock, vol <- volVol, res <- volRes, req <- volReq,
  caps <- volCaps, uploads <- volUploads, stored <- volStored, kept <- volKept,
  job <- volJob, deletion <- volDeletion, volFaults <- volVolFaults
\* A volume deleted while a creation is retried and an upload is under way.
Late == INSTANCE Volumes WITH
  Requests <- {x1, x2}, DeleteWorkers <- {}, VolumeTtl <- 5, Retention <- 1,
  VolHorizon <- 3, Replays <- TRUE, MaxVolFaults <- 0, clock <- volClock, vol <- volVol,
  res <- volRes, req <- volReq, caps <- volCaps, uploads <- volUploads,
  stored <- volStored, kept <- volKept, job <- volJob, deletion <- volDeletion,
  volFaults <- volVolFaults

ASSUME ForkAssumption
ASSUME FrkDel!ForkAssumption
ASSUME ExtendAssumption
ASSUME FleetAssumption
ASSUME VolumesAssumption
ASSUME Spend!ExtendAssumption

spendStateUnused ==
  /\ spendNow = 0 /\ spendRow = 0 /\ spendExtendOp = 0 /\ spendVm = 0
  /\ spendThrough = 0 /\ spendWorker = 0 /\ spendLate = 0 /\ spendBatch = 0
  /\ spendAnswered = 0 /\ spendOver = 0
metStateUnused ==
  /\ metNow = 0 /\ metVm = 0 /\ sent = 0 /\ machine = 0 /\ metHost = 0 /\ returns = 0
  /\ meter = 0 /\ metStored = 0 /\ outbox = 0 /\ ledger = 0
pubStateUnused ==
  /\ temTpl = 0 /\ temVersion = 0 /\ temPub = 0 /\ temExports = 0 /\ temPuts = 0
  /\ temObjects = 0 /\ temReplica = 0 /\ temAged = 0 /\ temInstalled = 0 /\ temUp = 0
  /\ temRepl = 0 /\ temRemover = 0 /\ temMach = 0 /\ temFailures = 0
volStateUnused ==
  /\ volClock = 0 /\ volVol = 0 /\ volRes = 0 /\ volReq = 0 /\ volCaps = 0
  /\ volUploads = 0 /\ volStored = 0 /\ volKept = 0 /\ volJob = 0 /\ volDeletion = 0
  /\ volVolFaults = 0

-----------------------------------------------------------------------------
RunInit ==
  /\ part \in Parts
  /\ TableInit
  /\ ForkInit
  /\ ExtendInit
  /\ FleetInit
  /\ TemplatesInit
  /\ VolInit
  /\ IF part = "spend" THEN Spend!ExtendInit
     ELSE spendStateUnused
  /\ IF part = "metering" THEN Met!MeterInit
     ELSE IF part = "anomalies" THEN Anom!MeterInit
     ELSE metStateUnused
  /\ IF part = "publish" THEN Pub!TemplatesInit
     ELSE IF part = "outage" THEN Out!TemplatesInit
     ELSE pubStateUnused
  /\ IF part = "volume" THEN Vol!VolInit
     ELSE IF part = "late" THEN Late!VolInit
     ELSE volStateUnused

RunNext ==
  \/ /\ part = "table" /\ TableStep
     /\ UNCHANGED <<part, forkVars, extendVars, fleetVars, templatesVars, volVars,
                   spendState, metState, pubState, volState>>
  \/ /\ part = "fork" /\ ForkNext
     /\ UNCHANGED <<part, tableVars, extendVars, fleetVars, templatesVars, volVars,
                   spendState, metState, pubState, volState>>
  \/ /\ part = "fork_deletes" /\ FrkDel!ForkNext
     /\ UNCHANGED <<part, tableVars, extendVars, fleetVars, templatesVars, volVars,
                   spendState, metState, pubState, volState>>
  \/ /\ part = "extend" /\ ExtendNext
     /\ UNCHANGED <<part, tableVars, forkVars, fleetVars, templatesVars, volVars,
                   spendState, metState, pubState, volState>>
  \/ /\ part = "fleet" /\ FleetNext
     /\ UNCHANGED <<part, tableVars, forkVars, extendVars, templatesVars, volVars,
                   spendState, metState, pubState, volState>>
  \/ /\ part = "templates" /\ TemplatesNext
     /\ UNCHANGED <<part, tableVars, forkVars, extendVars, fleetVars, volVars,
                   spendState, metState, pubState, volState>>
  \/ /\ part = "deletion" /\ VolNext
     /\ UNCHANGED <<part, tableVars, forkVars, extendVars, fleetVars, templatesVars,
                   spendState, metState, pubState, volState>>
  \/ /\ part = "spend" /\ SpendStep
     /\ UNCHANGED <<part, tableVars, forkVars, extendVars, fleetVars, templatesVars,
                   volVars, metState, pubState, volState>>
  \/ /\ part = "metering" /\ Met!MeterNext
     /\ UNCHANGED <<part, tableVars, forkVars, extendVars, fleetVars, templatesVars,
                   volVars, spendState, pubState, volState>>
  \/ /\ part = "anomalies" /\ Anom!MeterNext
     /\ UNCHANGED <<part, tableVars, forkVars, extendVars, fleetVars, templatesVars,
                   volVars, spendState, pubState, volState>>
  \/ /\ part = "publish" /\ Pub!TemplatesNext
     /\ UNCHANGED <<part, tableVars, forkVars, extendVars, fleetVars, templatesVars,
                   volVars, spendState, metState, volState>>
  \/ /\ part = "outage" /\ Out!TemplatesNext
     /\ UNCHANGED <<part, tableVars, forkVars, extendVars, fleetVars, templatesVars,
                   volVars, spendState, metState, volState>>
  \/ /\ part = "volume" /\ Vol!VolNext
     /\ UNCHANGED <<part, tableVars, forkVars, extendVars, fleetVars, templatesVars,
                   volVars, spendState, metState, pubState>>
  \/ /\ part = "late" /\ Late!VolNext
     /\ UNCHANGED <<part, tableVars, forkVars, extendVars, fleetVars, templatesVars,
                   volVars, spendState, metState, pubState>>

runVars ==
  <<part, tableVars, forkVars, extendVars, fleetVars, templatesVars, volVars,
  spendState, metState, pubState, volState>>

RunSpec == RunInit /\ [][RunNext]_runVars

-----------------------------------------------------------------------------
\* Limits on sums hold although what they add up arrives late: what machines ran and
\* may still run stays within the spend cap, a machine found gone before its first report
\* left aside (billing/admission.ts, finishAndRelease), and the revisions of a volume stay
\* within its size as long as a reservation outlives its capability by what an
\* inspection and an aborted upload may lag (reserveWriteGrant).
WithinLimits ==
  /\ part = "spend" => Spend!CommittedWithinCap
  /\ part = "volume" => Vol!StoredWithinLimit

\* Every moment of a lease is charged at most once, from the boot to the end of the
\* VMM or, what the legacy producer charges, of the row; and without a gap once an
\* exact final observation closed the meter (billing/metering.ts).  The first two
\* hold of hosts that send damaged observations as well.
BilledOnce ==
  /\ part = "metering" =>
       /\ Met!BilledOnce /\ Met!BilledWhileRunning
       /\ Met!ExactFinalIsComplete /\ Met!FinalizedIsRecorded
  /\ part = "anomalies" => Anom!BilledOnce /\ Anom!BilledWhileRunning


\* docs/nehemiah/security-checklist.md:122 says virtual machines survive a restart of
\* the daemon: the children left of a batch of which the tenant deleted one do not.
SiblingsSurvive == [][part = "fork_deletes" => FrkDel!VisibleSurvives]_runVars

\* docs/nehemiah/architecture.md:261: replicas are reconstructable from storage, which
\* is the source of the artifacts; so a live template has its object.
LiveIsReconstructable == part = "outage" => Out!LiveHasObject

\* What there are two of is interchangeable: machines, keys of extensions, requests to
\* the fleet or to write a volume, and the workers that delete one.
Interchangeable == Permutations({x1, x2})
=============================================================================
