----------------------- MODULE MachineLifecycleProofs -----------------------
(***************************************************************************)
(* Every step of the lifecycle is a transaction that MachineTable allows   *)
(* and a call that HostDaemon allows, so the theorems about the rows hold  *)
(* of the whole system.  What makes it true is  WorkerInv : which parts of *)
(* an old read a worker may still rely on.                                 *)
(***************************************************************************)
EXTENDS MachineLifecycle, MachineTableProofs

\* What a worker at p may rely on, about machine m and the row it once read.
\* A host it has seen is still the machine's host; a machine it has stopped is
\* still stopping or over; a machine it is about to release is over; a host id
\* that was on record still is.
Entitled(m, row, p) ==
  /\ m \in Machines
  /\ row.host # NoHost => host[m] = row.host
  /\ p \in {"create", "observe", "compensate"} \cup ReconcilePcs => row.host # NoHost
  /\ p \in {"observe", "persist"} => row.vm # 0
  /\ p \in {"get", "present"} => vmId[m] # 0
  /\ p \in {"destroy", "stopped"} => state[m] \in {"stopping"} \cup Terminal
  /\ p \in {"createRelease", "destroyRelease", "reconcileRelease"}
       => row.host # NoHost /\ state[m] \in Terminal

WorkerInv == \A w \in Workers : pc[w] # "idle" => Entitled(job[w], seen[w], pc[w])

WorkerTypeOK ==
  /\ pc \in [Workers -> Pcs]
  /\ job \in [Workers -> Machines \cup {NoMachine}]
  /\ seen \in [Workers -> Rows]

LifeInv ==
  /\ TableInv
  /\ DaemonTypeOK
  /\ WorkerTypeOK
  /\ WorkerInv
  /\ late \subseteq Requests

\* The worker's part of LifeInv, which a worker's step has to restore.
WorkersOK == WorkerTypeOK /\ WorkerInv

-----------------------------------------------------------------------------
(* Moving a worker. *)

\* Nothing that happens to the rows takes away what a worker relies on.
LEMMA Stays ==
  ASSUME LifeInv, [TableNext]_tableVars, NEW m, NEW row, NEW p, Entitled(m, row, p)
  PROVE  Entitled(m, row, p)'
<1>1. Onward /\ KeepsIds
  BY TableOnward, TableKeepsIds DEF LifeInv
<1> QED
  BY <1>1 DEF Entitled, Onward, KeepsIds, Terminal

\* So the other workers stand by while w moves.
LEMMA OneMoves ==
  ASSUME LifeInv, [TableNext]_tableVars, NEW w \in Workers,
         pc'[w] # "idle" => Entitled(job[w], seen[w], pc[w])',
         \A u \in Workers \ {w} :
           pc'[u] = pc[u] /\ job'[u] = job[u] /\ seen'[u] = seen[u]
  PROVE  WorkerInv'
<1>1. ASSUME NEW u \in Workers \ {w}, pc'[u] # "idle"
      PROVE  Entitled(job[u], seen[u], pc[u])'
  <2>1. PICK m, row, p : m = job[u] /\ row = seen[u] /\ p = pc[u]
    OBVIOUS
  <2>2. Entitled(m, row, p)
    BY <1>1, <2>1 DEF LifeInv, WorkerInv, Entitled
  <2>3. Entitled(m, row, p)'
    BY <2>2, Stays
  <2> QED
    BY <2>1, <2>3 DEF Entitled
<1> QED
  BY <1>1 DEF WorkerInv

\* Goto an entitled place.
LEMMA Moves ==
  ASSUME LifeInv, [TableNext]_tableVars, NEW w \in Workers, NEW p \in Pcs, Goto(w, p),
         NEW m, NEW row, m = job[w], row = seen[w],
         p # "idle" => Entitled(m, row, p)'
  PROVE  WorkersOK'
<1>1. Unread \in Rows
  BY BootsAssumption DEF Unread, Rows, States
<1>2. WorkerTypeOK'
  BY <1>1 DEF LifeInv, WorkerTypeOK, Goto
<1>3. /\ pc'[w] = p
      /\ p # "idle" => job'[w] = m /\ seen'[w] = row
      /\ \A u \in Workers \ {w} :
           pc'[u] = pc[u] /\ job'[u] = job[u] /\ seen'[u] = seen[u]
  BY DEF LifeInv, WorkerTypeOK, Goto
<1>4. pc'[w] # "idle" => Entitled(job[w], seen[w], pc[w])'
  BY <1>3 DEF Entitled
<1> QED
  BY <1>2, <1>3, <1>4, OneMoves DEF WorkersOK

\* Start, or GotoWith, with an entitled row.
LEMMA MovesWith ==
  ASSUME LifeInv, [TableNext]_tableVars, NEW w \in Workers, NEW p \in Pcs,
         NEW m \in Machines, NEW row \in Rows,
         \/ Start(w, m, p, row)
         \/ GotoWith(w, p, row) /\ job[w] = m,
         Entitled(m, row, p)'
  PROVE  WorkersOK'
<1>2. WorkerTypeOK'
  BY DEF LifeInv, WorkerTypeOK, Start, GotoWith
<1>3. /\ pc'[w] = p
      /\ job'[w] = m /\ seen'[w] = row
      /\ \A u \in Workers \ {w} :
           pc'[u] = pc[u] /\ job'[u] = job[u] /\ seen'[u] = seen[u]
  BY DEF LifeInv, WorkerTypeOK, Start, GotoWith
<1>4. pc'[w] # "idle" => Entitled(job[w], seen[w], pc[w])'
  BY <1>3 DEF Entitled
<1> QED
  BY <1>2, <1>3, <1>4, OneMoves DEF WorkersOK

-----------------------------------------------------------------------------
(* MachineService.create *)

\* Every step of a create is an allowed transaction and keeps its worker
\* entitled to the next one.
LEMMA CreateImplements ==
  ASSUME LifeInv, NEW c \in Workers, CreateStep(c)
  PROVE  [TableNext]_tableVars /\ WorkersOK'
<1>0. PICK m, row, p : m = job[c] /\ row = seen[c] /\ p = pc[c]
  OBVIOUS
<1>1. p # "idle" => m \in Machines /\ row \in Rows /\ Entitled(m, row, p)
  BY <1>0 DEF LifeInv, WorkerInv, WorkerTypeOK, Entitled
<1> USE <1>0
<1>2. CASE CreateClaim(c)
  <2>1. p = "claim" /\ Entitled(m, row, p) /\ m \in Machines
    BY <1>1, <1>2 DEF CreateClaim
  <2>2. [TableNext]_tableVars
    BY <1>2, <2>1 DEF CreateClaim, TableNext, Placement
  <2>3. Entitled(m, row, "reserve")' /\ {"reserve", "idle"} \subseteq Pcs
    BY <2>1, <2>2, Stays DEF Entitled, Pcs, CreatePcs, ReconcilePcs
  <2> QED
    BY <1>2, <2>2, <2>3, Moves DEF CreateClaim
<1>3. CASE CreateReserve(c)
  <2>1. p = "reserve" /\ m \in Machines /\ row \in Rows
    BY <1>1, <1>3 DEF CreateReserve
  <2>2. PICK h \in Hosts : Reserve(m, h) /\ GotoWith(c, "create", [row EXCEPT !.host = h])
    BY <1>3 DEF CreateReserve
  <2>3. [TableNext]_tableVars
    BY <2>1, <2>2 DEF TableNext, Placement
  <2>4. PICK new : new = [row EXCEPT !.host = h]
    OBVIOUS
  <2>5. new \in Rows /\ new.host = h /\ h # NoHost
    BY <2>1, <2>4, NullAssumption DEF Rows
  <2>6. Entitled(m, new, "create")' /\ "create" \in Pcs
    BY <2>1, <2>2, <2>5 DEF Entitled, Reserve, LifeInv, TableInv, TableTypeOK, Pcs, CreatePcs,
       ReconcilePcs
  <2> QED
    BY <2>1, <2>2, <2>3, <2>4, <2>5, <2>6, MovesWith
<1>4. CASE CreateNotReserved(c)
  <2>1. p = "reserve" /\ Entitled(m, row, p) /\ m \in Machines
    BY <1>1, <1>4 DEF CreateNotReserved
  <2>2. [TableNext]_tableVars
    BY <1>4, <2>1 DEF CreateNotReserved, TableNext, Placement
  <2>3. Entitled(m, row, "fail")' /\ "fail" \in Pcs
    BY <2>1, <2>2, Stays DEF Entitled, Pcs, CreatePcs, ReconcilePcs
  <2> QED
    BY <1>4, <2>2, <2>3, Moves DEF CreateNotReserved
<1>5. CASE CreateAnswered(c)
  <2>1. p = "create" /\ Entitled(m, row, p) /\ m \in Machines /\ row \in Rows
    BY <1>1, <1>5 DEF CreateAnswered
  <2>2. PICK v \in Runtimes : GotoWith(c, "observe", [row EXCEPT !.vm = v])
    BY <1>5 DEF CreateAnswered
  <2>3. [TableNext]_tableVars
    BY <1>5 DEF CreateAnswered
  <2>4. PICK new : new = [row EXCEPT !.vm = v]
    OBVIOUS
  <2>5. new \in Rows /\ new.host = row.host /\ new.vm = v /\ v # 0
    BY <2>1, <2>4, BootsAssumption DEF Rows, Runtimes
  <2>6. Entitled(m, new, "observe")' /\ "observe" \in Pcs
    BY <2>1, <2>3, <2>5, Stays DEF Entitled, Pcs, CreatePcs, ReconcilePcs
  <2> QED
    BY <2>1, <2>2, <2>3, <2>4, <2>5, <2>6, MovesWith
<1>6. CASE CreateRejected(c)
  <2>1. p = "create" /\ Entitled(m, row, p)
    BY <1>1, <1>6 DEF CreateRejected
  <2>2. [TableNext]_tableVars
    BY <1>6 DEF CreateRejected
  <2>3. Entitled(m, row, "fail")' /\ "fail" \in Pcs
    BY <2>1, <2>2, Stays DEF Entitled, Pcs, CreatePcs, ReconcilePcs
  <2> QED
    BY <1>6, <2>2, <2>3, Moves DEF CreateRejected
<1>7. CASE CreateObserve(c) \/ CreateObserveFails(c)
  <2>1. /\ p = "observe" /\ Entitled(m, row, p) /\ m \in Machines
        /\ row.vm \in 1..MaxBoots
    BY <1>1, <1>7, BootsAssumption DEF CreateObserve, CreateObserveFails, Entitled, Rows
  <2>2. [TableNext]_tableVars
    BY <1>7, <2>1 DEF CreateObserve, CreateObserveFails, TableNext, Placement
  <2>3. PICK q \in {"idle", "compensate", "abandon"} : Goto(c, q)
    BY <1>7 DEF CreateObserve, CreateObserveFails, CallPc, AfterAmbiguous
  <2>4. q \in Pcs /\ Entitled(m, row, q)'
    BY <2>1, <2>2, Stays DEF Entitled, Pcs, CreatePcs, ReconcilePcs
  <2> QED
    BY <2>2, <2>3, <2>4, Moves
<1>8. CASE CreateAbandon(c)
  <2>1. p = "abandon" /\ Entitled(m, row, p) /\ m \in Machines
    BY <1>1, <1>8 DEF CreateAbandon
  <2>2. [TableNext]_tableVars
    BY <1>8, <2>1 DEF CreateAbandon, TableNext, Stopping
  <2>3. Entitled(m, row, "unclaim")' /\ "unclaim" \in Pcs
    BY <2>1, <2>2, Stays DEF Entitled, Pcs, CreatePcs, ReconcilePcs
  <2> QED
    BY <1>8, <2>2, <2>3, Moves DEF CreateAbandon
<1>9. CASE CreateFail(c)
  <2>1. p = "fail" /\ Entitled(m, row, p) /\ m \in Machines
    BY <1>1, <1>9 DEF CreateFail
  <2>2. [TableNext]_tableVars
    BY <1>9, <2>1 DEF CreateFail, TableNext, Placement
  <2>3. Entitled(m, row, "fail")'
    BY <2>1, <2>2, Stays
  <2>4. CASE FailCreate(m, c) /\ Goto(c, IF row.host # NoHost THEN "createRelease" ELSE "idle")
    <3>1. state'[m] \in Terminal
      BY <2>1, <2>4 DEF FailCreate, LifeInv, TableInv, TableTypeOK, Terminal
    <3>2. /\ row.host # NoHost => Entitled(m, row, "createRelease")'
          /\ {"createRelease", "idle"} \subseteq Pcs
      BY <2>3, <3>1 DEF Entitled, Pcs, CreatePcs, ReconcilePcs
    <3> QED
      BY <2>2, <2>4, <3>2, Moves
  <2>5. CASE Goto(c, "unclaim")
    <3>1. Entitled(m, row, "unclaim")' /\ "unclaim" \in Pcs
      BY <2>3 DEF Entitled, Pcs, CreatePcs, ReconcilePcs
    <3> QED
      BY <2>2, <2>5, <3>1, Moves
  <2> QED
    BY <1>9, <2>4, <2>5 DEF CreateFail
<1>10. CASE CreateRelease(c)
  <2>1. /\ p = "createRelease" /\ Entitled(m, row, p) /\ m \in Machines
        /\ row.host = host[m] /\ host[m] # NoHost /\ state[m] \in Terminal
    BY <1>1, <1>10 DEF CreateRelease, Entitled
  <2>2. [TableNext]_tableVars
    BY <1>10, <2>1 DEF CreateRelease, TableNext, Stopping
  <2> QED
    BY <1>10, <2>2, Moves DEF CreateRelease, Pcs
<1>11. CASE CreateUnclaim(c)
  <2>1. p = "unclaim" /\ m \in Machines
    BY <1>1, <1>11 DEF CreateUnclaim
  <2>2. [TableNext]_tableVars
    BY <1>11, <2>1 DEF CreateUnclaim, TableNext, Placement
  <2> QED
    BY <1>11, <2>2, Moves DEF CreateUnclaim, Pcs
<1> QED
  BY <1>2, <1>3, <1>4, <1>5, <1>6, <1>7, <1>8, <1>9, <1>10, <1>11 DEF CreateStep

-----------------------------------------------------------------------------
(* MachineService.destroy *)

\* The same for a delete.  The row it read is old, but what it does with the
\* reservation only depends on the host, which is settled once it is seen.
LEMMA DestroyImplements ==
  ASSUME LifeInv, NEW d \in Workers, DestroyStep(d)
  PROVE  [TableNext]_tableVars /\ WorkersOK'
<1>0. PICK m, row, p : m = job[d] /\ row = seen[d] /\ p = pc[d]
  OBVIOUS
<1>1. p # "idle" => m \in Machines /\ row \in Rows /\ Entitled(m, row, p)
  BY <1>0 DEF LifeInv, WorkerInv, WorkerTypeOK, Entitled
<1> USE <1>0
<1>2. CASE DestroyStop(d)
  <2>0. PICK from : from = {"requested", "placing", "starting", "running"}
    OBVIOUS
  <2>1. p = "stop" /\ Entitled(m, row, p) /\ m \in Machines
    BY <1>1, <1>2 DEF DestroyStop
  <2>2. [TableNext]_tableVars
    BY <1>2, <2>1 DEF DestroyStop, TableNext, Stopping
  <2>3. Entitled(m, row, "stop")'
    BY <2>1, <2>2, Stays
  <2>4. CASE Transition(m, from, "stopping")
    <3>1. PICK q \in {"idle", "destroy", "stopped"} : Goto(d, q)
      BY <1>2, <2>0 DEF DestroyStop, CallPc, AfterAmbiguous
    <3>2. state'[m] = "stopping"
      BY <2>1, <2>4 DEF Transition, LifeInv, TableInv, TableTypeOK
    <3>3. q \in Pcs /\ Entitled(m, row, q)'
      BY <2>3, <3>2 DEF Entitled, Pcs, DestroyPcs, ReconcilePcs
    <3> QED
      BY <2>2, <3>1, <3>3, Moves
  <2>5. CASE Goto(d, "idle")
    BY <2>2, <2>5, Moves DEF Pcs
  <2> QED
    BY <1>2, <2>0, <2>4, <2>5 DEF DestroyStop
<1>3. CASE DestroyStopped(d)
  <2>1. p = "stopped" /\ Entitled(m, row, p) /\ m \in Machines
    BY <1>1, <1>3 DEF DestroyStopped
  <2>2. [TableNext]_tableVars
    BY <1>3, <2>1 DEF DestroyStopped, TableNext, Stopping
  <2>3. state'[m] \in Terminal
    BY <1>3, <2>1 DEF DestroyStopped, Transition, CanTransition, Entitled, tableVars, LifeInv,
       TableInv, TableTypeOK, Terminal
  <2>4. /\ row.host # NoHost => Entitled(m, row, "destroyRelease")'
        /\ {"destroyRelease", "idle"} \subseteq Pcs
    BY <2>1, <2>2, <2>3, Stays DEF Entitled, Pcs, DestroyPcs, ReconcilePcs
  <2> QED
    BY <1>3, <2>2, <2>4, Moves DEF DestroyStopped
<1>4. CASE DestroyRelease(d)
  <2>1. /\ p = "destroyRelease" /\ m \in Machines
        /\ row.host = host[m] /\ host[m] # NoHost /\ state[m] \in Terminal
    BY <1>1, <1>4 DEF DestroyRelease, Entitled
  <2>2. [TableNext]_tableVars
    BY <1>4, <2>1 DEF DestroyRelease, TableNext, Stopping
  <2> QED
    BY <1>4, <2>2, Moves DEF DestroyRelease, Pcs
<1> QED
  BY <1>2, <1>3, <1>4 DEF DestroyStep

-----------------------------------------------------------------------------
(* MachineReconciler.reconcile *)

\* The same for the reconciler.
LEMMA ReconcileImplements ==
  ASSUME LifeInv, NEW r \in Workers, ReconcileStep(r)
  PROVE  [TableNext]_tableVars /\ WorkersOK'
<1>0. PICK m, row, p : m = job[r] /\ row = seen[r] /\ p = pc[r]
  OBVIOUS
<1>1. p # "idle" => m \in Machines /\ row \in Rows /\ Entitled(m, row, p)
  BY <1>0 DEF LifeInv, WorkerInv, WorkerTypeOK, Entitled
<1> USE <1>0
<1>2. CASE ReconcileRecovered(r)
  <2>1. p = "recover" /\ Entitled(m, row, p) /\ m \in Machines /\ row \in Rows
    BY <1>1, <1>2 DEF ReconcileRecovered
  <2>2. PICK v \in Runtimes : GotoWith(r, "persist", [row EXCEPT !.vm = v])
    BY <1>2 DEF ReconcileRecovered
  <2>3. [TableNext]_tableVars
    BY <1>2 DEF ReconcileRecovered
  <2>4. PICK new : new = [row EXCEPT !.vm = v]
    OBVIOUS
  <2>5. new \in Rows /\ new.host = row.host /\ new.vm = v /\ v # 0
    BY <2>1, <2>4, BootsAssumption DEF Rows, Runtimes
  <2>6. Entitled(m, new, "persist")' /\ "persist" \in Pcs
    BY <2>1, <2>3, <2>5, Stays DEF Entitled, Pcs, ReconcilePcs
  <2> QED
    BY <2>1, <2>2, <2>3, <2>4, <2>5, <2>6, MovesWith
<1>3. CASE ReconcilePersist(r)
  <2>1. /\ p = "persist" /\ Entitled(m, row, p) /\ m \in Machines /\ row \in Rows
        /\ row.vm \in 1..MaxBoots
    BY <1>1, <1>3, BootsAssumption DEF ReconcilePersist, Entitled, Rows
  <2>2. [TableNext]_tableVars
    BY <1>3, <2>1 DEF ReconcilePersist, TableNext, Reconciliation
  <2>3. Entitled(m, row, "persist")'
    BY <2>1, <2>2, Stays
  <2>4. CASE PersistRecovered(m, row.vm)
    <3>0. PICK new : new = [row EXCEPT !.state = state[m]]
      OBVIOUS
    <3>1. PICK q \in {"delete", "unreconcile", "present"} : GotoWith(r, q, new)
      BY <1>3, <2>4, <3>0 DEF ReconcilePersist, CallPc, AfterAmbiguous, PersistRecovered
    <3>2. new \in Rows /\ new.host = row.host
      BY <2>1, <3>0 DEF LifeInv, TableInv, TableTypeOK, Rows
    <3>3. vmId'[m] # 0
      BY <2>1, <2>4 DEF PersistRecovered, LifeInv, TableInv, TableTypeOK
    <3>4. q \in Pcs /\ Entitled(m, new, q)'
      BY <2>3, <3>2, <3>3 DEF Entitled, Pcs, ReconcilePcs
    <3> QED
      BY <2>1, <2>2, <3>1, <3>2, <3>4, MovesWith
  <2>5. CASE ~PersistRecovered(m, row.vm)
    <3>1. PICK q \in {"orphan", "unreconcile"} : Goto(r, q)
      BY <1>3, <2>5 DEF ReconcilePersist, CallPc, AfterAmbiguous
    <3>2. q \in Pcs /\ Entitled(m, row, q)'
      BY <2>3 DEF Entitled, Pcs, ReconcilePcs
    <3> QED
      BY <2>2, <3>1, <3>2, Moves
  <2> QED
    BY <2>4, <2>5
<1>4. CASE ReconcileGet(r)
  <2>1. p = "get" /\ Entitled(m, row, p)
    BY <1>1, <1>4 DEF ReconcileGet
  <2>2. [TableNext]_tableVars
    BY <1>4 DEF ReconcileGet
  <2>3. PICK q \in {"present", "gone"} : Goto(r, q)
    BY <1>4 DEF ReconcileGet
  <2>4. q \in Pcs /\ Entitled(m, row, q)'
    BY <2>1, <2>2, Stays DEF Entitled, Pcs, ReconcilePcs
  <2> QED
    BY <2>2, <2>3, <2>4, Moves
<1>5. CASE ReconcilePresent(r)
  <2>1. p = "present" /\ Entitled(m, row, p) /\ m \in Machines /\ vmId[m] # 0
    BY <1>1, <1>5 DEF ReconcilePresent, Entitled
  <2>2. [TableNext]_tableVars
    BY <1>5, <2>1 DEF ReconcilePresent, TableNext, Reconciliation
  <2>3. PICK q \in {"unreconcile", "expire"} : Goto(r, q)
    BY <1>5 DEF ReconcilePresent, CallPc, AfterAmbiguous
  <2>4. q \in Pcs /\ Entitled(m, row, q)'
    BY <2>1, <2>2, Stays DEF Entitled, Pcs, ReconcilePcs
  <2> QED
    BY <2>2, <2>3, <2>4, Moves
<1>6. CASE ReconcileGone(r)
  <2>1. p = "gone" /\ Entitled(m, row, p)
    BY <1>1, <1>6 DEF ReconcileGone
  <2>2. [TableNext]_tableVars
    BY <1>6 DEF ReconcileGone
  <2>3. PICK q \in {"finishLost", "finishFailed", "unreconcile"} : Goto(r, q)
    BY <1>6 DEF ReconcileGone
  <2>4. q \in Pcs /\ Entitled(m, row, q)'
    BY <2>1, <2>2, Stays DEF Entitled, Pcs, ReconcilePcs
  <2> QED
    BY <2>2, <2>3, <2>4, Moves
<1>7. CASE ReconcileFinish(r)
  <2>1. /\ p \in {"finishStopped", "finishFailed", "finishLost"}
        /\ Entitled(m, row, p) /\ m \in Machines /\ host[m] # NoHost /\ row.host # NoHost
    BY <1>1, <1>7 DEF ReconcileFinish, Entitled, ReconcilePcs
  <2>2. FinishAs(p) \in Terminal
    BY <2>1 DEF FinishAs, Terminal
  <2>3. [TableNext]_tableVars
    BY <1>7, <2>1, <2>2 DEF ReconcileFinish, TableNext, Reconciliation
  <2>4. CASE Finish(m, FinishAs(p)) /\ Goto(r, "reconcileRelease")
    <3>1. state'[m] \in Terminal
      BY <2>1, <2>2, <2>4 DEF Finish, LifeInv, TableInv, TableTypeOK
    <3>2. "reconcileRelease" \in Pcs /\ Entitled(m, row, "reconcileRelease")'
      BY <2>1, <2>3, <3>1, Stays DEF Entitled, Pcs, ReconcilePcs
    <3> QED
      BY <2>3, <2>4, <3>2, Moves
  <2>5. CASE Goto(r, "unreconcile")
    <3>1. "unreconcile" \in Pcs /\ Entitled(m, row, "unreconcile")'
      BY <2>1, <2>3, Stays DEF Entitled, Pcs, ReconcilePcs
    <3> QED
      BY <2>3, <2>5, <3>1, Moves
  <2> QED
    BY <1>7, <2>4, <2>5 DEF ReconcileFinish
<1>8. CASE ReconcileRelease(r)
  <2>1. /\ p = "reconcileRelease" /\ m \in Machines /\ Entitled(m, row, p)
        /\ row.host = host[m] /\ host[m] # NoHost /\ state[m] \in Terminal
    BY <1>1, <1>8 DEF ReconcileRelease, Entitled
  <2>2. [TableNext]_tableVars
    BY <1>8, <2>1 DEF ReconcileRelease, TableNext, Stopping
  <2>3. "unreconcile" \in Pcs /\ Entitled(m, row, "unreconcile")'
    BY <2>1, <2>2, Stays DEF Entitled, Pcs, ReconcilePcs
  <2> QED
    BY <1>8, <2>2, <2>3, Moves DEF ReconcileRelease
<1>9. CASE ReconcileEnd(r)
  <2>1. p = "unreconcile" /\ m \in Machines
    BY <1>1, <1>9 DEF ReconcileEnd
  <2>2. [TableNext]_tableVars
    BY <1>9, <2>1 DEF ReconcileEnd, TableNext, Reconciliation
  <2> QED
    BY <1>9, <2>2, Moves DEF ReconcileEnd, Pcs
<1> QED
  BY <1>2, <1>3, <1>4, <1>5, <1>6, <1>7, <1>8, <1>9 DEF ReconcileStep

-----------------------------------------------------------------------------
(* Calls, crashes and the first step of a worker. *)

\* A call that returns, fails or is cut short moves its worker only.
LEMMA CallsImplement ==
  ASSUME LifeInv, NEW w \in Workers,
         DestroyAnswered(w) \/ CallAmbiguous(w) \/ Crash(w)
  PROVE  [TableNext]_tableVars /\ WorkersOK'
<1>0. PICK m, row, p : m = job[w] /\ row = seen[w] /\ p = pc[w]
  OBVIOUS
<1>1. p # "idle" => m \in Machines /\ row \in Rows /\ Entitled(m, row, p)
  BY <1>0 DEF LifeInv, WorkerInv, WorkerTypeOK, Entitled
<1>2. [TableNext]_tableVars
  BY DEF DestroyAnswered, CallAmbiguous, Crash
<1>3. p # "idle" => Entitled(m, row, p)'
  BY <1>1, <1>2, Stays
<1> USE <1>0
<1>4. CASE DestroyAnswered(w)
  <2>1. PICK q \in {AfterDestroyed(p), AfterNotFound(p)} : Goto(w, q)
    BY <1>4 DEF DestroyAnswered
  <2>2. p \in DestroyCalls
    BY <1>4 DEF DestroyAnswered
  <2>3. q \in Pcs /\ Entitled(m, row, q)'
    BY <1>3, <2>1, <2>2 DEF DestroyCalls, AfterDestroyed, AfterNotFound, Entitled, Pcs,
       CreatePcs, DestroyPcs, ReconcilePcs
  <2> QED
    BY <1>2, <2>1, <2>3, Moves
<1>5. CASE CallAmbiguous(w)
  <2>1. PICK q : q = AfterAmbiguous(p) /\ Goto(w, q) /\ p \in Calls
    BY <1>5 DEF CallAmbiguous
  <2>2. q \in Pcs /\ (q # "idle" => Entitled(m, row, q)')
    BY <1>3, <2>1 DEF Calls, CreateCalls, DestroyCalls, AfterAmbiguous, Entitled, Pcs,
       CreatePcs, DestroyPcs, ReconcilePcs
  <2> QED
    BY <1>2, <2>1, <2>2, Moves
<1>6. CASE Crash(w)
  BY <1>2, <1>6, Moves DEF Crash, Pcs
<1> QED
  BY <1>4, <1>5, <1>6

\* A worker begins with what it has just read or inserted.
LEMMA BeginImplements ==
  ASSUME LifeInv, NEW w \in Workers, NEW m \in Machines,
         CreateBegin(w, m) \/ DestroyBegin(w, m) \/ ReconcileBegin(w, m)
  PROVE  [TableNext]_tableVars /\ WorkersOK'
<1>1. CASE CreateBegin(w, m)
  <2>1. [TableNext]_tableVars
    BY <1>1 DEF CreateBegin, TableNext, Placement
  <2>2. Unread \in Rows /\ "claim" \in Pcs /\ Entitled(m, Unread, "claim")'
    BY BootsAssumption DEF Unread, Rows, States, Pcs, CreatePcs, ReconcilePcs, Entitled
  <2> QED
    BY <1>1, <2>1, <2>2, MovesWith DEF CreateBegin
<1>2. CASE DestroyBegin(w, m)
  <2>1. [TableNext]_tableVars
    BY <1>2 DEF DestroyBegin
  <2>2. PICK row : row = [Row(m) EXCEPT !.state = "absent"]
    OBVIOUS
  <2>3. row \in Rows /\ row.host = host[m]
    BY <2>2 DEF Row, Rows, States, LifeInv, TableInv, TableTypeOK
  <2>4. Entitled(m, row, "stop") /\ "stop" \in Pcs
    BY <2>3 DEF Entitled, Pcs, DestroyPcs, ReconcilePcs
  <2>5. Entitled(m, row, "stop")'
    BY <2>1, <2>4, Stays
  <2> QED
    BY <1>2, <2>1, <2>2, <2>3, <2>4, <2>5, MovesWith DEF DestroyBegin
<1>3. CASE ReconcileBegin(w, m)
  <2>1. [TableNext]_tableVars
    BY <1>3 DEF ReconcileBegin, TableNext, Reconciliation
  <2>2. PICK row : row = Row(m)
    OBVIOUS
  <2>3. row \in Rows /\ row.host = host[m] /\ host[m] # NoHost
    BY <1>3, <2>2 DEF Row, Rows, LifeInv, TableInv, TableTypeOK, ReconcileBegin,
       ClaimReconcile, CanClaimReconcile
  <2>4. PICK q \in {"recover", "delete", "get", "unreconcile"} :
          Start(w, m, q, row) /\ (q = "get" => vmId[m] # 0)
    BY <1>3, <2>2 DEF ReconcileBegin, CallPc, AfterAmbiguous
  <2>5. Entitled(m, row, q) /\ q \in Pcs
    BY <2>3, <2>4 DEF Entitled, Pcs, ReconcilePcs
  <2>6. Entitled(m, row, q)'
    BY <2>1, <2>5, Stays
  <2> QED
    BY <2>1, <2>3, <2>4, <2>5, <2>6, MovesWith
<1> QED
  BY <1>1, <1>2, <1>3

-----------------------------------------------------------------------------
(* The environment. *)

\* Steps that move no worker.
LEMMA EnvironmentImplements ==
  ASSUME LifeInv,
         \/ \E q \in late : LateExecuted(q)
         \/ \E m \in Machines : ClaimExpires(m) \/ Sweep(m) \/ Expire(m)
         \/ StaleHosts
         \/ \E h \in Hosts : DaemonRestarts(h) \/ Outage(h)
         \/ UNCHANGED vars
  PROVE  [TableNext]_tableVars /\ WorkersOK'
<1>1. [TableNext]_tableVars
  <2>1. CASE \E m \in Machines : ClaimExpires(m) \/ Sweep(m) \/ Expire(m)
    BY <2>1 DEF ClaimExpires, Sweep, Expire, TableNext, Placement, Reconciliation
  <2>2. CASE StaleHosts
    BY <2>2 DEF StaleHosts, TableNext
  <2>3. CASE \E h \in Hosts : DaemonRestarts(h) \/ Outage(h)
    BY <2>3 DEF DaemonRestarts, Outage, TableNext
  <2>4. CASE \/ \E q \in late : LateExecuted(q)
             \/ UNCHANGED vars
    BY <2>4 DEF LateExecuted, vars
  <2> QED
    BY <2>1, <2>2, <2>3, <2>4
<1>2. UNCHANGED workerVars
  BY DEF LateExecuted, ClaimExpires, Sweep, Expire, StaleHosts, DaemonRestarts, Outage, vars
<1>3. ASSUME NEW w \in Workers, pc'[w] # "idle"
      PROVE  Entitled(job[w], seen[w], pc[w])'
  <2>1. PICK m, row, p : m = job[w] /\ row = seen[w] /\ p = pc[w]
    OBVIOUS
  <2>2. Entitled(m, row, p)
    BY <1>2, <1>3, <2>1 DEF LifeInv, WorkerInv, workerVars, Entitled
  <2>3. Entitled(m, row, p)'
    BY <1>1, <2>2, Stays
  <2> QED
    BY <1>2, <2>1, <2>3 DEF Entitled, workerVars
<1> QED
  BY <1>1, <1>2, <1>3 DEF WorkersOK, WorkerInv, WorkerTypeOK, LifeInv, workerVars

\* Every step of the system is a transaction that the rows allow.
LEMMA NextImplementsTable ==
  LifeInv /\ [Next]_vars => [TableNext]_tableVars /\ WorkersOK'
<1> SUFFICES ASSUME LifeInv, [Next]_vars PROVE [TableNext]_tableVars /\ WorkersOK'
  OBVIOUS
<1>1. ASSUME NEW w \in Workers, WorkerStep(w) \/ Crash(w)
      PROVE  [TableNext]_tableVars /\ WorkersOK'
  BY <1>1, CreateImplements, DestroyImplements, ReconcileImplements, CallsImplement
  DEF WorkerStep
<1>2. ASSUME NEW m \in Machines,
             \/ \E c \in Creators : CreateBegin(c, m)
             \/ \E d \in Destroyers : DestroyBegin(d, m)
             \/ \E r \in Reconcilers : ReconcileBegin(r, m)
      PROVE  [TableNext]_tableVars /\ WorkersOK'
  <2>1. Creators \cup Destroyers \cup Reconcilers \subseteq Workers
    BY WorkerAssumption
  <2> QED
    BY <1>2, <2>1, BeginImplements
<1> QED
  BY <1>1, <1>2, EnvironmentImplements DEF Next

-----------------------------------------------------------------------------
(* The hosts. *)

DaemonInv == DaemonTypeOK /\ RecoverableByKey

\* Whatever the order of creates, deletes, expiries and restarts, a lease's
\* create key leads to its only runtime.
LEMMA DaemonInvNext == DaemonInv /\ [DaemonNext]_daemonVars => DaemonInv'
<1> SUFFICES ASSUME DaemonInv, [DaemonNext]_daemonVars PROVE DaemonInv'
  OBVIOUS
<1> USE BootsAssumption DEF DaemonInv, DaemonTypeOK, RecoverableByKey, Runtimes
<1>1. ASSUME NEW m \in Machines, Boot(m) PROVE DaemonInv'
  <2>1. boots[m] + 1 \in 1..MaxBoots /\ live[m] = {}
    BY <1>1 DEF Boot, CanBoot
  <2> QED
    BY <1>1, <2>1 DEF Boot
<1>2. ASSUME NEW m \in Machines, NEW v \in Runtimes, DestroyInternal(m, v) PROVE DaemonInv'
  BY <1>2 DEF DestroyInternal
<1>3. ASSUME NEW m \in Machines, Reap(m) PROVE DaemonInv'
  BY <1>3 DEF Reap
<1>4. ASSUME NEW S \in SUBSET Machines, NEW survivors \in SUBSET S, Restart(S, survivors)
      PROVE  DaemonInv'
  BY <1>4 DEF Restart
<1>5. CASE UNCHANGED daemonVars
  BY <1>5 DEF daemonVars
<1> QED
  BY <1>1, <1>2, <1>3, <1>4, <1>5 DEF DaemonNext, CreateInternal, CreateRefused

\* Every step of the system is a call that the hosts allow, and the requests
\* it leaves behind are for known machines.
LEMMA NextImplementsDaemon ==
  LifeInv /\ [Next]_vars => [DaemonNext]_daemonVars /\ late' \subseteq Requests
<1> SUFFICES ASSUME LifeInv, [Next]_vars
             PROVE  [DaemonNext]_daemonVars /\ late' \subseteq Requests
  OBVIOUS
<1> USE DEF LifeInv, otherVars
<1>0. \A w \in Workers : /\ pc[w] # "idle" => job[w] \in Machines
                         /\ Outstanding(w) \subseteq Requests
  BY DEF WorkerInv, Entitled, Outstanding
<1>1. ASSUME NEW w \in Workers, WorkerStep(w)
      PROVE  [DaemonNext]_daemonVars /\ late' \subseteq Requests
  <2>1. CASE CreateAnswered(w)
    BY <1>0, <2>1 DEF CreateAnswered, DaemonNext
  <2>2. CASE ReconcileRecovered(w)
    BY <1>0, <2>2 DEF ReconcileRecovered, DaemonNext
  <2>3. CASE CreateRejected(w)
    BY <1>0, <2>3 DEF CreateRejected, CreateRefused
  <2>4. CASE DestroyAnswered(w)
    <3>1. job[w] \in Machines
      BY <1>0, <2>4 DEF DestroyAnswered, DestroyCalls
    <3> QED
      BY <2>4, <3>1 DEF DestroyAnswered, DestroyInternal, DaemonNext, DaemonTypeOK
  <2>5. CASE CallAmbiguous(w)
    BY <1>0, <2>5 DEF CallAmbiguous
  <2>6. CASE \/ CreateClaim(w) \/ CreateReserve(w) \/ CreateNotReserved(w)
             \/ CreateObserve(w) \/ CreateObserveFails(w) \/ CreateAbandon(w)
             \/ CreateFail(w) \/ CreateRelease(w) \/ CreateUnclaim(w)
    BY <2>6 DEF CreateClaim, CreateReserve, CreateNotReserved, CreateObserve,
       CreateObserveFails, CreateAbandon, CreateFail, CreateRelease, CreateUnclaim
  <2>7. CASE DestroyStep(w)
    BY <2>7 DEF DestroyStep, DestroyStop, DestroyStopped, DestroyRelease
  <2>8. CASE \/ ReconcilePersist(w) \/ ReconcileGet(w) \/ ReconcilePresent(w)
             \/ ReconcileGone(w) \/ ReconcileFinish(w) \/ ReconcileRelease(w)
             \/ ReconcileEnd(w)
    BY <2>8 DEF ReconcilePersist, ReconcileGet, ReconcilePresent, ReconcileGone,
       ReconcileFinish, ReconcileRelease, ReconcileEnd
  <2> QED
    BY <1>1, <2>1, <2>2, <2>3, <2>4, <2>5, <2>6, <2>7, <2>8
    DEF WorkerStep, CreateStep, ReconcileStep
<1>2. ASSUME NEW w \in Workers, Crash(w)
      PROVE  [DaemonNext]_daemonVars /\ late' \subseteq Requests
  BY <1>0, <1>2 DEF Crash
<1>3. ASSUME NEW m \in Machines,
             \/ \E c \in Creators : CreateBegin(c, m)
             \/ \E d \in Destroyers : DestroyBegin(d, m)
             \/ \E r \in Reconcilers : ReconcileBegin(r, m)
             \/ ClaimExpires(m) \/ Sweep(m)
      PROVE  [DaemonNext]_daemonVars /\ late' \subseteq Requests
  BY <1>3 DEF CreateBegin, DestroyBegin, ReconcileBegin, ClaimExpires, Sweep
<1>4. ASSUME NEW q \in late, LateExecuted(q)
      PROVE  [DaemonNext]_daemonVars /\ late' \subseteq Requests
  <2>1. q.m \in Machines /\ late' \subseteq Requests
    BY <1>4 DEF LateExecuted, Requests
  <2>2. CASE Boot(q.m)
    <3>1. boots[q.m] + 1 \in Runtimes
      BY <2>1, <2>2, BootsAssumption DEF Boot, CanBoot, DaemonTypeOK, Runtimes
    <3> QED
      BY <2>1, <2>2, <3>1 DEF DaemonNext, CreateInternal
  <2>3. CASE DestroyInternal(q.m, q.vm)
    BY <2>1, <2>3 DEF DaemonNext, DestroyInternal, DaemonTypeOK
  <2> QED
    BY <1>4, <2>1, <2>2, <2>3 DEF LateExecuted
<1>5. ASSUME NEW m \in Machines, Expire(m)
      PROVE  [DaemonNext]_daemonVars /\ late' \subseteq Requests
  BY <1>5 DEF Expire, DaemonNext
<1>6. ASSUME NEW h \in Hosts, DaemonRestarts(h)
      PROVE  [DaemonNext]_daemonVars /\ late' \subseteq Requests
  BY <1>6 DEF DaemonRestarts, DaemonNext
<1>7. CASE StaleHosts \/ (\E h \in Hosts : Outage(h)) \/ UNCHANGED vars
  BY <1>7 DEF StaleHosts, Outage, vars
<1> QED
  BY <1>1, <1>2, <1>3, <1>4, <1>5, <1>6, <1>7 DEF Next

-----------------------------------------------------------------------------
(* The theorems. *)

LEMMA LifeInvInit == Init => LifeInv /\ DaemonInv
<1> SUFFICES ASSUME Init PROVE LifeInv /\ DaemonInv
  OBVIOUS
<1>1. TableInv
  BY TableInvInit DEF Init
<1>2. DaemonInv
  BY BootsAssumption DEF Init, DaemonInit, DaemonInv, DaemonTypeOK, RecoverableByKey
<1>3. WorkerTypeOK /\ WorkerInv
  BY BootsAssumption DEF Init, WorkerTypeOK, WorkerInv, Pcs, Unread, Rows, States
<1> QED
  BY <1>1, <1>2, <1>3 DEF LifeInv, DaemonInv, Init

LEMMA LifeInvNext == LifeInv /\ DaemonInv /\ [Next]_vars => LifeInv' /\ DaemonInv'
<1> SUFFICES ASSUME LifeInv, DaemonInv, [Next]_vars PROVE LifeInv' /\ DaemonInv'
  OBVIOUS
<1>1. TableInv' /\ WorkersOK'
  BY NextImplementsTable, TableInvNext DEF LifeInv
<1>2. DaemonInv' /\ late' \subseteq Requests
  BY NextImplementsDaemon, DaemonInvNext
<1> QED
  BY <1>1, <1>2 DEF LifeInv, WorkersOK, DaemonInv

\* Rows, registries and workers keep their invariants together.
THEOREM LifecycleInvariant == Spec => [](LifeInv /\ DaemonInv)
<1> QED
  BY LifeInvInit, LifeInvNext, PTL DEF Spec

\* Whatever crashes, times out or runs late, every worker's step is one that
\* the rows allow on their own: no create, delete or reconciliation acts on
\* an old read it was not entitled to.
THEOREM LifecycleImplementsTable == Spec => ImplementsTable
<1>1. Init => TableInit
  BY DEF Init
<1>2. LifeInv /\ [Next]_vars => [TableNext]_tableVars
  BY NextImplementsTable
<1> QED
  BY <1>1, <1>2, LifecycleInvariant, PTL DEF Spec, ImplementsTable, TableSpec

\* Therefore the running system keeps the ledger exact, never overcommits a
\* host or exceeds a quota, and never releases an active machine.
THEOREM LifecycleCapacitySafe ==
  Spec => [](LedgerExact /\ NoOvercommit /\ QuotaHeld /\ HeldWhileActive)
<1> QED
  BY LifecycleImplementsTable, CapacitySafe, PTL DEF ImplementsTable

\* A create key leads to the lease's only runtime throughout.
THEOREM LifecycleRecoverable == Spec => []RecoverableByKey
<1>1. DaemonInv => RecoverableByKey
  BY DEF DaemonInv
<1> QED
  BY <1>1, LifecycleInvariant, PTL

-----------------------------------------------------------------------------
(* Intent before effect. *)

\* The machines with a runtime, or a request for one, on some host.
OnHost == {m \in Machines : live[m] # {} \/ \E q \in late : q.m = m}

\* A worker's outstanding call concerns a placed machine.
LEMMA CallsArePlaced ==
  ASSUME LifeInv, IntentFirst, NEW w \in Workers, NEW q \in Outstanding(w)
  PROVE  q.m \in Machines /\ host[q.m] # NoHost
<1>1. q \in Requests /\ q.m = job[w] /\ pc[w] \in Calls /\ MayAct(q)
  BY DEF Outstanding
<1>2. q.m \in Machines /\ q.op \in {"create", "destroy"}
  BY <1>1 DEF Requests
<1>3. CASE q.op = "create"
  <2>1. pc[w] \in CreateCalls
    BY <1>3 DEF Outstanding
  <2> QED
    BY <1>1, <1>2, <2>1 DEF LifeInv, WorkerInv, Entitled, CreateCalls, ReconcilePcs
<1>4. CASE q.op = "destroy"
  BY <1>1, <1>2, <1>4 DEF MayAct, IntentFirst
<1> QED
  BY <1>2, <1>3, <1>4

LEMMA IntentFirstNext ==
  LifeInv /\ IntentFirst /\ [Next]_vars => IntentFirst'
<1> SUFFICES ASSUME LifeInv, IntentFirst, [Next]_vars PROVE IntentFirst'
  OBVIOUS
<1>1. Onward
  BY NextImplementsTable, TableOnward DEF LifeInv
<1>2. ASSUME \A m \in OnHost' : m \in OnHost \/ host[m] # NoHost
      PROVE  IntentFirst'
  BY <1>1, <1>2 DEF OnHost, IntentFirst, Onward
<1> SUFFICES ASSUME NEW m \in Machines, m \in OnHost', m \notin OnHost
             PROVE  host[m] # NoHost
  BY <1>2 DEF OnHost
<1>3. live[m] = {} /\ (\A q \in late : q.m # m)
  BY DEF OnHost
<1>4. live'[m] # {} \/ \E q \in late' : q.m = m
  BY DEF OnHost
<1> USE DEF LifeInv, otherVars
<1>5. ASSUME NEW w \in Workers, late' = late \cup Outstanding(w), UNCHANGED daemonVars
      PROVE  host[m] # NoHost
  BY <1>3, <1>4, <1>5, CallsArePlaced DEF daemonVars
<1>6. ASSUME NEW w \in Workers, pc[w] \in CreateCalls, NEW v \in Runtimes,
             CreateInternal(job[w], v), UNCHANGED late
      PROVE  host[m] # NoHost
  <2>1. job[w] \in Machines /\ host[job[w]] # NoHost
    BY <1>6 DEF WorkerInv, Entitled, CreateCalls, ReconcilePcs
  <2>2. m = job[w]
    BY <1>3, <1>4, <1>6, <2>1 DEF CreateInternal, Boot, daemonVars, DaemonTypeOK
  <2> QED
    BY <2>1, <2>2
<1>7. ASSUME NEW w \in Workers, WorkerStep(w) PROVE host[m] # NoHost
  <2>1. CASE CreateAnswered(w)
    BY <1>6, <2>1 DEF CreateAnswered, CreateCalls
  <2>2. CASE ReconcileRecovered(w)
    BY <1>6, <2>2 DEF ReconcileRecovered, CreateCalls
  <2>3. CASE CreateRejected(w)
    BY <1>3, <1>4, <2>3 DEF CreateRejected, CreateRefused, daemonVars
  <2>4. CASE DestroyAnswered(w)
    BY <1>3, <1>4, <2>4 DEF DestroyAnswered, DestroyInternal, daemonVars, DaemonTypeOK
  <2>5. CASE CallAmbiguous(w)
    BY <1>5, <2>5 DEF CallAmbiguous
  <2>6. CASE \/ CreateClaim(w) \/ CreateReserve(w) \/ CreateNotReserved(w)
             \/ CreateObserve(w) \/ CreateObserveFails(w) \/ CreateAbandon(w)
             \/ CreateFail(w) \/ CreateRelease(w) \/ CreateUnclaim(w)
    BY <1>3, <1>4, <2>6 DEF CreateClaim, CreateReserve, CreateNotReserved, CreateObserve,
       CreateObserveFails, CreateAbandon, CreateFail, CreateRelease, CreateUnclaim, daemonVars
  <2>7. CASE DestroyStep(w)
    BY <1>3, <1>4, <2>7 DEF DestroyStep, DestroyStop, DestroyStopped, DestroyRelease, daemonVars
  <2>8. CASE \/ ReconcilePersist(w) \/ ReconcileGet(w) \/ ReconcilePresent(w)
             \/ ReconcileGone(w) \/ ReconcileFinish(w) \/ ReconcileRelease(w)
             \/ ReconcileEnd(w)
    BY <1>3, <1>4, <2>8 DEF ReconcilePersist, ReconcileGet, ReconcilePresent, ReconcileGone,
       ReconcileFinish, ReconcileRelease, ReconcileEnd, daemonVars
  <2> QED
    BY <1>7, <2>1, <2>2, <2>3, <2>4, <2>5, <2>6, <2>7, <2>8
    DEF WorkerStep, CreateStep, ReconcileStep
<1>8. ASSUME NEW w \in Workers, Crash(w) PROVE host[m] # NoHost
  BY <1>5, <1>8 DEF Crash
<1>9. ASSUME NEW n \in Machines,
             \/ \E c \in Creators : CreateBegin(c, n)
             \/ \E d \in Destroyers : DestroyBegin(d, n)
             \/ \E r \in Reconcilers : ReconcileBegin(r, n)
             \/ ClaimExpires(n) \/ Sweep(n)
      PROVE  host[m] # NoHost
  BY <1>3, <1>4, <1>9 DEF CreateBegin, DestroyBegin, ReconcileBegin, ClaimExpires, Sweep,
     daemonVars
<1>10. ASSUME NEW q \in late, LateExecuted(q) PROVE host[m] # NoHost
  BY <1>3, <1>4, <1>10 DEF LateExecuted, Boot, DestroyInternal, daemonVars, DaemonTypeOK
<1>11. ASSUME NEW n \in Machines, Expire(n) PROVE host[m] # NoHost
  BY <1>3, <1>4, <1>11 DEF Expire, Reap, DaemonTypeOK
<1>12. ASSUME NEW h \in Hosts, DaemonRestarts(h) PROVE host[m] # NoHost
  BY <1>3, <1>4, <1>12 DEF DaemonRestarts, Restart
<1>13. CASE StaleHosts \/ (\E h \in Hosts : Outage(h)) \/ UNCHANGED vars
  BY <1>3, <1>4, <1>13 DEF StaleHosts, Outage, vars, daemonVars
<1> QED
  BY <1>7, <1>8, <1>9, <1>10, <1>11, <1>12, <1>13 DEF Next

\* No runtime, and no request that could start one, without a placed row.
THEOREM LifecycleIntentFirst == Spec => []IntentFirst
<1>1. Init => IntentFirst
  BY DEF Init, DaemonInit, IntentFirst
<1> QED
  BY <1>1, IntentFirstNext, LifecycleInvariant, PTL DEF Spec

-----------------------------------------------------------------------------
(* Types. *)

Bounded ==
  crashes \in 0..MaxCrashes /\ restarts \in 0..MaxRestarts /\ outages \in 0..MaxOutages

LEMMA BoundedNext == Bounded /\ [Next]_vars => Bounded'
<1> SUFFICES ASSUME Bounded, [Next]_vars PROVE Bounded'
  OBVIOUS
<1> USE BoundsAssumption DEF Bounded, otherVars, boundVars
<1>1. ASSUME NEW w \in Workers, WorkerStep(w) PROVE UNCHANGED boundVars
  BY <1>1 DEF WorkerStep, CreateStep, DestroyStep, ReconcileStep, CreateClaim, CreateReserve,
     CreateNotReserved, CreateAnswered, CreateRejected, CreateObserve, CreateObserveFails,
     CreateAbandon, CreateFail, CreateRelease, CreateUnclaim, DestroyStop, DestroyStopped,
     DestroyRelease, ReconcileRecovered, ReconcilePersist, ReconcileGet, ReconcilePresent,
     ReconcileGone, ReconcileFinish, ReconcileRelease, ReconcileEnd, DestroyAnswered,
     CallAmbiguous
<1>2. ASSUME NEW w \in Workers, Crash(w) PROVE Bounded'
  BY <1>2 DEF Crash
<1>3. ASSUME NEW h \in Hosts, DaemonRestarts(h) \/ Outage(h) PROVE Bounded'
  BY <1>3 DEF DaemonRestarts, Outage
<1>4. ASSUME NEW m \in Machines,
             \/ \E c \in Creators : CreateBegin(c, m)
             \/ \E d \in Destroyers : DestroyBegin(d, m)
             \/ \E r \in Reconcilers : ReconcileBegin(r, m)
             \/ ClaimExpires(m) \/ Sweep(m) \/ Expire(m)
      PROVE  UNCHANGED boundVars
  BY <1>4 DEF CreateBegin, DestroyBegin, ReconcileBegin, ClaimExpires, Sweep, Expire
<1>5. CASE (\E q \in late : LateExecuted(q)) \/ StaleHosts \/ UNCHANGED vars
  BY <1>5 DEF LateExecuted, StaleHosts, vars
<1> QED
  BY <1>1, <1>2, <1>3, <1>4, <1>5 DEF Next

\* The type invariant of the whole system.
THEOREM LifecycleTypes == Spec => []TypeOK
<1>1. Init => Bounded
  BY BoundsAssumption DEF Init, Bounded
<1>2. LifeInv /\ Bounded => TypeOK
  BY DEF LifeInv, TableInv, WorkerTypeOK, Bounded, TypeOK
<1> QED
  BY <1>1, <1>2, BoundedNext, LifecycleInvariant, PTL DEF Spec
=============================================================================
