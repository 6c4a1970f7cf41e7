----------------------------- MODULE HostDaemon -----------------------------
(***************************************************************************)
(* The machine registries of the hosts (nehemiahd/machine.go, state.go),   *)
(* as far as one lease is concerned: the runtimes alive under the lease,   *)
(* and the create-idempotency map  createKeys  that makes a replayed       *)
(* create return the first runtime.                                        *)
(*                                                                         *)
(* A runtime is named by the ordinal of its boot.  Booting is atomic: no   *)
(* caller knows the id of a booting machine, its expiry timer is not set   *)
(* yet, and a concurrent create with the same key waits for the boot, so   *)
(* nothing can touch it before the handler finishes.                       *)
(***************************************************************************)
EXTENDS Leases

VARIABLES
  live,      \* Manager.machines, per lease
  createKey, \* Manager.createKeys[key].machineID; 0 when there is no entry
  boots      \* runtimes booted so far, per lease

daemonVars == <<live, createKey, boots>>

Runtimes == 1..MaxBoots

DaemonTypeOK ==
  /\ live \in [Machines -> SUBSET Runtimes]
  /\ createKey \in [Machines -> 0..MaxBoots]
  /\ boots \in [Machines -> 0..MaxBoots]

DaemonInit ==
  /\ live = [m \in Machines |-> {}]
  /\ createKey = [m \in Machines |-> 0]
  /\ boots = [m \in Machines |-> 0]

-----------------------------------------------------------------------------
\* CreateInternal with a known key whose machine is still in the registry.
CanReplay(m) == createKey[m] # 0 /\ createKey[m] \in live[m]

\* A new key, and no live machine that already holds the lease.
CanBoot(m) == createKey[m] = 0 /\ live[m] = {} /\ boots[m] < MaxBoots

Boot(m) ==
  /\ CanBoot(m)
  /\ boots' = [boots EXCEPT ![m] = @ + 1]
  /\ live' = [live EXCEPT ![m] = @ \cup {boots[m] + 1}]
  /\ createKey' = [createKey EXCEPT ![m] = boots[m] + 1]

\* The create handler, when it answers with machine v.
CreateInternal(m, v) ==
  \/ CanReplay(m) /\ v = createKey[m] /\ UNCHANGED daemonVars
  \/ Boot(m) /\ v = boots[m] + 1

\* Admission, capacity, template or boot failure: the key is forgotten.
CreateRefused(m) == createKey[m] = 0 /\ UNCHANGED daemonVars

\* DestroyInternal: the machine leaves the registry, its key stays.
DestroyInternal(m, v) ==
  /\ v \in live[m]
  /\ live' = [live EXCEPT ![m] = @ \ {v}]
  /\ UNCHANGED <<createKey, boots>>

\* Mutant: the TTL timer is not armed.
ReapNever(m) == FALSE /\ UNCHANGED daemonVars

\* reap: the TTL timer.
Reap(m) ==
  /\ live[m] # {}
  /\ live' = [live EXCEPT ![m] = {}]
  /\ UNCHANGED <<createKey, boots>>

\* Mutant: reattached machines are not entered in createKeys.
RestartWithoutKeys(S, survivors) ==
  /\ live' = [m \in Machines |->
                IF m \in S /\ m \notin survivors THEN {} ELSE live[m]]
  /\ createKey' = [m \in Machines |-> IF m \in S THEN 0 ELSE createKey[m]]
  /\ UNCHANGED boots

\* Restart and Reconcile for the leases S of one host: the runtimes that can
\* be reattached survive, the rest are terminated, and createKeys is rebuilt
\* from the survivors only.
Restart(S, survivors) ==
  /\ live' = [m \in Machines |->
                IF m \in S /\ m \notin survivors THEN {} ELSE live[m]]
  /\ createKey' = [m \in Machines |->
                     IF m \in S /\ (m \notin survivors \/ createKey[m] \notin live[m])
                     THEN 0 ELSE createKey[m]]
  /\ UNCHANGED boots

-----------------------------------------------------------------------------
(* The registries under any order of calls, expiries and restarts. *)

DaemonNext ==
  \/ \E m \in Machines : \/ \E v \in Runtimes : CreateInternal(m, v)
                         \/ CreateRefused(m)
                         \/ \E v \in Runtimes : DestroyInternal(m, v)
                         \/ Reap(m)
  \/ \E S \in SUBSET Machines : \E survivors \in SUBSET S : Restart(S, survivors)

DaemonSpec == DaemonInit /\ [][DaemonNext]_daemonVars

\* Every live runtime is the one that its lease's create key names: a replayed
\* create recovers it whatever was destroyed, reaped or reattached before,
\* and no lease ever has two runtimes at a time.
RecoverableByKey == \A m \in Machines : live[m] \subseteq {createKey[m]}
=============================================================================
