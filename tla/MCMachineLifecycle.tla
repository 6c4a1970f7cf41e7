------------------------- MODULE MCMachineLifecycle -------------------------
(***************************************************************************)
(* Small instances of MachineLifecycle for TLC: one machine on one host,   *)
(* and the activities that race for it.                                    *)
(***************************************************************************)
EXTENDS MachineLifecycle, TLC

CONSTANTS m1, h1, c1, d1, r1

OneMachine == {m1}
OneHost    == {h1}

OneCreator    == {c1}
OneDestroyer  == {d1}
OneReconciler == {r1}
SmallPool     == {c1, d1, r1}

UnitDemand == [S \in SUBSET Machines |-> Cardinality(S)]
RoomForOne == [h \in Hosts |-> 1]
=============================================================================
