------------------------------- MODULE Mutex --------------------------------
(***************************************************************************)
(* What a lock promises: at most one process is inside, and only the       *)
(* process that is inside leaves, by itself or by dying.                   *)
(***************************************************************************)
CONSTANT Procs
VARIABLE inside

MutexInit == inside = {}
Enter(p) == inside = {} /\ inside' = {p}
Leave(p) == inside = {p} /\ inside' = {}
MutexNext == \E p \in Procs : Enter(p) \/ Leave(p)
MutexSpec == MutexInit /\ [][MutexNext]_inside
=============================================================================
