------------------------------- MODULE Leases -------------------------------
(***************************************************************************)
(* What the control plane and the hosts agree on: the machines a customer  *)
(* asked for.  A machine's public id is also its create-idempotency key on *)
(* the host, and stands for its lease id and generation.                   *)
(***************************************************************************)
EXTENDS Integers, FiniteSets

CONSTANTS
  Machines,   \* public machine ids
  MaxBoots    \* bound: runtimes a host starts for one lease

ASSUME BootsAssumption == MaxBoots \in Nat
=============================================================================
