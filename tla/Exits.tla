-------------------------------- MODULE Exits --------------------------------
(***************************************************************************)
(* The control plane and the gateway are stopped on their own: two         *)
(* processes that share nothing, and one promise about how they end.       *)
(***************************************************************************)
EXTENDS Shutdown, GatewayDrain

ExitsSpec == ShutdownSpec /\ DrainSpec

\* What is closed is not used: the database outlives the work of a drain that ended in
\* time, a process that ends by itself has nothing open (shutdown.ts), and the gateway
\* ends under no stream it did not cancel, its tenants within their limit
\* (gateway/drain.go, proxy.go).
ExitIsOrderly == ResourcesOutliveWork /\ ExitIsClean /\ ExitCancelsAll /\ TenantWithinLimit
=============================================================================
