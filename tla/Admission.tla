------------------------------ MODULE Admission ------------------------------
(***************************************************************************)
(* The two places that turn requests away by how many there were: the      *)
(* control plane's windows and the gateway's REST limiter.  They share no  *)
(* state; what they promise together is one property.                      *)
(***************************************************************************)
EXTENDS RequestPipeline, GatewayRest

AdmissionSpec == PipelineSpec /\ RestSpec

\* In the control plane a bucket admits no more than its limit in one window, a request
\* is refused before authentication only for what its own source or holders of its
\* credential sent, and device logins stay within the limit of their source and the one
\* all sources share (auth/api-admission.ts, auth/device.ts).  At the gateway a request
\* is refused only when its slot, which sources may share, let its limit through within
\* a window of it, and the earliest readings of a window pass at most as often as the
\* limit says; later readings of the window have no such bound
\* (gateway/rest_limiter.go).
AdmissionSafe ==
  /\ AdmittedPerWindow /\ RefusedForOwnTraffic /\ LoginsPerWindow
  /\ RefusedForTraffic /\ EarliestWithinLimit
=============================================================================
