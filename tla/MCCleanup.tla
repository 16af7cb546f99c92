----------------------------- MODULE MCCleanup -----------------------------
(* Cleanup, with bounds from the configuration: one Kubernetes Job and a     *)
(* crash for the liveness properties, two Jobs in turn for the races between *)
(* a cleanup and a new dispatch.                                             *)
EXTENDS Cleanup
=============================================================================
