--------------------------- MODULE MCDispatchLock ---------------------------
(* DispatchLock with four calls, two webhook deliveries in each of two      *)
(* replicas.                                                                 *)
EXTENDS DispatchLock, TLC

CONSTANTS c1, c2, c3, c4, r1, r2

MCReplicaOf == (c1 :> r1) @@ (c2 :> r1) @@ (c3 :> r2) @@ (c4 :> r2)
=============================================================================
