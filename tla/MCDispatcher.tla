---------------------------- MODULE MCDispatcher ----------------------------
(* Dispatcher with a webhook delivery in one replica and the reconciler's    *)
(* call in the other.                                                        *)
EXTENDS Dispatcher, TLC

CONSTANTS w1, rc, r1, r2, g1, g2, g3

MCReplicaOf == [c \in Calls |-> IF c = w1 THEN r1 ELSE r2]

AllOperations == Operations
NoOperation == {}

\* The operations that may fail without leaving anything behind for good.
Harmless == {"list", "lease", "jit", "secret", "job"}

ClusterMishaps == {"podFails", "jobDeleted"}
CrashOnly == {"crash"}

RunnerSymmetry == Permutations(RunnerIds)
=============================================================================
