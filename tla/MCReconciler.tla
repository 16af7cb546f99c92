---------------------------- MODULE MCReconciler ----------------------------
(* Reconciler with one managed job, listed behind as many unmanaged ones as  *)
(* the configuration says.                                                   *)
EXTENDS Reconciler

CONSTANTS r1, r2, u1, u2, m1

\* One unmanaged job ahead of the managed one.
OneAhead == <<u1, m1>>

\* As many as the cap lets through during a cooldown.
TwoAhead == <<u1, u2, m1>>

\* Those, and the first of them once more.
Repeated == <<u1, u1, u2, m1>>
=============================================================================
