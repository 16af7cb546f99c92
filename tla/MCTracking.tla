----------------------------- MODULE MCTracking -----------------------------
(* Tracking with a "queued" event and a second one, or the reconciler's turn. *)
EXTENDS Tracking

CONSTANTS c1, c2

\* Every write but that of the completion may fail.
AllButCompletion == Statuses \ {"completed"}
=============================================================================
