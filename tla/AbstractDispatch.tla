-------------------------- MODULE AbstractDispatch --------------------------
(* What the dispatches of one workflow job promise to whoever else handles   *)
(* its Kubernetes Job: a Job appears only where there is none, and while a   *)
(* call is past TryAcquire; and as long as such a call has not outlived its  *)
(* time, IsDispatchLocked says so.  The lock alone says less than that: it   *)
(* is taken before the Job appears and may stay when the call is gone.       *)
EXTENDS AbstractLock

VARIABLES
    locked,     \* what IsDispatchLocked answers
    exists      \* is there a Kubernetes Job?

dispatchVars == <<vars, locked, exists>>

DispatchInit == Init /\ ~locked /\ ~exists

\* TryAcquire succeeds.
Claim(c) ==
    /\ ~locked
    /\ Acquire(c)
    /\ locked' = TRUE
    /\ UNCHANGED exists

\* TryAcquire takes the lock and does not hear of it.
ClaimUnheard ==
    /\ ~locked
    /\ locked' = TRUE
    /\ UNCHANGED <<vars, exists>>

Create ==
    /\ holders # {}
    /\ ~exists
    /\ exists' = TRUE
    /\ UNCHANGED <<vars, locked>>

\* Holders return or crash, and leave the lock behind or give it back: their
\* own, or the one of another call if one of them has outlived its time.
Return(gone) ==
    /\ gone # {}
    /\ Leave(gone)
    /\ locked' \in {locked, FALSE}
    /\ UNCHANGED exists

\* Nobody renews the lock.
Expire ==
    /\ locked
    /\ locked' = FALSE
    /\ overrun' = (overrun \/ holders # {})
    /\ UNCHANGED <<holders, exists>>

\* A cleanup, a TTL or anybody else deletes the Job, at any time.
Delete ==
    /\ exists
    /\ exists' = FALSE
    /\ UNCHANGED <<vars, locked>>

DispatchNext ==
    \/ \E c \in Calls : Claim(c)
    \/ ClaimUnheard \/ Create \/ Expire \/ Delete
    \/ \E gone \in SUBSET holders : Return(gone)

DispatchSpec == DispatchInit /\ [][DispatchNext]_dispatchVars
=============================================================================
