---------------------------- MODULE AbstractLock ----------------------------
(* What dispatch.JobLocker promises for one workflow job ID.  The comment on *)
(* it says that dispatch is serialized across replicas; a lock that expires  *)
(* can only promise that until one of its holders outlives its time.  From   *)
(* then on it excludes nobody, until the last holder has left.               *)
CONSTANT Calls

VARIABLES
    holders,    \* the calls between a successful TryAcquire and its release
    overrun     \* has one of them outlived its time?

vars == <<holders, overrun>>

Init == holders = {} /\ overrun = FALSE

Acquire(c) ==
    /\ holders = {} \/ overrun
    /\ holders' = holders \cup {c}
    /\ UNCHANGED overrun

\* Holders give the lock back, or the process they run in is gone.
Leave(gone) ==
    /\ holders' = holders \ gone
    /\ overrun' = (overrun /\ holders' # {})

\* A holder is still at work when its time is over.
Overrun ==
    /\ holders # {}
    /\ overrun' = TRUE
    /\ UNCHANGED holders

Next ==
    \/ \E c \in Calls : Acquire(c)
    \/ \E gone \in SUBSET holders : Leave(gone)
    \/ Overrun

Spec == Init /\ [][Next]_vars
=============================================================================
