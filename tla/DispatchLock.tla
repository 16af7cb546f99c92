---------------------------- MODULE DispatchLock ----------------------------
(* The two locks Dispatch takes for one workflow job ID: the in-process      *)
(* mutex of internal/dispatch/jobmutex.go and the Kubernetes Lease of        *)
(* internal/dispatch/lock.go.  Every key of both is the job ID, so calls for *)
(* other IDs never meet these and one ID is enough.                          *)
(*                                                                           *)
(* A call is one execution of Dispatch in one replica:                       *)
(*   out -> waiting -> inside -> got -> critical -> leaving -> out           *)
(* "inside" holds the mutex, "got" has read the Lease, "critical" is past a  *)
(* successful TryAcquire.  Deferred calls run last in, first out, so the     *)
(* Lease is released before the mutex.                                       *)
EXTENDS Naturals, FiniteSets

CONSTANTS
    Calls,          \* the executions of Dispatch for this job ID
    Replicas,       \* the scheduler processes
    ReplicaOf,      \* [Calls -> Replicas]: where each call runs
    NoCall          \* the value of a free mutex and of an absent Lease's holder

ASSUME ReplicaOfAssumption == ReplicaOf \in [Calls -> Replicas]
ASSUME NoCallAssumption == NoCall \notin Calls

VARIABLES
    pc,             \* where each call is
    mutex,          \* jobMutexRegistry.locks[jobID] of each replica
    lease,          \* the Lease object, seen through holderActive
    holder,         \* the call whose HolderIdentity and AcquireTime it carries
    snap,           \* what the Get of each call returned, see GetLease
    overrun         \* history: see Expire

lockVars == <<pc, mutex, lease, holder, snap, overrun>>

Points == {"out", "waiting", "inside", "got", "critical", "leaving"}

\* The points at which a call owns the mutex of its replica.
Locked == {"inside", "got", "critical", "leaving"}

Critical == {c \in Calls : pc[c] = "critical"}

TypeOK ==
    /\ pc \in [Calls -> Points]
    /\ mutex \in [Replicas -> Calls \cup {NoCall}]
    /\ lease \in {"absent", "active", "expired"}
    /\ holder \in Calls \cup {NoCall}
    /\ snap \in [Calls -> {"none", "absent", "current", "stale"}]
    /\ overrun \in BOOLEAN

Init ==
    /\ pc = [c \in Calls |-> "out"]
    /\ mutex = [r \in Replicas |-> NoCall]
    /\ lease = "absent"
    /\ holder = NoCall
    /\ snap = [c \in Calls |-> "none"]
    /\ overrun = FALSE

-----------------------------------------------------------------------------
(* Helpers.  A snapshot is "current" while its resourceVersion is still the  *)
(* Lease's: any write or delete makes it "stale", for good.                  *)

Outdated(s) == [c \in Calls |-> IF s[c] = "current" THEN "stale" ELSE s[c]]

Goto(c, point) == pc' = [pc EXCEPT ![c] = point]

\* The Lease now carries call c's identity and times.
WriteLease(c) ==
    /\ lease' = "active"
    /\ holder' = c
    /\ snap' = [Outdated(snap) EXCEPT ![c] = "none"]

\* An overrun is over once no call is left in the critical section.
Settle == overrun' = (overrun /\ \E c \in Calls : pc'[c] = "critical")

-----------------------------------------------------------------------------
(* The mutex.                                                                *)

\* The call asks for the mutex of its replica.
Enter(c) ==
    /\ pc[c] = "out"
    /\ Goto(c, "waiting")
    /\ UNCHANGED <<mutex, lease, holder, snap, overrun>>

\* Mutant: a mutex that does not block.
AcquireMutexBusy(c) ==
    /\ pc[c] = "waiting"
    /\ mutex' = [mutex EXCEPT ![ReplicaOf[c]] = c]
    /\ Goto(c, "inside")
    /\ UNCHANGED <<lease, holder, snap, overrun>>

AcquireMutex(c) ==
    /\ pc[c] = "waiting"
    /\ mutex[ReplicaOf[c]] = NoCall
    /\ mutex' = [mutex EXCEPT ![ReplicaOf[c]] = c]
    /\ Goto(c, "inside")
    /\ UNCHANGED <<lease, holder, snap, overrun>>

\* The deferred unlockJob.
Unlock(c) ==
    /\ pc[c] = "leaving"
    /\ mutex' = [mutex EXCEPT ![ReplicaOf[c]] = NoCall]
    /\ Goto(c, "out")
    /\ UNCHANGED <<lease, holder, snap, overrun>>

-----------------------------------------------------------------------------
(* TryAcquire.                                                               *)

\* An early return between the mutex and the Lease: a Job exists already, or
\* the API server could not answer the List or the Get.
Bail(c) ==
    /\ pc[c] = "inside"
    /\ Goto(c, "leaving")
    /\ UNCHANGED <<mutex, lease, holder, snap, overrun>>

GetLease(c) ==
    /\ pc[c] = "inside"
    /\ Goto(c, "got")
    /\ snap' = [snap EXCEPT ![c] = IF lease = "absent" THEN "absent" ELSE "current"]
    /\ UNCHANGED <<mutex, lease, holder, overrun>>

\* Mutant: AlreadyExists is taken for success.
CanCreateTwice(c) == pc[c] = "got" /\ snap[c] = "absent"

\* NotFound was read, and the Create finds no Lease either.
CanCreate(c) == pc[c] = "got" /\ snap[c] = "absent" /\ lease = "absent"

\* Mutant: the Update carries no resourceVersion.
CanTakeOverBlindly(c) ==
    /\ pc[c] = "got"
    /\ snap[c] \in {"current", "stale"}
    /\ lease # "absent"

\* Mutant: holderActive is not asked.
CanTakeOverActive(c) ==
    pc[c] = "got" /\ snap[c] = "current" /\ lease # "absent"

\* An expired Lease was read, and the Update finds the same resourceVersion.
CanTakeOver(c) == pc[c] = "got" /\ snap[c] = "current" /\ lease = "expired"

CreateLease(c) ==
    /\ CanCreate(c)
    /\ WriteLease(c)
    /\ Goto(c, "critical")
    /\ UNCHANGED <<mutex, overrun>>

TakeOver(c) ==
    /\ CanTakeOver(c)
    /\ WriteLease(c)
    /\ Goto(c, "critical")
    /\ UNCHANGED <<mutex, overrun>>

\* The Create or Update took effect but its answer was lost: TryAcquire fails
\* and leaves behind a Lease nobody will release.
ClaimLost(c) ==
    /\ CanCreate(c) \/ CanTakeOver(c)
    /\ WriteLease(c)
    /\ Goto(c, "leaving")
    /\ UNCHANGED <<mutex, overrun>>

\* Mutant: the release is deferred before acquired is looked at.
RefusedReleases(c) ==
    /\ pc[c] = "got"
    /\ Goto(c, "leaving")
    /\ lease' = "absent"
    /\ holder' = NoCall
    /\ snap' = [Outdated(snap) EXCEPT ![c] = "none"]
    /\ UNCHANGED <<mutex, overrun>>

\* Mutant: this early return forgets the mutex.
RefusedKeepsMutex(c) ==
    /\ pc[c] = "got"
    /\ Goto(c, "out")
    /\ snap' = [snap EXCEPT ![c] = "none"]
    /\ UNCHANGED <<mutex, lease, holder, overrun>>

\* holderActive says yes, the Create finds a Lease, or the Update finds another
\* resourceVersion: the call returns without the lock.
Refused(c) ==
    /\ pc[c] = "got"
    /\ ~CanCreate(c)
    /\ ~CanTakeOver(c)
    /\ Goto(c, "leaving")
    /\ snap' = [snap EXCEPT ![c] = "none"]
    /\ UNCHANGED <<mutex, lease, holder, overrun>>

\* The Create or Update fails without effect.
ClaimFails(c) ==
    /\ CanCreate(c) \/ CanTakeOver(c)
    /\ Goto(c, "leaving")
    /\ snap' = [snap EXCEPT ![c] = "none"]
    /\ UNCHANGED <<mutex, lease, holder, overrun>>

-----------------------------------------------------------------------------
(* Release, expiry and crash.                                                *)

\* releaseFunc deletes the Lease by name, without a precondition: whoever
\* wrote it last.
Release(c) ==
    /\ pc[c] = "critical"
    /\ lease' = "absent"
    /\ holder' = NoCall
    /\ snap' = Outdated(snap)
    /\ Goto(c, "leaving")
    /\ Settle
    /\ UNCHANGED mutex

\* The Delete fails (the error is only logged): the Lease stays.
ReleaseFails(c) ==
    /\ pc[c] = "critical"
    /\ Goto(c, "leaving")
    /\ Settle
    /\ UNCHANGED <<mutex, lease, holder, snap>>

\* RenewTime plus LeaseDurationSeconds passes.  Nothing renews the Lease, so
\* this can happen under the call that took it: that call overruns.
Expire ==
    /\ lease = "active"
    /\ lease' = "expired"
    /\ overrun' = (overrun \/ Critical # {})
    /\ UNCHANGED <<pc, mutex, holder, snap>>

\* The process dies with its calls and its mutex; the Lease stays.
Crash(r) ==
    /\ \E c \in Calls : ReplicaOf[c] = r /\ pc[c] # "out"
    /\ pc' = [c \in Calls |-> IF ReplicaOf[c] = r THEN "out" ELSE pc[c]]
    /\ snap' = [c \in Calls |-> IF ReplicaOf[c] = r THEN "none" ELSE snap[c]]
    /\ mutex' = [mutex EXCEPT ![r] = NoCall]
    /\ Settle
    /\ UNCHANGED <<lease, holder>>

-----------------------------------------------------------------------------
\* What a call does by itself once it is waiting for the mutex.
CallStep(c) ==
    \/ AcquireMutex(c)
    \/ Unlock(c)
    \/ Bail(c)
    \/ GetLease(c)
    \/ CreateLease(c)
    \/ TakeOver(c)
    \/ ClaimLost(c)
    \/ Refused(c)
    \/ ClaimFails(c)
    \/ Release(c)
    \/ ReleaseFails(c)

Next ==
    \/ Expire
    \/ \E c \in Calls : Enter(c) \/ CallStep(c)
    \/ \E r \in Replicas : Crash(r)

Spec == Init /\ [][Next]_lockVars

\* A call that can go on does (every API call returns in the end), and
\* sync.Mutex hands itself to a waiter it has starved.
Fairness ==
    \A c \in Calls : WF_lockVars(CallStep(c)) /\ SF_lockVars(AcquireMutex(c))

FairSpec == Spec /\ Fairness

-----------------------------------------------------------------------------
(* Properties.                                                               *)

\* As long as no critical section outlives its Lease, at most one call of all
\* replicas is past TryAcquire, through crashes, lost answers, failed releases
\* and releases that delete by name.
MutualExclusion ==
    ~overrun => \A c, d \in Critical : c = d

\* A call past TryAcquire is covered by a Lease it wrote and that is still
\* active, so IsDispatchLocked answers true to the orphan-runner sweep and the
\* job cleaner for as long as the call may create something.
CriticalIsLocked ==
    ~overrun => \A c \in Critical : lease = "active" /\ holder = c

\* Within one process the mutex serializes calls from the second duplicate
\* check on, whatever happens to the Lease.
ReplicaSerialized ==
    \A c, d \in Calls :
        /\ pc[c] \in Locked
        /\ pc[d] \in Locked
        /\ ReplicaOf[c] = ReplicaOf[d]
        => c = d

\* A mutex that is taken belongs to a call of its own process that is still at
\* work: no early return, failed claim, crash or restart leaves one behind.
NoMutexLeft ==
    \A r \in Replicas :
        mutex[r] # NoCall => ReplicaOf[mutex[r]] = r /\ pc[mutex[r]] \in Locked

\* A release never deletes the Lease another call is working under, though it
\* deletes by name.
OwnRelease ==
    \A c \in Calls :
        /\ pc[c] = "critical"
        /\ pc'[c] = "leaving"
        /\ lease' = "absent"
        /\ ~overrun
        => holder = c
NoForeignRelease == [][OwnRelease]_lockVars

\* Every call that asks for the mutex returns: no early return, failed claim
\* or crash leaves the mutex taken.
EveryCallReturns ==
    \A c \in Calls : pc[c] = "waiting" ~> pc[c] = "out"

\* The comment on JobLocker, without the assumption on the length of the
\* critical section: dispatch is serialized across replicas.
Serialized == \A c, d \in Critical : c = d

\* The mutex and the Lease together are the lock JobLocker can promise: every
\* step of theirs is a step of the abstract lock, or none of its business.
Abstract == INSTANCE AbstractLock WITH holders <- Critical
ImplementsAbstractLock == Abstract!Spec
=============================================================================
