------------------------- MODULE DispatchLockProofs -------------------------
(* Proofs that the dispatch lock is the lock AbstractLock describes, for any *)
(* number of calls and replicas.                                             *)
EXTENDS DispatchLock, TLAPS

\* A call past the mutex owns the mutex of its replica.
MutexOwned ==
    \A c \in Calls : pc[c] \in Locked => mutex[ReplicaOf[c]] = c

\* The invariant the steps preserve.  CriticalIsLocked is what makes it
\* inductive: while nothing overran, a Lease that is absent or expired tells
\* a claimer that nobody is critical, and two critical calls would both have
\* to be the Lease's holder.
LockInv == TypeOK /\ MutexOwned /\ CriticalIsLocked

-----------------------------------------------------------------------------
\* While nothing overran, a call may write the Lease only if nobody is critical.
LEMMA ClaimFindsNobody ==
    ASSUME LockInv, NEW c \in Calls, CanCreate(c) \/ CanTakeOver(c), ~overrun
    PROVE  Critical = {}
  BY DEF LockInv, CriticalIsLocked, CanCreate, CanTakeOver

\* The initial states satisfy the invariant.
LEMMA LockInvInit == Init => LockInv
  BY ReplicaOfAssumption
  DEF Init, LockInv, TypeOK, Points, MutexOwned, Locked, CriticalIsLocked, Critical

\* Types are kept by every step.
LEMMA TypeStep == TypeOK /\ [Next]_lockVars => TypeOK'
<1> SUFFICES ASSUME TypeOK, [Next]_lockVars PROVE TypeOK'
  OBVIOUS
<1> USE ReplicaOfAssumption DEF TypeOK, Points, Goto
<1>1. CASE Expire
  BY <1>1 DEF Expire
<1>2. ASSUME NEW c \in Calls, Enter(c) \/ CallStep(c) PROVE TypeOK'
  <2>1. CASE Enter(c) \/ AcquireMutex(c) \/ Unlock(c) \/ Bail(c) \/ GetLease(c)
    BY <2>1 DEF Enter, AcquireMutex, Unlock, Bail, GetLease
  <2>2. CASE CreateLease(c) \/ TakeOver(c) \/ ClaimLost(c)
    BY <2>2 DEF CreateLease, TakeOver, ClaimLost, WriteLease, Outdated
  <2>3. CASE Refused(c) \/ ClaimFails(c)
    BY <2>3 DEF Refused, ClaimFails
  <2>4. CASE Release(c) \/ ReleaseFails(c)
    BY <2>4 DEF Release, ReleaseFails, Settle, Outdated
  <2> QED
    BY <1>2, <2>1, <2>2, <2>3, <2>4 DEF CallStep
<1>3. ASSUME NEW r \in Replicas, Crash(r) PROVE TypeOK'
  BY <1>3 DEF Crash, Settle
<1>4. CASE UNCHANGED lockVars
  BY <1>4 DEF lockVars
<1> QED
  BY <1>1, <1>2, <1>3, <1>4 DEF Next

\* Mutex ownership is kept by every step.
LEMMA MutexStep == TypeOK /\ MutexOwned /\ [Next]_lockVars => MutexOwned'
<1> SUFFICES ASSUME TypeOK, MutexOwned, [Next]_lockVars PROVE MutexOwned'
  OBVIOUS
<1> USE ReplicaOfAssumption, NoCallAssumption DEF TypeOK, MutexOwned, Locked, Goto
<1>1. CASE Expire
  BY <1>1 DEF Expire
<1>2. ASSUME NEW c \in Calls, Enter(c) \/ CallStep(c) PROVE MutexOwned'
  <2>1. CASE AcquireMutex(c)
    BY <2>1 DEF AcquireMutex
  <2>2. CASE Unlock(c)
    BY <2>2 DEF Unlock
  <2>3. CASE Enter(c) \/ Bail(c) \/ GetLease(c)
    BY <2>3 DEF Enter, Bail, GetLease
  <2>4. CASE CreateLease(c) \/ TakeOver(c) \/ ClaimLost(c)
    BY <2>4 DEF CreateLease, TakeOver, ClaimLost, CanCreate, CanTakeOver
  <2>5. CASE Refused(c) \/ ClaimFails(c)
    BY <2>5 DEF Refused, ClaimFails, CanCreate, CanTakeOver
  <2>6. CASE Release(c) \/ ReleaseFails(c)
    BY <2>6 DEF Release, ReleaseFails
  <2> QED
    BY <1>2, <2>1, <2>2, <2>3, <2>4, <2>5, <2>6 DEF CallStep
<1>3. ASSUME NEW r \in Replicas, Crash(r) PROVE MutexOwned'
  BY <1>3 DEF Crash
<1>4. CASE UNCHANGED lockVars
  BY <1>4 DEF lockVars
<1> QED
  BY <1>1, <1>2, <1>3, <1>4 DEF Next

\* The Lease keeps covering the critical section.
LEMMA LeaseStep == LockInv /\ [Next]_lockVars => CriticalIsLocked'
<1> SUFFICES ASSUME LockInv, [Next]_lockVars, ~overrun' PROVE
        \A c \in Critical' : lease' = "active" /\ holder' = c
  BY DEF CriticalIsLocked
<1> USE DEF LockInv, TypeOK, CriticalIsLocked, Critical, Goto
<1>1. CASE Expire
  BY <1>1 DEF Expire
<1>2. ASSUME NEW c \in Calls, Enter(c) \/ CallStep(c)
      PROVE  \A d \in Critical' : lease' = "active" /\ holder' = d
  <2>1. CASE Enter(c) \/ AcquireMutex(c) \/ Unlock(c) \/ Bail(c) \/ GetLease(c)
    BY <2>1 DEF Enter, AcquireMutex, Unlock, Bail, GetLease
  <2>2. CASE CreateLease(c) \/ TakeOver(c) \/ ClaimLost(c)
    <3>1. CanCreate(c) \/ CanTakeOver(c)
      BY <2>2 DEF CreateLease, TakeOver, ClaimLost
    <3>2. overrun' = overrun
      BY <2>2 DEF CreateLease, TakeOver, ClaimLost
    <3>3. Critical = {}
      BY <3>1, <3>2, ClaimFindsNobody
    <3> QED
      BY <2>2, <3>3 DEF CreateLease, TakeOver, ClaimLost, WriteLease
  <2>3. CASE Refused(c) \/ ClaimFails(c)
    BY <2>3 DEF Refused, ClaimFails
  <2>4. CASE Release(c)
    BY <2>4 DEF Release, Settle
  <2>5. CASE ReleaseFails(c)
    BY <2>5 DEF ReleaseFails, Settle
  <2> QED
    BY <1>2, <2>1, <2>2, <2>3, <2>4, <2>5 DEF CallStep
<1>3. ASSUME NEW r \in Replicas, Crash(r)
      PROVE  \A d \in Critical' : lease' = "active" /\ holder' = d
  BY <1>3 DEF Crash, Settle
<1>4. CASE UNCHANGED lockVars
  BY <1>4 DEF lockVars
<1> QED
  BY <1>1, <1>2, <1>3, <1>4 DEF Next

\* LockInv holds in every reachable state.
LEMMA LockInvariant == Spec => []LockInv
<1>1. LockInv /\ [Next]_lockVars => LockInv'
  BY TypeStep, MutexStep, LeaseStep DEF LockInv
<1> QED
  BY <1>1, LockInvInit, PTL DEF Spec

-----------------------------------------------------------------------------
\* The variables of the lock keep their types.
THEOREM TypeCorrect == Spec => []TypeOK
<1>1. LockInv => TypeOK
  BY DEF LockInv
<1> QED
  BY <1>1, LockInvariant, PTL

\* Until a Lease expires under its holder, at most one call of all replicas is
\* past TryAcquire, whatever crashes and whatever answer is lost.
THEOREM LockExcludes == Spec => []MutualExclusion
<1>1. LockInv => MutualExclusion
  BY DEF LockInv, CriticalIsLocked, MutualExclusion
<1> QED
  BY <1>1, LockInvariant, PTL

\* Until then IsDispatchLocked sees every call that is past TryAcquire.
THEOREM LockIsVisible == Spec => []CriticalIsLocked
<1>1. LockInv => CriticalIsLocked
  BY DEF LockInv
<1> QED
  BY <1>1, LockInvariant, PTL

\* Within a process the mutex serializes calls even while Leases overrun.
THEOREM MutexExcludes == Spec => []ReplicaSerialized
<1>1. LockInv => ReplicaSerialized
  BY DEF LockInv, MutexOwned, ReplicaSerialized
<1> QED
  BY <1>1, LockInvariant, PTL

\* Until then no call deletes a Lease another call is working under.
THEOREM ReleaseIsOwn == Spec => NoForeignRelease
<1>1. LockInv /\ [Next]_lockVars => [OwnRelease]_lockVars
  BY DEF LockInv, CriticalIsLocked, Critical, OwnRelease
<1> QED
  BY <1>1, LockInvariant, PTL DEF Spec, NoForeignRelease

-----------------------------------------------------------------------------
\* No step leaves a mutex to a call that does not hold it.
LEMMA NoMutexLeftStep == TypeOK /\ NoMutexLeft /\ [Next]_lockVars => NoMutexLeft'
<1> SUFFICES ASSUME TypeOK, NoMutexLeft, [Next]_lockVars PROVE NoMutexLeft'
  OBVIOUS
<1> USE ReplicaOfAssumption, NoCallAssumption DEF TypeOK, NoMutexLeft, Locked, Goto
<1>1. CASE Expire
  BY <1>1 DEF Expire
<1>2. ASSUME NEW c \in Calls, Enter(c) \/ CallStep(c) PROVE NoMutexLeft'
  <2>1. CASE Enter(c)
    BY <2>1 DEF Enter
  <2>2. CASE AcquireMutex(c)
    BY <2>2 DEF AcquireMutex
  <2>3. CASE Unlock(c)
    BY <2>3 DEF Unlock
  <2>4. CASE Bail(c) \/ GetLease(c)
    BY <2>4 DEF Bail, GetLease
  <2>5. CASE CreateLease(c) \/ TakeOver(c) \/ ClaimLost(c)
    BY <2>5 DEF CreateLease, TakeOver, ClaimLost, CanCreate, CanTakeOver
  <2>6. CASE Refused(c) \/ ClaimFails(c)
    BY <2>6 DEF Refused, ClaimFails, CanCreate, CanTakeOver
  <2>7. CASE Release(c) \/ ReleaseFails(c)
    BY <2>7 DEF Release, ReleaseFails
  <2> QED
    BY <1>2, <2>1, <2>2, <2>3, <2>4, <2>5, <2>6, <2>7 DEF CallStep
<1>3. ASSUME NEW r \in Replicas, Crash(r) PROVE NoMutexLeft'
  BY <1>3 DEF Crash
<1>4. CASE UNCHANGED lockVars
  BY <1>4 DEF lockVars
<1> QED
  BY <1>1, <1>2, <1>3, <1>4 DEF Next

\* No early return, failed claim, crash or restart leaves a mutex taken that
\* nobody will unlock.
THEOREM MutexIsHeld == Spec => []NoMutexLeft
<1>1. Init => NoMutexLeft
  BY DEF Init, NoMutexLeft
<1>2. LockInv => TypeOK
  BY DEF LockInv
<1> QED
  BY <1>1, <1>2, NoMutexLeftStep, LockInvariant, PTL DEF Spec

-----------------------------------------------------------------------------
\* A step of the detailed lock is a step of the abstract one or leaves its
\* variables alone.
LEMMA RefinementStep == LockInv /\ [Next]_lockVars => [Abstract!Next]_<<Critical, overrun>>
<1> SUFFICES ASSUME LockInv, [Next]_lockVars PROVE [Abstract!Next]_<<Critical, overrun>>
  OBVIOUS
<1> USE DEF LockInv, TypeOK, Critical, Goto
<1>1. CASE Expire
  BY <1>1 DEF Expire, Abstract!Next, Abstract!Overrun
<1>2. ASSUME NEW c \in Calls, Enter(c) \/ CallStep(c)
      PROVE  [Abstract!Next]_<<Critical, overrun>>
  <2>1. CASE Enter(c) \/ AcquireMutex(c) \/ Unlock(c) \/ Bail(c) \/ GetLease(c)
    BY <2>1 DEF Enter, AcquireMutex, Unlock, Bail, GetLease
  <2>2. CASE CreateLease(c) \/ TakeOver(c)
    <3>1. overrun \/ Critical = {}
      BY <2>2, ClaimFindsNobody DEF CreateLease, TakeOver
    <3>2. Critical' = Critical \cup {c} /\ overrun' = overrun
      BY <2>2 DEF CreateLease, TakeOver
    <3>3. Abstract!Acquire(c)
      BY <3>1, <3>2 DEF Abstract!Acquire
    <3> QED
      BY <3>3 DEF Abstract!Next
  <2>3. CASE ClaimLost(c) \/ Refused(c) \/ ClaimFails(c)
    BY <2>3 DEF ClaimLost, Refused, ClaimFails, CanCreate, CanTakeOver
  <2>4. CASE Release(c) \/ ReleaseFails(c)
    <3>1. Critical' = Critical \ {c}
      BY <2>4 DEF Release, ReleaseFails
    <3>2. overrun' = (overrun /\ Critical' # {})
      BY <2>4 DEF Release, ReleaseFails, Settle
    <3>3. {c} \in SUBSET Critical
      BY <2>4 DEF Release, ReleaseFails
    <3>4. Abstract!Leave({c})
      BY <3>1, <3>2 DEF Abstract!Leave
    <3> QED
      BY <3>3, <3>4 DEF Abstract!Next
  <2> QED
    BY <1>2, <2>1, <2>2, <2>3, <2>4 DEF CallStep
<1>3. ASSUME NEW r \in Replicas, Crash(r)
      PROVE  [Abstract!Next]_<<Critical, overrun>>
  <2> DEFINE Gone == {c \in Critical : ReplicaOf[c] = r}
  <2>1. Critical' = Critical \ Gone
    BY <1>3 DEF Crash
  <2>2. overrun' = (overrun /\ Critical' # {})
    BY <1>3 DEF Crash, Settle
  <2>3. Abstract!Leave(Gone)
    BY <2>1, <2>2 DEF Abstract!Leave
  <2>4. Gone \in SUBSET Critical
    OBVIOUS
  <2> HIDE DEF Gone, Critical
  <2> QED
    BY <2>3, <2>4 DEF Abstract!Next
<1>4. CASE UNCHANGED lockVars
  BY <1>4 DEF lockVars
<1> QED
  BY <1>1, <1>2, <1>3, <1>4 DEF Next

\* Mutex and Lease implement the abstract lock for any calls and replicas.
THEOREM LockRefinement == Spec => ImplementsAbstractLock
<1>1. Init => Abstract!Init
  BY DEF Init, Abstract!Init, Critical
<1> QED
  BY <1>1, RefinementStep, LockInvariant, PTL
  DEF Spec, ImplementsAbstractLock, Abstract!Spec, Abstract!vars
=============================================================================
