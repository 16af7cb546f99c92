-------------------------- MODULE DispatcherProofs --------------------------
(* Proofs about Dispatcher, for any calls, replicas, runners, attempts and   *)
(* faults: it uses its locks as DispatchLock says, so it inherits mutual     *)
(* exclusion, and from that it dedups before JIT and drops its own Secret.   *)
EXTENDS Dispatcher, DispatchLockProofs

CriticalSteps ==
    {"dup3", "jit", "secret", "job", "patch", "dropSecret", "dropRunner",
     "dropPatched", "release"}

\* A call that creates, undoes or is about to release is past TryAcquire.
Phase == \A c \in Calls : step[c] \in CriticalSteps => pc[c] = "critical"

\* Between the last duplicate check and the Create, there is no Job.
NoJobYet ==
    ~overrun => \A c \in Calls : step[c] \in {"jit", "secret"} => job = "none"

\* From the Secret's Create on, the Secret is the call's own.
OwnConfig ==
    ~overrun => \A c \in Calls :
        /\ step[c] \in {"job", "patch", "dropSecret", "dropPatched"}
        /\ secret # "none"
        => config = jit[c]

DispatcherInv ==
    /\ DispatcherTypeOK
    /\ LockInv
    /\ Phase
    /\ NoJobYet
    /\ OwnConfig

-----------------------------------------------------------------------------
\* Every step of the dispatcher is a step of its locks or leaves them alone.
LEMMA LockStep == [DispatcherNext]_vars => [Next]_lockVars
<1> SUFFICES ASSUME [DispatcherNext]_vars PROVE [Next]_lockVars
  OBVIOUS
<1>1. ASSUME NEW c \in Calls, Begin(c) \/ Work(c) \/ LeaderCancelled(c)
      PROVE  [Next]_lockVars
  <2>1. CASE Begin(c) \/ LeaderCancelled(c)
    BY <2>1 DEF Begin, LeaderCancelled
  <2>2. CASE Dup1(c) \/ Dup2(c) \/ ReadLease(c) \/ LockJob(c) \/ Return(c)
    BY <2>2 DEF Dup1, Dup2, ReadLease, LockJob, Return, Next, CallStep
  <2>3. CASE ClaimLease(c) \/ ReleaseLease(c)
    BY <2>3 DEF ClaimLease, ReleaseLease, Next, CallStep
  <2>4. CASE Dup3(c) \/ RegisterRunner(c) \/ DropSecret(c) \/ DropRunner(c)
    BY <2>4 DEF Dup3, RegisterRunner, DropSecret, DropRunner
  <2>5. CASE CreateSecret(c) \/ CreateJob(c) \/ PatchOwner(c)
    BY <2>5 DEF CreateSecret, CreateJob, PatchOwner, Try
  <2> QED
    BY <1>1, <2>1, <2>2, <2>3, <2>4, <2>5 DEF Work
<1>2. ASSUME NEW r \in Replicas, ReplicaCrashes(r) PROVE [Next]_lockVars
  BY <1>2 DEF ReplicaCrashes, Next
<1>3. ASSUME NEW id \in RunnerIds, SweepRunner(id) PROVE [Next]_lockVars
  BY <1>3 DEF SweepRunner
<1>4. CASE LeaseExpires
  BY <1>4 DEF LeaseExpires, Next
<1>5. CASE PodRuns \/ PodFails \/ JobDeleted \/ GarbageCollected \/ CalmDown
  BY <1>5 DEF PodRuns, PodFails, JobDeleted, GarbageCollected, CalmDown
<1>6. CASE UNCHANGED vars
  BY <1>6 DEF vars
<1> QED
  BY <1>1, <1>2, <1>3, <1>4, <1>5, <1>6 DEF DispatcherNext

\* An overrun is only over when nobody is critical any more.
LEMMA OverrunEnds ==
    ASSUME [Next]_lockVars, overrun, ~overrun'
    PROVE  Critical' = {}
<1>1. ASSUME NEW c \in Calls, Enter(c) \/ CallStep(c) PROVE Critical' = {}
  BY <1>1 DEF Enter, CallStep, AcquireMutex, Unlock, Bail, GetLease, CreateLease,
              TakeOver, ClaimLost, Refused, ClaimFails, Release, ReleaseFails,
              Settle, Critical
<1>2. ASSUME NEW r \in Replicas, Crash(r) PROVE Critical' = {}
  BY <1>2 DEF Crash, Settle, Critical
<1> QED
  BY <1>1, <1>2 DEF Next, Expire, lockVars

\* Two calls in critical steps are one, while nothing overran.
LEMMA OneWorker ==
    ASSUME LockInv, Phase, ~overrun, NEW c \in Calls, NEW d \in Calls,
           step[c] \in CriticalSteps, step[d] \in CriticalSteps
    PROVE  c = d
  BY DEF LockInv, CriticalIsLocked, Critical, Phase

-----------------------------------------------------------------------------
\* A call that has tried nothing has attempts left.
LEMMA NoAttempt == 0 \in 0 .. MaxAttempts - 1
  BY AttemptsAssumption

\* The initial states satisfy the invariant.
LEMMA DispatcherInvInit == DispatcherInit => DispatcherInv
<1> SUFFICES ASSUME DispatcherInit PROVE DispatcherInv
  OBVIOUS
<1>1. LockInv
  BY LockInvInit DEF DispatcherInit
<1>2. DispatcherTypeOK
  BY <1>1, NoAttempt DEF DispatcherInit, DispatcherTypeOK, Steps, LockInv
<1>3. Phase /\ NoJobYet /\ OwnConfig
  BY DEF DispatcherInit, Phase, CriticalSteps, NoJobYet, OwnConfig
<1> QED
  BY <1>1, <1>2, <1>3 DEF DispatcherInv

\* Ending calls keeps the types of their locals.
LEMMA ForgetTypes ==
    ASSUME DispatcherTypeOK, NEW gone, Forget(gone)
    PROVE  /\ step' \in [Calls -> Steps]
           /\ attempt' \in [Calls -> 0 .. MaxAttempts - 1]
           /\ jit' \in [Calls -> RunnerIds \cup {NoRunner}]
           /\ made' \in [Calls -> BOOLEAN]
           /\ cancelled' \in [Calls -> BOOLEAN]
  BY NoAttempt DEF DispatcherTypeOK, Forget, Steps

\* Types are kept by every step.
LEMMA DispatcherTypeStep ==
    DispatcherTypeOK /\ [DispatcherNext]_vars => DispatcherTypeOK'
<1> SUFFICES ASSUME DispatcherTypeOK, [DispatcherNext]_vars PROVE DispatcherTypeOK'
  OBVIOUS
<1>0. TypeOK'
  BY LockStep, TypeStep DEF DispatcherTypeOK
<1> USE <1>0, AttemptsAssumption DEF DispatcherTypeOK, callVars, clusterVars
<1>1. ASSUME NEW c \in Calls, Begin(c) \/ Work(c) \/ LeaderCancelled(c)
      PROVE  DispatcherTypeOK'
  <2>1. CASE Begin(c) \/ LeaderCancelled(c)
    BY <2>1 DEF Begin, LeaderCancelled, Proceed, Steps
  <2>2. CASE Dup1(c) \/ Return(c)
    BY <2>2, ForgetTypes DEF Dup1, Return, Proceed, Steps
  <2>3. CASE LockJob(c) \/ Dup2(c) \/ ReadLease(c)
    BY <2>3 DEF LockJob, Dup2, ReadLease, Proceed, Steps
  <2>4. CASE ClaimLease(c) \/ ReleaseLease(c) \/ Dup3(c)
    BY <2>4 DEF ClaimLease, ReleaseLease, Dup3, Proceed, Steps
  <2>5. CASE RegisterRunner(c)
    BY <2>5 DEF RegisterRunner, Succeed, FailAttempt, FreshIds, Steps
  <2>6. CASE CreateSecret(c)
    BY <2>6 DEF CreateSecret, Try, Succeed, FailAttempt, Steps
  <2>7. CASE CreateJob(c)
    BY <2>7 DEF CreateJob, Try, Succeed, FailAttempt, Steps
  <2>8. CASE PatchOwner(c)
    BY <2>8 DEF PatchOwner, Try, Succeed, FailAttempt, Steps
  <2>9. CASE DropSecret(c) \/ DropRunner(c)
    BY <2>9 DEF DropSecret, DropRunner, Proceed, Steps
  <2> QED
    BY <1>1, <2>1, <2>2, <2>3, <2>4, <2>5, <2>6, <2>7, <2>8, <2>9 DEF Work
<1>2. ASSUME NEW r \in Replicas, ReplicaCrashes(r) PROVE DispatcherTypeOK'
  BY <1>2, ForgetTypes DEF ReplicaCrashes
<1>3. ASSUME NEW id \in RunnerIds, SweepRunner(id) PROVE DispatcherTypeOK'
  BY <1>3 DEF SweepRunner
<1>4. CASE LeaseExpires \/ PodRuns \/ PodFails \/ JobDeleted \/ GarbageCollected \/ CalmDown
  BY <1>4 DEF LeaseExpires, PodRuns, PodFails, JobDeleted, GarbageCollected, CalmDown
<1>5. CASE UNCHANGED vars
  BY <1>5 DEF vars
<1> QED
  BY <1>1, <1>2, <1>3, <1>4, <1>5 DEF DispatcherNext

\* A call stays in its phase.
LEMMA PhaseStep == DispatcherTypeOK /\ Phase /\ [DispatcherNext]_vars => Phase'
<1> SUFFICES ASSUME DispatcherTypeOK, Phase, [DispatcherNext]_vars PROVE Phase'
  OBVIOUS
<1> USE DEF DispatcherTypeOK, TypeOK, Phase, CriticalSteps, Goto, lockVars
<1>1. ASSUME NEW c \in Calls, Begin(c) \/ Work(c) \/ LeaderCancelled(c) PROVE Phase'
  <2>1. CASE Begin(c) \/ LeaderCancelled(c)
    BY <2>1 DEF Begin, LeaderCancelled, Proceed
  <2>2. CASE Dup1(c)
    BY <2>2 DEF Dup1, Enter, Proceed, Forget
  <2>3. CASE LockJob(c)
    BY <2>3 DEF LockJob, AcquireMutex, callVars
  <2>4. CASE Dup2(c) \/ ReadLease(c)
    BY <2>4 DEF Dup2, ReadLease, Bail, GetLease, Proceed
  <2>5. CASE ClaimLease(c)
    BY <2>5 DEF ClaimLease, CreateLease, TakeOver, Refused, ClaimFails, ClaimLost,
                CanCreate, CanTakeOver, Proceed
  <2>6. CASE Dup3(c) \/ DropSecret(c) \/ DropRunner(c)
    BY <2>6 DEF Dup3, DropSecret, DropRunner, Proceed
  <2>7. CASE RegisterRunner(c)
    BY <2>7 DEF RegisterRunner, Succeed, FailAttempt
  <2>8. CASE CreateSecret(c) \/ CreateJob(c) \/ PatchOwner(c)
    BY <2>8 DEF CreateSecret, CreateJob, PatchOwner, Try, Succeed, FailAttempt
  <2>9. CASE ReleaseLease(c)
    BY <2>9 DEF ReleaseLease, Release, ReleaseFails, Proceed
  <2>10. CASE Return(c)
    BY <2>10 DEF Return, Unlock, Forget
  <2> QED
    BY <1>1, <2>1, <2>2, <2>3, <2>4, <2>5, <2>6, <2>7, <2>8, <2>9, <2>10 DEF Work
<1>2. ASSUME NEW r \in Replicas, ReplicaCrashes(r) PROVE Phase'
  BY <1>2 DEF ReplicaCrashes, Crash, Forget
<1>3. ASSUME NEW id \in RunnerIds, SweepRunner(id) PROVE Phase'
  BY <1>3 DEF SweepRunner, callVars
<1>4. CASE LeaseExpires
  BY <1>4 DEF LeaseExpires, Expire, callVars
<1>5. CASE PodRuns \/ PodFails \/ JobDeleted \/ GarbageCollected \/ CalmDown
  BY <1>5 DEF PodRuns, PodFails, JobDeleted, GarbageCollected, CalmDown, callVars
<1>6. CASE UNCHANGED vars
  BY <1>6 DEF vars, callVars
<1> QED
  BY <1>1, <1>2, <1>3, <1>4, <1>5, <1>6 DEF DispatcherNext

\* After a step that leaves no overrun, either there was none before, or no
\* call is in a critical step.
LEMMA CleanOrIdle ==
    ASSUME DispatcherInv, [DispatcherNext]_vars, ~overrun'
    PROVE  ~overrun \/ \A c \in Calls : step'[c] \notin CriticalSteps
<1>1. ASSUME overrun, NEW c \in Calls PROVE step'[c] \notin CriticalSteps
  <2>1. Phase'
    BY PhaseStep DEF DispatcherInv
  <2>2. Critical' = {}
    BY <1>1, LockStep, OverrunEnds
  <2> QED
    BY <2>1, <2>2 DEF Phase, Critical
<1> QED
  BY <1>1

\* No Job appears between the last duplicate check and the Create.
LEMMA NoJobYetStep == DispatcherInv /\ [DispatcherNext]_vars => NoJobYet'
<1> SUFFICES ASSUME DispatcherInv, [DispatcherNext]_vars, ~overrun',
                    NEW c \in Calls, step'[c] \in {"jit", "secret"}
             PROVE  job' = "none"
  BY DEF NoJobYet
<1>1. ~overrun
  BY CleanOrIdle DEF CriticalSteps
<1> USE <1>1 DEF DispatcherInv, DispatcherTypeOK, NoJobYet
<1>2. ASSUME NEW d \in Calls, Begin(d) \/ Work(d) \/ LeaderCancelled(d)
      PROVE  job' = "none"
  <2>1. CASE Begin(d) \/ LeaderCancelled(d) \/ LockJob(d)
    BY <2>1 DEF Begin, LeaderCancelled, LockJob, Proceed, callVars, clusterVars
  <2>2. CASE Dup1(d) \/ Return(d)
    BY <2>2 DEF Dup1, Return, Proceed, Forget, clusterVars
  <2>3. CASE Dup2(d) \/ ReadLease(d) \/ ClaimLease(d) \/ ReleaseLease(d)
    BY <2>3 DEF Dup2, ReadLease, ClaimLease, ReleaseLease, Proceed, clusterVars
  <2>4. CASE Dup3(d)
    BY <2>4 DEF Dup3, Unique, Duplicate, Proceed, clusterVars
  <2>5. CASE RegisterRunner(d)
    BY <2>5 DEF RegisterRunner, Succeed, FailAttempt
  <2>6. CASE CreateSecret(d)
    BY <2>6 DEF CreateSecret, Try, Succeed, FailAttempt
  <2>7. CASE CreateJob(d)
    <3>1. step[d] = "job" /\ step'[d] \in {"job", "patch", "dropSecret"}
      BY <2>7 DEF CreateJob, Try, Succeed, FailAttempt
    <3>2. c # d
      BY <3>1
    <3>3. step'[c] = step[c]
      BY <2>7, <3>2 DEF CreateJob, Try, Succeed, FailAttempt
    <3> QED
      BY <3>1, <3>2, <3>3, OneWorker DEF CriticalSteps
  <2>8. CASE PatchOwner(d)
    BY <2>8 DEF PatchOwner, Try, Succeed, FailAttempt
  <2>9. CASE DropSecret(d) \/ DropRunner(d)
    BY <2>9 DEF DropSecret, DropRunner, Proceed
  <2> QED
    BY <1>2, <2>1, <2>2, <2>3, <2>4, <2>5, <2>6, <2>7, <2>8, <2>9 DEF Work
<1>3. ASSUME NEW r \in Replicas, ReplicaCrashes(r) PROVE job' = "none"
  BY <1>3 DEF ReplicaCrashes, Forget, clusterVars
<1>4. ASSUME NEW id \in RunnerIds, SweepRunner(id) PROVE job' = "none"
  BY <1>4 DEF SweepRunner, callVars
<1>5. CASE LeaseExpires \/ PodRuns \/ PodFails \/ JobDeleted \/ GarbageCollected \/ CalmDown
  BY <1>5 DEF LeaseExpires, PodRuns, PodFails, JobDeleted, GarbageCollected, CalmDown,
              callVars, clusterVars
<1>6. CASE UNCHANGED vars
  BY <1>6 DEF vars, callVars, clusterVars
<1> QED
  BY <1>2, <1>3, <1>4, <1>5, <1>6 DEF DispatcherNext

\* The Secret of a call past its Create stays the call's own.
LEMMA OwnConfigStep == DispatcherInv /\ [DispatcherNext]_vars => OwnConfig'
<1> SUFFICES ASSUME DispatcherInv, [DispatcherNext]_vars, ~overrun', NEW c \in Calls,
                    step'[c] \in {"job", "patch", "dropSecret", "dropPatched"},
                    secret' # "none"
             PROVE  config' = jit'[c]
  BY DEF OwnConfig
<1>1. ~overrun
  BY CleanOrIdle DEF CriticalSteps
<1> USE <1>1 DEF DispatcherInv, DispatcherTypeOK, OwnConfig
<1>2. ASSUME NEW d \in Calls, Begin(d) \/ Work(d) \/ LeaderCancelled(d)
      PROVE  config' = jit'[c]
  <2>1. CASE Begin(d) \/ LeaderCancelled(d) \/ LockJob(d)
    BY <2>1 DEF Begin, LeaderCancelled, LockJob, Proceed, callVars, clusterVars
  <2>2. CASE Dup1(d) \/ Return(d)
    BY <2>2 DEF Dup1, Return, Proceed, Forget, clusterVars
  <2>3. CASE Dup2(d) \/ ReadLease(d) \/ ClaimLease(d) \/ ReleaseLease(d) \/ Dup3(d)
    BY <2>3 DEF Dup2, ReadLease, ClaimLease, ReleaseLease, Dup3, Proceed, clusterVars
  <2>4. CASE RegisterRunner(d)
    BY <2>4 DEF RegisterRunner, Succeed, FailAttempt
  <2>5. CASE CreateSecret(d)
    <3>1. CASE c = d
      BY <2>5, <3>1 DEF CreateSecret, Try, Succeed, FailAttempt
    <3>2. CASE c # d
      <4>1. step'[c] = step[c] /\ step[d] = "secret"
        BY <2>5, <3>2 DEF CreateSecret, Try, Succeed, FailAttempt
      <4> QED
        BY <3>2, <4>1, OneWorker DEF CriticalSteps
    <3> QED
      BY <3>1, <3>2
  <2>6. CASE CreateJob(d)
    BY <2>6 DEF CreateJob, Try, Succeed, FailAttempt
  <2>7. CASE PatchOwner(d)
    <3>1. CASE c = d
      BY <2>7, <3>1 DEF PatchOwner, Try, Succeed, FailAttempt
    <3>2. CASE c # d
      <4>1. step'[c] = step[c] /\ step[d] = "patch"
        BY <2>7, <3>2 DEF PatchOwner, Try, Succeed, FailAttempt
      <4> QED
        BY <3>2, <4>1, OneWorker DEF CriticalSteps
    <3> QED
      BY <3>1, <3>2
  <2>8. CASE DropSecret(d) \/ DropRunner(d)
    BY <2>8 DEF DropSecret, DropRunner, Proceed
  <2> QED
    BY <1>2, <2>1, <2>2, <2>3, <2>4, <2>5, <2>6, <2>7, <2>8 DEF Work
<1>3. ASSUME NEW r \in Replicas, ReplicaCrashes(r) PROVE config' = jit'[c]
  BY <1>3 DEF ReplicaCrashes, Forget, clusterVars
<1>4. ASSUME NEW id \in RunnerIds, SweepRunner(id) PROVE config' = jit'[c]
  BY <1>4 DEF SweepRunner, callVars
<1>5. CASE LeaseExpires \/ PodRuns \/ PodFails \/ JobDeleted \/ GarbageCollected \/ CalmDown
  BY <1>5 DEF LeaseExpires, PodRuns, PodFails, JobDeleted, GarbageCollected, CalmDown,
              callVars, clusterVars
<1>6. CASE UNCHANGED vars
  BY <1>6 DEF vars, callVars, clusterVars
<1> QED
  BY <1>2, <1>3, <1>4, <1>5, <1>6 DEF DispatcherNext

\* Every step preserves the invariant.
LEMMA DispatcherInvStep == DispatcherInv /\ [DispatcherNext]_vars => DispatcherInv'
<1> SUFFICES ASSUME DispatcherInv, [DispatcherNext]_vars PROVE DispatcherInv'
  OBVIOUS
<1>1. DispatcherTypeOK'
  BY DispatcherTypeStep DEF DispatcherInv
<1>2. LockInv'
  BY LockStep, TypeStep, MutexStep, LeaseStep DEF DispatcherInv, LockInv
<1>3. Phase'
  BY PhaseStep DEF DispatcherInv
<1> QED
  BY <1>1, <1>2, <1>3, NoJobYetStep, OwnConfigStep DEF DispatcherInv

\* DispatcherInv holds in every reachable state.
LEMMA DispatcherInvariant == DispatcherSpec => []DispatcherInv
  BY DispatcherInvInit, DispatcherInvStep, PTL DEF DispatcherSpec

-----------------------------------------------------------------------------
\* The variables of the dispatcher keep their types.
THEOREM DispatcherTypeCorrect == DispatcherSpec => []DispatcherTypeOK
<1>1. DispatcherInv => DispatcherTypeOK
  BY DEF DispatcherInv
<1> QED
  BY <1>1, DispatcherInvariant, PTL

\* The dispatcher drives mutex and Lease as DispatchLock allows, in whatever
\* order its own steps, errors and retries come.
THEOREM DispatcherUsesLock == DispatcherSpec => Spec
<1>1. DispatcherInit => Init
  BY DEF DispatcherInit
<1> QED
  BY <1>1, LockStep, PTL DEF DispatcherSpec, Spec

\* So the dispatcher too is serialized until a Lease expires under its holder.
THEOREM DispatchExcludes == DispatcherSpec => []MutualExclusion
  BY DispatcherUsesLock, LockExcludes, PTL

\* Calls between a successful TryAcquire and its release are the holders of
\* the abstract lock, whatever Dispatch does in between, and however it returns.
THEOREM DispatchImplementsLock == DispatcherSpec => ImplementsAbstractLock
  BY DispatcherUsesLock, LockRefinement, PTL

\* A sweep that finds the Lease free meets no dispatch past its lock, until a
\* Lease expires under its holder.
THEOREM DispatchIsVisible == DispatcherSpec => []CriticalIsLocked
  BY DispatcherUsesLock, LockIsVisible, PTL

-----------------------------------------------------------------------------
\* Where its two locks are while a call is outside its critical section.
Outskirts ==
    \A c \in Calls :
        /\ step[c] \in {"idle", "dup1"} => pc[c] = "out"
        /\ step[c] = "dup2" => pc[c] \in {"waiting", "inside"}
        /\ step[c] = "lease" => pc[c] = "inside"
        /\ step[c] = "claim" => pc[c] = "got"
        /\ step[c] = "return" => pc[c] = "leaving"

LEMMA OutskirtsStep ==
    DispatcherTypeOK /\ Phase /\ Outskirts /\ [DispatcherNext]_vars => Outskirts'
<1> SUFFICES ASSUME DispatcherTypeOK, Phase, Outskirts, [DispatcherNext]_vars PROVE Outskirts'
  OBVIOUS
<1> USE DEF DispatcherTypeOK, TypeOK, Outskirts, Goto, lockVars
<1>1. ASSUME NEW c \in Calls, Begin(c) \/ Work(c) \/ LeaderCancelled(c) PROVE Outskirts'
  <2>1. CASE Begin(c) \/ LeaderCancelled(c)
    BY <2>1 DEF Begin, LeaderCancelled, Proceed
  <2>2. CASE Dup1(c)
    BY <2>2 DEF Dup1, Enter, Proceed, Forget
  <2>3. CASE LockJob(c)
    <3>1. step[c] = "dup2"
      BY <2>3 DEF LockJob, AcquireMutex, Phase, CriticalSteps, Steps
    <3> QED
      BY <2>3, <3>1 DEF LockJob, AcquireMutex, callVars
  <2>4. CASE Dup2(c) \/ ReadLease(c)
    BY <2>4 DEF Dup2, ReadLease, Bail, GetLease, Proceed
  <2>5. CASE ClaimLease(c)
    BY <2>5 DEF ClaimLease, CreateLease, TakeOver, Refused, ClaimFails, ClaimLost,
                CanCreate, CanTakeOver, Proceed
  <2>6. CASE Dup3(c) \/ DropSecret(c) \/ DropRunner(c)
    BY <2>6 DEF Dup3, DropSecret, DropRunner, Proceed
  <2>7. CASE RegisterRunner(c)
    BY <2>7 DEF RegisterRunner, Succeed, FailAttempt
  <2>8. CASE CreateSecret(c) \/ CreateJob(c) \/ PatchOwner(c)
    BY <2>8 DEF CreateSecret, CreateJob, PatchOwner, Try, Succeed, FailAttempt
  <2>9. CASE ReleaseLease(c)
    BY <2>9 DEF ReleaseLease, Release, ReleaseFails, Proceed
  <2>10. CASE Return(c)
    BY <2>10 DEF Return, Unlock, Forget
  <2> QED
    BY <1>1, <2>1, <2>2, <2>3, <2>4, <2>5, <2>6, <2>7, <2>8, <2>9, <2>10 DEF Work
<1>2. ASSUME NEW r \in Replicas, ReplicaCrashes(r) PROVE Outskirts'
  BY <1>2 DEF ReplicaCrashes, Crash, Forget
<1>3. ASSUME NEW id \in RunnerIds, SweepRunner(id) PROVE Outskirts'
  BY <1>3 DEF SweepRunner, callVars
<1>4. CASE LeaseExpires
  BY <1>4 DEF LeaseExpires, Expire, callVars
<1>5. CASE PodRuns \/ PodFails \/ JobDeleted \/ GarbageCollected \/ CalmDown
  BY <1>5 DEF PodRuns, PodFails, JobDeleted, GarbageCollected, CalmDown, callVars
<1>6. CASE UNCHANGED vars
  BY <1>6 DEF vars, callVars
<1> QED
  BY <1>1, <1>2, <1>3, <1>4, <1>5, <1>6 DEF DispatcherNext

\* Whichever of its returns a Dispatch takes, after an error, a duplicate, a
\* refused lock, used-up retries or a cancelled context, and if its process
\* crashes: no mutex is left taken and no call counts as past TryAcquire.
THEOREM DispatchHoldsNothing == DispatcherSpec => []NothingHeld
<1>1. DispatcherInit => Outskirts
  BY DEF DispatcherInit, Init, Outskirts
<1>2. DispatcherInv /\ Outskirts /\ [DispatcherNext]_vars => Outskirts'
  BY OutskirtsStep DEF DispatcherInv
<1>3. Outskirts /\ NoMutexLeft => NothingHeld
  BY NoCallAssumption DEF Outskirts, NoMutexLeft, NothingHeld, Locked
<1>4. DispatcherSpec => []NoMutexLeft
  BY DispatcherUsesLock, MutexIsHeld, PTL
<1> QED
  BY <1>1, <1>2, <1>3, <1>4, DispatcherInvariant, PTL DEF DispatcherSpec

-----------------------------------------------------------------------------
\* Nobody has overrun whose call is over.
OverrunAtWork == overrun => Critical # {}

LEMMA OverrunAtWorkStep == LockInv /\ OverrunAtWork /\ [Next]_lockVars => OverrunAtWork'
<1> SUFFICES ASSUME LockInv, OverrunAtWork, [Next]_lockVars PROVE OverrunAtWork'
  OBVIOUS
<1>1. [Abstract!Next]_<<Critical, overrun>>
  BY RefinementStep
<1> QED
  BY <1>1 DEF OverrunAtWork, Abstract!Next, Abstract!Acquire, Abstract!Leave, Abstract!Overrun

\* A step of the lock is a step of the abstract dispatch that creates nothing.
LEMMA OutsideLockStep ==
    ASSUME LockInv, OverrunAtWork, [Next]_lockVars, job' = job
    PROVE  [Outside!DispatchNext]_(Outside!dispatchVars)
<1> USE DEF LockInv, TypeOK, Critical, Goto
<1>1. CASE Expire
  <2>1. Outside!Expire
    BY <1>1 DEF Expire, Outside!Expire
  <2> QED
    BY <2>1 DEF Outside!DispatchNext
<1>2. ASSUME NEW c \in Calls, Enter(c) \/ CallStep(c)
      PROVE  [Outside!DispatchNext]_(Outside!dispatchVars)
  <2>1. CASE Enter(c) \/ AcquireMutex(c) \/ Unlock(c) \/ Bail(c) \/ GetLease(c) \/ Refused(c)
             \/ ClaimFails(c)
    <3>1. UNCHANGED <<overrun, lease, job>>
      BY <2>1 DEF Enter, AcquireMutex, Unlock, Bail, GetLease, Refused, ClaimFails
    <3>2. Critical' = Critical
      BY <2>1 DEF Enter, AcquireMutex, Unlock, Bail, GetLease, Refused, ClaimFails,
         CanCreate, CanTakeOver
    <3> QED
      BY <3>1, <3>2 DEF Outside!dispatchVars, Outside!vars
  <2>2. CASE CreateLease(c) \/ TakeOver(c)
    <3>1. overrun \/ Critical = {}
      BY <2>2, ClaimFindsNobody DEF CreateLease, TakeOver
    <3>2. /\ Critical' = Critical \cup {c} /\ overrun' = overrun
          /\ lease # "active" /\ lease' = "active"
      BY <2>2 DEF CreateLease, TakeOver, CanCreate, CanTakeOver, WriteLease
    <3>3. Outside!Claim(c)
      BY <3>1, <3>2 DEF Outside!Claim, Outside!Acquire
    <3> QED
      BY <3>3 DEF Outside!DispatchNext
  <2>3. CASE ClaimLost(c)
    <3>1. UNCHANGED <<Critical, overrun>> /\ lease # "active" /\ lease' = "active"
      BY <2>3 DEF ClaimLost, CanCreate, CanTakeOver, WriteLease
    <3>2. Outside!ClaimUnheard
      BY <3>1 DEF Outside!ClaimUnheard, Outside!vars
    <3> QED
      BY <3>2 DEF Outside!DispatchNext
  <2>4. CASE Release(c) \/ ReleaseFails(c)
    <3>1. Critical' = Critical \ {c} /\ {c} \in SUBSET Critical
      BY <2>4 DEF Release, ReleaseFails
    <3>2. overrun' = (overrun /\ Critical' # {})
      BY <2>4 DEF Release, ReleaseFails, Settle
    <3>3. lease' = lease \/ lease' = "absent"
      BY <2>4 DEF Release, ReleaseFails
    <3>4. Outside!Leave({c})
      BY <3>1, <3>2 DEF Outside!Leave
    <3>5. Outside!Return({c})
      BY <3>3, <3>4 DEF Outside!Return
    <3> QED
      BY <3>1, <3>5 DEF Outside!DispatchNext
  <2> QED
    BY <1>2, <2>1, <2>2, <2>3, <2>4 DEF CallStep
<1>3. ASSUME NEW r \in Replicas, Crash(r)
      PROVE  [Outside!DispatchNext]_(Outside!dispatchVars)
  <2> DEFINE Gone == {c \in Critical : ReplicaOf[c] = r}
  <2>1. Critical' = Critical \ Gone /\ lease' = lease
    BY <1>3 DEF Crash
  <2>2. overrun' = (overrun /\ Critical' # {})
    BY <1>3 DEF Crash, Settle
  <2>3. Gone \in SUBSET Critical
    OBVIOUS
  <2> HIDE DEF Gone, Critical
  <2>4. CASE Gone = {}
    <3>1. UNCHANGED <<Critical, overrun, lease, job>>
      <4>1. Critical' = Critical
        BY <2>1, <2>4
      <4>2. overrun' = overrun
        BY <2>2, <4>1 DEF OverrunAtWork
      <4> QED
        BY <2>1, <4>1, <4>2
    <3> QED
      BY <3>1 DEF Outside!dispatchVars, Outside!vars
  <2>5. CASE Gone # {}
    <3>1. Outside!Leave(Gone)
      BY <2>1, <2>2 DEF Outside!Leave
    <3>2. Outside!Return(Gone)
      BY <2>1, <2>5, <3>1 DEF Outside!Return
    <3> QED
      BY <2>3, <3>2 DEF Outside!DispatchNext
  <2> QED
    BY <2>4, <2>5
<1>4. CASE UNCHANGED lockVars
  BY <1>4 DEF lockVars, Outside!dispatchVars, Outside!vars
<1> QED
  BY <1>1, <1>2, <1>3, <1>4 DEF Next

\* A step of the Job is a step of the abstract dispatch that leaves the lock alone.
LEMMA OutsideJobStep ==
    ASSUME UNCHANGED lockVars,
           \/ job = "none" /\ job' = "pending" /\ Critical # {}
           \/ job # "none" /\ job' # "none"
           \/ job' = "none"
    PROVE  [Outside!DispatchNext]_(Outside!dispatchVars)
<1>0. UNCHANGED <<Critical, overrun, lease>>
  BY DEF lockVars, Critical
<1> HIDE DEF Critical
<1>1. CASE job = "none" /\ job' = "pending" /\ Critical # {}
  <2>1. Outside!Create
    BY <1>0, <1>1 DEF Outside!Create, Outside!vars
  <2> QED
    BY <2>1 DEF Outside!DispatchNext
<1>2. CASE job # "none" /\ job' = "none"
  <2>1. Outside!Delete
    BY <1>0, <1>2 DEF Outside!Delete, Outside!vars
  <2> QED
    BY <2>1 DEF Outside!DispatchNext
<1>3. CASE (job # "none" /\ job' # "none") \/ (job = "none" /\ job' = "none")
  BY <1>0, <1>3 DEF Outside!dispatchVars, Outside!vars
<1> QED
  BY <1>1, <1>2, <1>3

\* Every step is one of the two.
LEMMA OutsideStep ==
    ASSUME DispatcherInv, OverrunAtWork, [DispatcherNext]_vars
    PROVE  [Outside!DispatchNext]_(Outside!dispatchVars)
<1>1. [Next]_lockVars /\ LockInv
  BY LockStep DEF DispatcherInv
<1>2. CASE job' = job
  BY <1>1, <1>2, OutsideLockStep
<1>3. ASSUME NEW c \in Calls, CreateJob(c) PROVE [Outside!DispatchNext]_(Outside!dispatchVars)
  <2>1. step[c] = "job" /\ UNCHANGED lockVars
    BY <1>3 DEF CreateJob, Try
  <2>2. job' = job \/ (job = "none" /\ job' = "pending")
    BY <1>3 DEF CreateJob, Try
  <2>3. Critical # {}
    BY <2>1 DEF DispatcherInv, Phase, CriticalSteps, Critical
  <2> QED
    BY <1>2, <2>1, <2>2, <2>3, OutsideJobStep
<1>4. CASE PodRuns \/ PodFails \/ JobDeleted
  <2>1. UNCHANGED lockVars /\ (job' = "none" \/ (job # "none" /\ job' # "none"))
    BY <1>4 DEF PodRuns, PodFails, JobDeleted
  <2> QED
    BY <2>1, OutsideJobStep
<1>5. job' = job \/ PodRuns \/ PodFails \/ JobDeleted \/ \E c \in Calls : CreateJob(c)
  BY DEF DispatcherNext, Begin, Work, LeaderCancelled, Dup1, LockJob, Dup2, ReadLease, ClaimLease,
     Dup3, RegisterRunner, CreateSecret, PatchOwner, Try, DropSecret, DropRunner, ReleaseLease,
     Return, ReplicaCrashes, SweepRunner, LeaseExpires, GarbageCollected, CalmDown, vars, clusterVars
<1> QED
  BY <1>2, <1>3, <1>4, <1>5

\* Whatever fails, gets lost, crashes, overruns or is deleted: the others see a
\* Job appear only where there is none and only while a call is past TryAcquire,
\* and the lock taken when it is free and given back when such a call ends.
THEOREM DispatchImplementsOutside == DispatcherSpec => ImplementsAbstractDispatch
<1>1. DispatcherInit => Outside!DispatchInit /\ OverrunAtWork
  BY DEF DispatcherInit, Init, Outside!DispatchInit, Outside!Init, OverrunAtWork, Critical
<1>2. DispatcherInv /\ OverrunAtWork /\ [DispatcherNext]_vars => OverrunAtWork'
  BY LockStep, OverrunAtWorkStep DEF DispatcherInv
<1>3. DispatcherInv /\ OverrunAtWork /\ [DispatcherNext]_vars
        => [Outside!DispatchNext]_(Outside!dispatchVars)
  BY OutsideStep
<1> QED
  BY <1>1, <1>2, <1>3, DispatcherInvariant, PTL
  DEF DispatcherSpec, ImplementsAbstractDispatch, Outside!DispatchSpec

\* No runner is registered while a Job for the workflow job exists, under any
\* faults but an overrun.
THEOREM DispatchDedups == DispatcherSpec => DedupBeforeJIT
<1>1. DispatcherInv /\ [DispatcherNext]_vars => [DedupStep]_vars
  <2> SUFFICES ASSUME DispatcherInv, [DispatcherNext]_vars,
                      ~ (runners' \subseteq runners), ~overrun
               PROVE  job = "none"
    BY DEF DedupStep
  <2>1. \E c \in Calls : RegisterRunner(c)
    BY DEF DispatcherNext, Begin, Work, LeaderCancelled, Dup1, LockJob, Dup2, ReadLease,
           ClaimLease, Dup3, CreateSecret, CreateJob, PatchOwner, Try, DropSecret,
           DropRunner, ReleaseLease, Return, ReplicaCrashes, SweepRunner, LeaseExpires,
           PodRuns, PodFails, JobDeleted, GarbageCollected, CalmDown, vars, clusterVars
  <2> QED
    BY <2>1 DEF DispatcherInv, NoJobYet, RegisterRunner
<1> QED
  BY <1>1, DispatcherInvariant, PTL DEF DispatcherSpec, DedupBeforeJIT

\* A call that cleans up never deletes the Secret of another call's runner,
\* under any faults but an overrun.
THEOREM DispatchDropsOwn == DispatcherSpec => DropsOwnSecret
<1>1. DispatcherInv /\ [DispatcherNext]_vars => [DropStep]_vars
  BY DEF DispatcherInv, OwnConfig, DropStep
<1> QED
  BY <1>1, DispatcherInvariant, PTL DEF DispatcherSpec, DropsOwnSecret

-----------------------------------------------------------------------------
(* What holds as long as some of the faults stay away.                       *)

\* What a call does is no other call's business.
LEMMA OthersStay ==
    ASSUME DispatcherTypeOK, NEW c \in Calls, NEW d \in Calls, c # d,
           Begin(d) \/ Work(d) \/ LeaderCancelled(d)
    PROVE  /\ step'[c] = step[c] /\ jit'[c] = jit[c]
           /\ made'[c] = made[c] /\ cancelled'[c] = cancelled[c]
<1> USE DEF DispatcherTypeOK, Proceed, callVars, Succeed, FailAttempt
<1>1. CASE Begin(d) \/ LeaderCancelled(d) \/ LockJob(d)
  BY <1>1 DEF Begin, LeaderCancelled, LockJob
<1>2. CASE Dup1(d) \/ Return(d)
  BY <1>2 DEF Dup1, Return, Forget
<1>3. CASE Dup2(d) \/ ReadLease(d) \/ ClaimLease(d) \/ ReleaseLease(d) \/ Dup3(d)
  BY <1>3 DEF Dup2, ReadLease, ClaimLease, ReleaseLease, Dup3
<1>4. CASE RegisterRunner(d)
  BY <1>4 DEF RegisterRunner
<1>5. CASE CreateSecret(d) \/ CreateJob(d) \/ PatchOwner(d)
  BY <1>5 DEF CreateSecret, CreateJob, PatchOwner, Try
<1>6. CASE DropSecret(d) \/ DropRunner(d)
  BY <1>6 DEF DropSecret, DropRunner
<1> QED
  BY <1>1, <1>2, <1>3, <1>4, <1>5, <1>6 DEF Work

\* A call whose context is cancelled has a leader that lost its lease.
NoneCancelled == \A c \in Calls : ~cancelled[c]

\* Without cancellations no call is ever cancelled.
LEMMA NotCancelled ==
    ASSUME "cancel" \notin Mishaps
    PROVE  DispatcherSpec => []NoneCancelled
<1>1. DispatcherInit => NoneCancelled
  BY DEF DispatcherInit, NoneCancelled
<1>2. NoneCancelled /\ DispatcherInv /\ [DispatcherNext]_vars => NoneCancelled'
  <2> SUFFICES ASSUME NoneCancelled, DispatcherInv, [DispatcherNext]_vars,
                      NEW c \in Calls
               PROVE  ~cancelled'[c]
    BY DEF NoneCancelled
  <2> USE DEF NoneCancelled, DispatcherInv, DispatcherTypeOK
  <2>1. ASSUME NEW d \in Calls, Begin(d) \/ Work(d) \/ LeaderCancelled(d)
        PROVE  ~cancelled'[c]
    BY <2>1 DEF Begin, LeaderCancelled, Work, Dup1, LockJob, Dup2, ReadLease, ClaimLease,
         Dup3, RegisterRunner, CreateSecret, CreateJob, PatchOwner, Try, DropSecret,
         DropRunner, ReleaseLease, Return, Forget, Proceed, callVars
  <2>2. ASSUME NEW r \in Replicas, ReplicaCrashes(r) PROVE ~cancelled'[c]
    BY <2>2 DEF ReplicaCrashes, Forget
  <2>3. ASSUME NEW id \in RunnerIds, SweepRunner(id) PROVE ~cancelled'[c]
    BY <2>3 DEF SweepRunner, callVars
  <2>4. CASE LeaseExpires \/ PodRuns \/ PodFails \/ JobDeleted \/ GarbageCollected
             \/ CalmDown \/ UNCHANGED vars
    BY <2>4 DEF LeaseExpires, PodRuns, PodFails, JobDeleted, GarbageCollected, CalmDown,
                vars, callVars
  <2> QED
    BY <2>1, <2>2, <2>3, <2>4 DEF DispatcherNext
<1> QED
  BY <1>1, <1>2, DispatcherInvariant, PTL DEF DispatcherSpec

\* The steps of a call that is about to give the Secret an owner or delete it.
SecretSteps == {"job", "patch", "dropSecret", "dropPatched"}

\* A Secret without an owner never outlives the call that made it, if no
\* process dies or is cancelled between the two, the answer to the Secret's Create
\* is not lost and its Delete does not fail: under all failures of the Job's
\* Create and of the owner's Update, with lost answers too, and under overruns.
THEOREM DispatchLeavesNoSecret ==
    ASSUME Mishaps \cap {"crash", "cancel"} = {},
           "secret" \notin Lost, "dropSecret" \notin Fails
    PROVE  DispatcherSpec => []NoSecretLeft
<1>1. DispatcherInit => NoSecretLeft
  BY DEF DispatcherInit, NoSecretLeft
<1>2. NoSecretLeft /\ NoneCancelled /\ DispatcherInv /\ [DispatcherNext]_vars => NoSecretLeft'
  <2> SUFFICES ASSUME NoSecretLeft, NoneCancelled, DispatcherInv, [DispatcherNext]_vars,
                      secret' = "bare"
               PROVE  \E c \in Calls : step'[c] \in SecretSteps
    BY DEF NoSecretLeft, SecretSteps
  <2> USE DEF DispatcherInv, DispatcherTypeOK
  <2>1. ASSUME secret # "bare" PROVE \E c \in Calls : step'[c] \in SecretSteps
    <3>1. PICK d \in Calls : CreateSecret(d)
      BY <2>1 DEF DispatcherNext, Begin, Work, LeaderCancelled, Dup1, LockJob, Dup2,
         ReadLease, ClaimLease, Dup3, RegisterRunner, CreateJob, PatchOwner, Try, DropSecret,
         DropRunner, ReleaseLease, Return, ReplicaCrashes, SweepRunner, LeaseExpires,
         PodRuns, PodFails, JobDeleted, GarbageCollected, CalmDown, vars, clusterVars
    <3>2. step'[d] = "job"
      BY <2>1, <3>1 DEF CreateSecret, Try, CanBeLost, Succeed
    <3> QED
      BY <3>2 DEF SecretSteps
  <2>2. ASSUME secret = "bare" PROVE \E c \in Calls : step'[c] \in SecretSteps
    <3>1. PICK c \in Calls : step[c] \in SecretSteps
      BY <2>2 DEF NoSecretLeft, SecretSteps
    <3>2. CASE Begin(c) \/ Work(c) \/ LeaderCancelled(c)
      <4>1. CASE CreateJob(c)
        BY <4>1 DEF CreateJob, Try, Succeed, FailAttempt, SecretSteps
      <4>2. CASE PatchOwner(c)
        BY <4>2 DEF PatchOwner, Try, Succeed, FailAttempt, SecretSteps
      <4>3. CASE DropSecret(c)
        BY <4>3 DEF DropSecret, CanFail, NoneCancelled
      <4>4. CASE LockJob(c) \/ LeaderCancelled(c)
        BY <4>4, <3>1 DEF LockJob, LeaderCancelled, callVars
      <4>5. ~Return(c)
        BY <3>1 DEF Return, Unlock, Phase, CriticalSteps, SecretSteps
      <4> QED
        BY <3>1, <3>2, <4>1, <4>2, <4>3, <4>4, <4>5
        DEF Begin, Work, Dup1, Dup2, ReadLease, ClaimLease, Dup3, RegisterRunner,
            CreateSecret, Try, DropRunner, ReleaseLease, SecretSteps
    <3>3. ASSUME NEW d \in Calls, d # c, Begin(d) \/ Work(d) \/ LeaderCancelled(d)
          PROVE  step'[c] = step[c]
      BY <3>3, OthersStay
    <3>4. CASE UNCHANGED step
      BY <3>1, <3>4
    <3> QED
      BY <3>1, <3>2, <3>3, <3>4
      DEF DispatcherNext, ReplicaCrashes, SweepRunner, LeaseExpires, PodRuns, PodFails,
          JobDeleted, GarbageCollected, CalmDown, vars, callVars
  <2> QED
    BY <2>1, <2>2
<1>3. DispatcherSpec => []NoneCancelled
  BY NotCancelled
<1> QED
  BY <1>1, <1>2, <1>3, DispatcherInvariant, PTL DEF DispatcherSpec

-----------------------------------------------------------------------------
\* The steps before a call knows the ID of a runner of its own.
Unregistered == {"idle", "dup1", "dup2", "lease", "claim", "dup3", "jit"}

\* Past a Job's Create a call has made a Job; and a call about to release has
\* no runner at GitHub unless it has.
RunnerKept ==
    \A c \in Calls :
        /\ step[c] \in Unregistered => jit[c] = NoRunner
        /\ step[c] \in {"patch", "dropPatched"} => made[c]
        /\ step[c] = "release" /\ jit[c] \in runners => made[c]

\* RunnerKept is kept while nothing is cancelled and runners can be deleted.
LEMMA RunnerKeptStep ==
    ASSUME "dropRunner" \notin Fails
    PROVE  RunnerKept /\ NoneCancelled /\ DispatcherInv /\ [DispatcherNext]_vars => RunnerKept'
<1> SUFFICES ASSUME RunnerKept, NoneCancelled, DispatcherInv, [DispatcherNext]_vars,
                    NEW c \in Calls
             PROVE  /\ step'[c] \in Unregistered => jit'[c] = NoRunner
                    /\ step'[c] \in {"patch", "dropPatched"} => made'[c]
                    /\ step'[c] = "release" /\ jit'[c] \in runners' => made'[c]
  BY DEF RunnerKept
<1> DEFINE Kept == /\ step'[c] \in Unregistered => jit'[c] = NoRunner
                   /\ step'[c] \in {"patch", "dropPatched"} => made'[c]
                   /\ step'[c] = "release" /\ jit'[c] \in runners' => made'[c]
<1> USE NoRunnerAssumption DEF DispatcherInv, DispatcherTypeOK
<1>0. /\ step[c] \in Unregistered => jit[c] = NoRunner
      /\ step[c] \in {"patch", "dropPatched"} => made[c]
      /\ step[c] = "release" /\ jit[c] \in runners => made[c]
  BY DEF RunnerKept
<1>1. CASE Begin(c) \/ Work(c) \/ LeaderCancelled(c)
  <2>1. CASE Begin(c)
    BY <1>0, <2>1 DEF Begin, Proceed, Unregistered, clusterVars
  <2>10. CASE LeaderCancelled(c) \/ LockJob(c)
    BY <1>0, <2>10 DEF LeaderCancelled, LockJob, callVars, clusterVars
  <2>2. CASE Dup1(c)
    <3>1. CASE Proceed(c, "dup2")
      BY <1>0, <2>2, <3>1 DEF Dup1, Proceed, Unregistered
    <3>2. CASE Forget({c})
      BY <3>2 DEF Forget
    <3> QED
      BY <2>2, <3>1, <3>2 DEF Dup1
  <2>11. CASE Return(c)
    BY <2>11 DEF Return, Forget
  <2>3. CASE Dup2(c) \/ ReadLease(c) \/ ClaimLease(c) \/ Dup3(c) \/ ReleaseLease(c)
    BY <1>0, <2>3 DEF Dup2, ReadLease, ClaimLease, Dup3, ReleaseLease, Proceed,
                      Unregistered, clusterVars
  <2>4. CASE RegisterRunner(c)
    BY <1>0, <2>4 DEF RegisterRunner, Succeed, FailAttempt, Unregistered, FreshIds
  <2>5. CASE CreateSecret(c)
    BY <1>0, <2>5 DEF CreateSecret, Try, Succeed, FailAttempt, Unregistered
  <2>6. CASE CreateJob(c)
    BY <1>0, <2>6 DEF CreateJob, Try, Succeed, FailAttempt, Unregistered
  <2>7. CASE PatchOwner(c)
    BY <1>0, <2>7 DEF PatchOwner, Try, Succeed, FailAttempt, Unregistered
  <2>8. CASE DropSecret(c)
    BY <1>0, <2>8 DEF DropSecret, Proceed, Unregistered
  <2>9. CASE DropRunner(c)
    BY <1>0, <2>9 DEF DropRunner, Proceed, CanFail, NoneCancelled, Unregistered
  <2> QED
    BY <1>1, <2>1, <2>2, <2>3, <2>4, <2>5, <2>6, <2>7, <2>8, <2>9, <2>10, <2>11 DEF Work
<1>2. ASSUME NEW d \in Calls, d # c, Begin(d) \/ Work(d) \/ LeaderCancelled(d)
      PROVE  Kept
  <2>1. step'[c] = step[c] /\ jit'[c] = jit[c] /\ made'[c] = made[c]
    BY <1>2, OthersStay
  <2>2. jit[c] \in runners' => jit[c] \in runners
    BY <1>2 DEF Begin, Work, LeaderCancelled, Dup1, LockJob, Dup2, ReadLease, ClaimLease,
         Dup3, RegisterRunner, FreshIds, CreateSecret, CreateJob, PatchOwner, Try,
         DropSecret, DropRunner, ReleaseLease, Return, clusterVars
  <2> QED
    BY <1>0, <2>1, <2>2
<1>3. ASSUME NEW r \in Replicas, ReplicaCrashes(r) PROVE Kept
  BY <1>0, <1>3 DEF ReplicaCrashes, Forget, Unregistered, clusterVars
<1>4. ASSUME NEW id \in RunnerIds, SweepRunner(id) PROVE Kept
  BY <1>0, <1>4 DEF SweepRunner, callVars
<1>5. CASE LeaseExpires \/ PodRuns \/ PodFails \/ JobDeleted \/ GarbageCollected
           \/ CalmDown \/ UNCHANGED vars
  BY <1>0, <1>5 DEF LeaseExpires, PodRuns, PodFails, JobDeleted, GarbageCollected, CalmDown,
                    vars, callVars, clusterVars
<1> QED
  BY <1>1, <1>2, <1>3, <1>4, <1>5 DEF DispatcherNext

\* A call that registered a runner and made no Job has taken the runner back
\* when it returns, if its context is not cancelled and GitHub deletes runners
\* when asked to: under crashes, overruns, all other failures and all lost
\* answers, for runners whose ID the call was told.
THEOREM DispatchTakesRunnerBack ==
    ASSUME "cancel" \notin Mishaps, "dropRunner" \notin Fails
    PROVE  DispatcherSpec => RunnerTakenBack
<1>1. DispatcherInit => RunnerKept
  BY NoRunnerAssumption DEF DispatcherInit, RunnerKept, Unregistered
<1>2. RunnerKept /\ NoneCancelled /\ DispatcherInv /\ [DispatcherNext]_vars => RunnerKept'
  BY RunnerKeptStep
<1>3. RunnerKept /\ [DispatcherNext]_vars => [TakenBackStep]_vars
  BY DEF RunnerKept, TakenBackStep
<1>4. DispatcherSpec => []NoneCancelled
  BY NotCancelled
<1> QED
  BY <1>1, <1>2, <1>3, <1>4, DispatcherInvariant, PTL DEF DispatcherSpec, RunnerTakenBack

-----------------------------------------------------------------------------
\* Without overruns a Lease expires under nobody.
LEMMA NoOverrun ==
    ASSUME "overrun" \notin Mishaps
    PROVE  DispatcherSpec => []~overrun
<1>1. DispatcherInit => ~overrun
  BY DEF DispatcherInit, Init
<1>2. ~overrun /\ [DispatcherNext]_vars => ~overrun'
  <2> SUFFICES ASSUME ~overrun, [DispatcherNext]_vars, overrun' PROVE FALSE
    OBVIOUS
  <2>1. [Next]_lockVars
    BY LockStep
  <2>2. Expire
    BY <2>1 DEF Next, Enter, CallStep, AcquireMutex, Unlock, Bail, GetLease, CreateLease,
         TakeOver, ClaimLost, Refused, ClaimFails, Release, ReleaseFails, Crash, Settle,
         lockVars
  <2>3. lease' # lease
    BY <2>2 DEF Expire
  <2>4. CASE LeaseExpires
    BY <2>2, <2>4 DEF LeaseExpires, Expire
  <2>5. ASSUME NEW c \in Calls, Begin(c) \/ Work(c) \/ LeaderCancelled(c) PROVE FALSE
    BY <2>2, <2>5
    DEF Begin, Work, LeaderCancelled, Dup1, LockJob, Dup2, ReadLease, ClaimLease, Dup3,
        RegisterRunner, CreateSecret, CreateJob, PatchOwner, Try, DropSecret, DropRunner,
        ReleaseLease, Return, Enter, AcquireMutex, Bail, GetLease, CreateLease, TakeOver,
        ClaimLost, Refused, ClaimFails, Release, ReleaseFails, Unlock, WriteLease, Expire,
        lockVars
  <2> QED
    BY <2>2, <2>3, <2>4, <2>5
    DEF DispatcherNext, ReplicaCrashes, Crash, Expire, SweepRunner, PodRuns, PodFails,
        JobDeleted, GarbageCollected, CalmDown, vars, lockVars
<1> QED
  BY <1>1, <1>2, PTL DEF DispatcherSpec

\* What a pod needs is there while its Job is pending.
Ready == job = "pending" => secret \in {"bare", "owned"} /\ config \in runners

\* What each call can rely on when it goes on creating or undoing.
CallNeeds(c) ==
    /\ step[c] \in {"job", "dropSecret", "dropRunner"} => job = "none"
    /\ step[c] \in {"secret", "job"} => jit[c] \in runners
    /\ step[c] \in {"job", "patch"} => secret = "bare"
    /\ step[c] = "patch" /\ job # "none" => maker = c
    /\ step[c] = "dropPatched" => cancelled[c]

JobNeeds == Ready /\ \A c \in Calls : CallNeeds(c)

\* The steps at which CallNeeds says something.
NeedySteps == {"secret", "job", "patch", "dropSecret", "dropRunner", "dropPatched"}

\* Nothing a pending Job needs is taken away.
LEMMA ReadyStep ==
    ASSUME {"job", "patch"} \cap Lost = {}
    PROVE  JobNeeds /\ ~overrun /\ DispatcherInv /\ [DispatcherNext]_vars => Ready'
<1> SUFFICES ASSUME JobNeeds, ~overrun, DispatcherInv, [DispatcherNext]_vars,
                    job' = "pending"
             PROVE  secret' \in {"bare", "owned"} /\ config' \in runners'
  BY DEF Ready
<1> USE DEF DispatcherInv, DispatcherTypeOK, Ready
<1>1. ASSUME NEW c \in Calls, Begin(c) \/ Work(c) \/ LeaderCancelled(c)
      PROVE  secret' \in {"bare", "owned"} /\ config' \in runners'
  <2>1. CallNeeds(c) /\ Ready
    BY DEF JobNeeds
  <2>2. OwnConfig
    OBVIOUS
  <2>3. CASE CreateSecret(c)
    <3>1. step[c] = "secret" /\ job' = job
      BY <2>3 DEF CreateSecret, Try
    <3>2. UNCHANGED <<secret, config, runners>> \/ secret = "none"
      BY <2>3 DEF CreateSecret, Try
    <3> QED
      BY <2>1, <3>1, <3>2, <2>3 DEF CreateSecret, Try, NoJobYet
  <2>4. CASE CreateJob(c)
    <3>1. step[c] = "job" /\ UNCHANGED <<secret, config, runners>>
      BY <2>4 DEF CreateJob, Try
    <3>2. config = jit[c]
      BY <2>1, <2>2, <3>1 DEF CallNeeds, OwnConfig
    <3> QED
      BY <2>1, <3>1, <3>2 DEF CallNeeds
  <2>5. CASE PatchOwner(c)
    <3>1. step[c] = "patch" /\ UNCHANGED <<job, maker, runners>>
      BY <2>5 DEF PatchOwner, Try
    <3>2. config = jit[c] /\ maker = c
      BY <2>1, <2>2, <3>1 DEF CallNeeds, OwnConfig
    <3> QED
      BY <2>1, <2>5, <3>1, <3>2 DEF PatchOwner, Try
  <2>6. CASE DropSecret(c)
    <3>1. step[c] = "dropPatched" /\ UNCHANGED <<job, runners>>
      BY <2>1, <2>6 DEF DropSecret, CallNeeds
    <3>2. UNCHANGED <<secret, config>>
      BY <2>1, <2>6, <3>1 DEF DropSecret, CanWork, CallNeeds
    <3> QED
      BY <2>1, <3>1, <3>2
  <2>7. CASE DropRunner(c)
    BY <2>1, <2>7 DEF DropRunner, CallNeeds
  <2>8. CASE RegisterRunner(c)
    BY <2>1, <2>8 DEF RegisterRunner
  <2> QED
    BY <1>1, <2>1, <2>3, <2>4, <2>5, <2>6, <2>7, <2>8
    DEF Begin, Work, LeaderCancelled, Dup1, LockJob, Dup2, ReadLease, ClaimLease, Dup3,
        ReleaseLease, Return, clusterVars
<1>2. ASSUME NEW id \in RunnerIds, SweepRunner(id)
      PROVE  secret' \in {"bare", "owned"} /\ config' \in runners'
  BY <1>2 DEF SweepRunner
<1>3. CASE LeaseExpires \/ PodRuns \/ PodFails \/ JobDeleted \/ GarbageCollected
           \/ CalmDown \/ UNCHANGED vars
  BY <1>3 DEF JobNeeds, LeaseExpires, PodRuns, PodFails, JobDeleted, GarbageCollected,
              CalmDown, vars, clusterVars
<1> QED
  BY <1>1, <1>2, <1>3 DEF JobNeeds, DispatcherNext, ReplicaCrashes, clusterVars

\* Each call keeps what it relies on.
LEMMA CallNeedsStep ==
    ASSUME {"job", "patch"} \cap Lost = {}, "patch" \notin Fails, NEW c \in Calls
    PROVE  JobNeeds /\ ~overrun /\ DispatcherInv /\ [DispatcherNext]_vars => CallNeeds(c)'
<1> SUFFICES ASSUME JobNeeds, ~overrun, DispatcherInv, [DispatcherNext]_vars
             PROVE  CallNeeds(c)'
  OBVIOUS
<1>0. CallNeeds(c)
  BY DEF JobNeeds
<1> USE DEF DispatcherInv, DispatcherTypeOK
<1>1. CASE Begin(c) \/ Work(c) \/ LeaderCancelled(c)
  <2>1. CASE Begin(c) \/ LockJob(c)
    BY <1>0, <2>1 DEF Begin, LockJob, Proceed, callVars, clusterVars, CallNeeds
  <2>2. CASE LeaderCancelled(c)
    BY <1>0, <2>2 DEF LeaderCancelled, clusterVars, CallNeeds
  <2>3. CASE Dup1(c)
    BY <2>3 DEF Dup1, Proceed, Forget, CallNeeds
  <2>4. CASE Return(c)
    BY <2>4 DEF Return, Forget, CallNeeds
  <2>5. CASE Dup2(c) \/ ReadLease(c) \/ ClaimLease(c) \/ Dup3(c) \/ ReleaseLease(c)
    BY <2>5 DEF Dup2, ReadLease, ClaimLease, Dup3, ReleaseLease, Proceed, CallNeeds
  <2>6. CASE RegisterRunner(c)
    BY <2>6 DEF RegisterRunner, Succeed, FailAttempt, CallNeeds
  <2>7. CASE CreateSecret(c)
    <3>1. job = "none"
      BY <2>7 DEF CreateSecret, Try, NoJobYet
    <3> QED
      BY <1>0, <2>7, <3>1 DEF CreateSecret, Try, Succeed, FailAttempt, CallNeeds
  <2>8. CASE CreateJob(c)
    BY <1>0, <2>8 DEF CreateJob, Try, CanBeLost, Succeed, FailAttempt, CallNeeds
  <2>9. CASE PatchOwner(c)
    BY <1>0, <2>9 DEF PatchOwner, Try, CanBeLost, CanFail, Succeed, FailAttempt, CallNeeds
  <2>10. CASE DropSecret(c)
    BY <1>0, <2>10 DEF DropSecret, Proceed, CallNeeds
  <2>11. CASE DropRunner(c)
    BY <1>0, <2>11 DEF DropRunner, Proceed, CallNeeds
  <2> QED
    BY <1>1, <2>1, <2>2, <2>3, <2>4, <2>5, <2>6, <2>7, <2>8, <2>9, <2>10, <2>11 DEF Work
<1>2. ASSUME NEW d \in Calls, d # c, Begin(d) \/ Work(d) \/ LeaderCancelled(d)
      PROVE  CallNeeds(c)'
  <2>1. step'[c] = step[c] /\ jit'[c] = jit[c] /\ cancelled'[c] = cancelled[c]
    BY <1>2, OthersStay
  <2>2. CASE step[c] \notin NeedySteps
    BY <2>1, <2>2 DEF NeedySteps, CallNeeds
  <2>3. CASE step[c] \in NeedySteps
    <3>1. step[d] \notin CriticalSteps
      BY <1>2, <2>3, OneWorker DEF NeedySteps, CriticalSteps
    <3>2. UNCHANGED <<job, maker, secret, runners>>
      BY <1>2, <3>1
      DEF Begin, Work, LeaderCancelled, Dup1, LockJob, Dup2, ReadLease, ClaimLease, Dup3,
          RegisterRunner, CreateSecret, CreateJob, PatchOwner, Try, DropSecret, DropRunner,
          ReleaseLease, Return, clusterVars, CriticalSteps
    <3> QED
      BY <1>0, <2>1, <3>2 DEF CallNeeds
  <2> QED
    BY <2>2, <2>3
<1>3. ASSUME NEW r \in Replicas, ReplicaCrashes(r) PROVE CallNeeds(c)'
  BY <1>0, <1>3 DEF ReplicaCrashes, Forget, clusterVars, CallNeeds
<1>4. ASSUME NEW id \in RunnerIds, SweepRunner(id) PROVE CallNeeds(c)'
  <2>1. step[c] \in {"secret", "job"} => jit[c] # id
    BY <1>4 DEF SweepRunner, Phase, CriticalSteps, Critical
  <2> QED
    BY <1>0, <1>4, <2>1 DEF SweepRunner, callVars, CallNeeds
<1>5. CASE PodRuns
  <2>1. step[c] \notin {"secret", "job"}
    BY <1>0, <1>5 DEF PodRuns, NoJobYet, CallNeeds
  <2> QED
    BY <1>0, <1>5, <2>1 DEF PodRuns, callVars, CallNeeds
<1>6. CASE JobDeleted \/ GarbageCollected
  BY <1>0, <1>6 DEF JobDeleted, GarbageCollected, callVars, CallNeeds
<1>7. CASE LeaseExpires \/ PodFails \/ CalmDown \/ UNCHANGED vars
  BY <1>0, <1>7 DEF LeaseExpires, PodFails, CalmDown, vars, callVars, clusterVars, CallNeeds
<1> QED
  BY <1>1, <1>2, <1>3, <1>4, <1>5, <1>6, <1>7 DEF DispatcherNext

\* Once a Job is pending its pod can start until the Job is over, if no call
\* outlives its Lease, the owner's Update does not fail while the call's context
\* lives, and neither its answer nor that of the Job's Create is lost: under
\* crashes and cancellations at every step, failures of everything else,
\* deletions of the Job and sweeps.
THEOREM DispatchKeepsJobConfigured ==
    ASSUME "overrun" \notin Mishaps, {"job", "patch"} \cap Lost = {}, "patch" \notin Fails
    PROVE  DispatcherSpec => []PendingJobConfigured
<1>1. DispatcherInit => JobNeeds
  BY DEF DispatcherInit, JobNeeds, Ready, CallNeeds
<1>2. JobNeeds /\ ~overrun /\ DispatcherInv /\ [DispatcherNext]_vars => JobNeeds'
  BY ReadyStep, CallNeedsStep DEF JobNeeds
<1>3. JobNeeds => PendingJobConfigured
  BY DEF JobNeeds, Ready, PendingJobConfigured, Configured
<1>4. DispatcherSpec => []~overrun
  BY NoOverrun
<1> QED
  BY <1>1, <1>2, <1>3, <1>4, DispatcherInvariant, PTL DEF DispatcherSpec
=============================================================================
