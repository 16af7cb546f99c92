----------------------------- MODULE Dispatcher -----------------------------
(* Dispatcher.Dispatch (internal/dispatch/dispatcher.go) for one workflow    *)
(* job, run by webhook deliveries and by the reconciler in several replicas, *)
(* with what it creates: the JIT runner at GitHub, the Secret that holds its *)
(* configuration and the Kubernetes Job.  Names derive from the run and job  *)
(* ID, so all calls for the job compete for one Secret and one Job name.     *)
(*                                                                           *)
(* An API call happens at one instant.  It may fail without effect (Fails)   *)
(* or take effect while its answer is lost (Lost).  Faults occur for as long *)
(* as they like until "calm", then no more.                                  *)
EXTENDS DispatchLock

CONSTANTS
    MaxAttempts,    \* Config.MaxAttempts, 3 by default
    RunnerIds,      \* the runner IDs GitHub hands out
    NoRunner,       \* no runner ID
    LeaderCalls,    \* the calls the reconciler makes, under its leader's context
    Fails,          \* the operations that may fail, a subset of Operations
    Lost,           \* the operations whose answer may get lost, a subset too
    Mishaps         \* what else may go wrong, a subset of AllMishaps

Operations ==
    {"list", "lease", "jit", "secret", "job", "patch", "dropSecret", "dropRunner"}

AllMishaps == {"crash", "cancel", "overrun", "podFails", "jobDeleted"}

ASSUME AttemptsAssumption == MaxAttempts \in Nat \ {0}
ASSUME NoRunnerAssumption == NoRunner \notin RunnerIds
ASSUME FaultsAssumption ==
    /\ LeaderCalls \subseteq Calls
    /\ Fails \subseteq Operations
    /\ Lost \subseteq Operations
    /\ Mishaps \subseteq AllMishaps

VARIABLES
    step,       \* what each call does next
    attempt,    \* attempts its withRetry has used up
    jit,        \* jit.RunnerID: the runner it registered
    made,       \* createdJob # nil: its Create of the Job succeeded
    cancelled,  \* has its context been cancelled?
    job,        \* the Kubernetes Job
    maker,      \* the call that created it (the Job's UID)
    secret,     \* the JIT Secret: bare, owned by the Job, or by a deleted one
    config,     \* the runner the Secret's configuration is for
    runners,    \* the runners GitHub has registered under this job's name
    wanted,     \* is the workflow job still queued at GitHub?
    calm        \* have the faults ended?

callVars == <<step, attempt, jit, made, cancelled>>
clusterVars == <<job, maker, secret, config, runners, wanted>>
vars == <<lockVars, callVars, clusterVars, calm>>

Steps ==
    {"idle", "dup1", "dup2", "lease", "claim", "dup3", "jit", "secret", "job",
     "patch", "dropSecret", "dropRunner", "dropPatched", "release", "return"}

DispatcherTypeOK ==
    /\ TypeOK
    /\ step \in [Calls -> Steps]
    /\ attempt \in [Calls -> 0 .. MaxAttempts - 1]
    /\ jit \in [Calls -> RunnerIds \cup {NoRunner}]
    /\ made \in [Calls -> BOOLEAN]
    /\ cancelled \in [Calls -> BOOLEAN]
    /\ job \in {"none", "pending", "finished"}
    /\ maker \in Calls \cup {NoCall}
    /\ secret \in {"none", "bare", "owned", "dangling"}
    /\ config \in RunnerIds \cup {NoRunner}
    /\ runners \subseteq RunnerIds
    /\ wanted \in BOOLEAN
    /\ calm \in BOOLEAN

DispatcherInit ==
    /\ Init
    /\ step = [c \in Calls |-> "idle"]
    /\ attempt = [c \in Calls |-> 0]
    /\ jit = [c \in Calls |-> NoRunner]
    /\ made = [c \in Calls |-> FALSE]
    /\ cancelled = [c \in Calls |-> FALSE]
    /\ job = "none"
    /\ maker = NoCall
    /\ secret = "none"
    /\ config = NoRunner
    /\ runners = {}
    /\ wanted = TRUE
    /\ calm = FALSE

-----------------------------------------------------------------------------
(* When an API call of c can fail, succeed, or succeed unheard.  A cancelled *)
(* context fails it before it is sent.                                       *)

CanFail(c, op) == cancelled[c] \/ (op \in Fails /\ ~calm)
CanWork(c) == ~cancelled[c]
CanBeLost(c, op) == ~cancelled[c] /\ op \in Lost /\ ~calm

\* The call goes on with step s, its other variables alone.
Proceed(c, s) ==
    /\ step' = [step EXCEPT ![c] = s]
    /\ UNCHANGED <<attempt, jit, made, cancelled>>

\* withRetry succeeds: the call goes on with step s.
Succeed(c, s) ==
    /\ step' = [step EXCEPT ![c] = s]
    /\ attempt' = [attempt EXCEPT ![c] = 0]

\* Mutant: attempt <= max where the code has attempt < max.
FailAttemptOnceMore(c, exit) ==
    IF attempt[c] < MaxAttempts /\ ~cancelled[c]
    THEN /\ attempt' = [attempt EXCEPT ![c] = @ + 1]
         /\ UNCHANGED step
    ELSE Succeed(c, exit)

\* One attempt of withRetry fails.  There is another one after the backoff,
\* or the call continues with its error handling, exit: when the attempts are
\* used up, or when the wait finds the context cancelled.
FailAttempt(c, exit) ==
    IF attempt[c] + 1 < MaxAttempts /\ ~cancelled[c]
    THEN /\ attempt' = [attempt EXCEPT ![c] = @ + 1]
         /\ UNCHANGED step
    ELSE Succeed(c, exit)

\* The locals of a call that is over.
Forget(gone) ==
    /\ step' = [c \in Calls |-> IF c \in gone THEN "idle" ELSE step[c]]
    /\ attempt' = [c \in Calls |-> IF c \in gone THEN 0 ELSE attempt[c]]
    /\ jit' = [c \in Calls |-> IF c \in gone THEN NoRunner ELSE jit[c]]
    /\ made' = [c \in Calls |-> IF c \in gone THEN FALSE ELSE made[c]]
    /\ cancelled' = [c \in Calls |-> IF c \in gone THEN FALSE ELSE cancelled[c]]

-----------------------------------------------------------------------------
(* From the call to the critical section.                                    *)

\* isDuplicate finds no Job; or it finds one or fails.
Unique(c) == job = "none" /\ CanWork(c)
Duplicate(c) == job # "none" \/ CanFail(c, "list")

\* A "queued" webhook, possibly late or delivered twice, or the reconciler
\* that found the job queued.  Its labels are managed and parse.
Begin(c) ==
    /\ step[c] = "idle"
    /\ c \in LeaderCalls => wanted
    /\ Proceed(c, "dup1")
    /\ UNCHANGED <<lockVars, clusterVars, calm>>

\* The first check, before the mutex.
Dup1(c) ==
    /\ step[c] = "dup1"
    /\ \/ Unique(c) /\ Enter(c) /\ Proceed(c, "dup2")
       \/ Duplicate(c) /\ Forget({c}) /\ UNCHANGED lockVars
    /\ UNCHANGED <<clusterVars, calm>>

LockJob(c) ==
    /\ AcquireMutex(c)
    /\ UNCHANGED <<callVars, clusterVars, calm>>

\* The second check, under the mutex.
Dup2(c) ==
    /\ step[c] = "dup2" /\ pc[c] = "inside"
    /\ \/ Unique(c) /\ Proceed(c, "lease") /\ UNCHANGED lockVars
       \/ Duplicate(c) /\ Bail(c) /\ Proceed(c, "return")
    /\ UNCHANGED <<clusterVars, calm>>

ReadLease(c) ==
    /\ step[c] = "lease"
    /\ \/ CanWork(c) /\ GetLease(c) /\ Proceed(c, "claim")
       \/ CanFail(c, "lease") /\ Bail(c) /\ Proceed(c, "return")
    /\ UNCHANGED <<clusterVars, calm>>

\* Mutant: acquired is not looked at.
ClaimLeaseAnyway(c) ==
    /\ step[c] = "claim"
    /\ \/ CanWork(c) /\ (CreateLease(c) \/ TakeOver(c)) /\ Proceed(c, "dup3")
       \/ Refused(c) /\ Proceed(c, "dup3")
       \/ CanFail(c, "lease") /\ ClaimFails(c) /\ Proceed(c, "return")
       \/ CanBeLost(c, "lease") /\ ClaimLost(c) /\ Proceed(c, "return")
    /\ UNCHANGED <<clusterVars, calm>>

ClaimLease(c) ==
    /\ step[c] = "claim"
    /\ \/ CanWork(c) /\ (CreateLease(c) \/ TakeOver(c)) /\ Proceed(c, "dup3")
       \/ Refused(c) /\ Proceed(c, "return")
       \/ CanFail(c, "lease") /\ ClaimFails(c) /\ Proceed(c, "return")
       \/ CanBeLost(c, "lease") /\ ClaimLost(c) /\ Proceed(c, "return")
    /\ UNCHANGED <<clusterVars, calm>>

\* Mutant: no check under the Lease.
Dup3Omitted(c) ==
    /\ step[c] = "dup3"
    /\ Proceed(c, "jit")
    /\ UNCHANGED <<lockVars, clusterVars, calm>>

\* The third check, under the Lease.
Dup3(c) ==
    /\ step[c] = "dup3"
    /\ \/ Unique(c) /\ Proceed(c, "jit")
       \/ Duplicate(c) /\ Proceed(c, "release")
    /\ UNCHANGED <<lockVars, clusterVars, calm>>

-----------------------------------------------------------------------------
(* Creating, each object with withRetry.                                     *)

\* IDs GitHub can hand out: it does not use one twice.
FreshIds == RunnerIds \ (runners \cup {config} \cup {jit[c] : c \in Calls})

\* GenerateJITConfig.  GitHub may refuse a name it has a runner of.  If the
\* answer is lost, the runner is registered and the call does not know its ID.
RegisterRunner(c) ==
    /\ step[c] = "jit"
    /\ \/ /\ CanWork(c)
          /\ \E id \in FreshIds :
                runners' = runners \cup {id} /\ jit' = [jit EXCEPT ![c] = id]
          /\ Succeed(c, "secret")
       \/ /\ CanBeLost(c, "jit")
          /\ \E id \in FreshIds : runners' = runners \cup {id}
          /\ FailAttempt(c, "release") /\ UNCHANGED jit
       \/ /\ CanFail(c, "jit") \/ runners # {} \/ FreshIds = {}
          /\ FailAttempt(c, "release") /\ UNCHANGED <<runners, jit>>
    /\ UNCHANGED <<lockVars, made, cancelled, job, maker, secret, config, wanted, calm>>

\* withRetry around a write to the cluster: possible says whether the API
\* server accepts it (it answers AlreadyExists or NotFound otherwise, which is
\* retried like any error), effect what it writes.
Try(c, op, next, exit, possible, effect) ==
    /\ step[c] = op
    /\ \/ CanWork(c) /\ possible /\ effect /\ Succeed(c, next)
       \/ CanBeLost(c, op) /\ possible /\ effect /\ FailAttempt(c, exit)
       \/ /\ CanFail(c, op) \/ ~possible
          /\ FailAttempt(c, exit)
          /\ UNCHANGED <<job, maker, secret, config>>
    /\ made' = [made EXCEPT ![c] = @ \/ step'[c] = "patch"]
    /\ UNCHANGED <<lockVars, jit, cancelled, runners, wanted, calm>>

\* Mutant: a failed Create cleans up the Secret as well.
CreateSecretDrops(c) ==
    Try(c, "secret", "job", "dropSecret", secret = "none",
        secret' = "bare" /\ config' = jit[c] /\ UNCHANGED <<job, maker>>)

\* Mutant: a failed Create just returns.
CreateSecretKeepsRunner(c) ==
    Try(c, "secret", "job", "release", secret = "none",
        secret' = "bare" /\ config' = jit[c] /\ UNCHANGED <<job, maker>>)

CreateSecret(c) ==
    Try(c, "secret", "job", "dropRunner", secret = "none",
        secret' = "bare" /\ config' = jit[c] /\ UNCHANGED <<job, maker>>)

\* Mutant: a failed Create takes back the runner only.
CreateJobKeepsSecret(c) ==
    Try(c, "job", "patch", "dropRunner", job = "none",
        job' = "pending" /\ maker' = c /\ UNCHANGED <<secret, config>>)

CreateJob(c) ==
    Try(c, "job", "patch", "dropSecret", job = "none",
        job' = "pending" /\ maker' = c /\ UNCHANGED <<secret, config>>)

\* Mutant: the Update carries no owner.
PatchOwnerless(c) ==
    Try(c, "patch", "release", "dropPatched", secret # "none",
        UNCHANGED <<job, maker, secret, config>>)

\* The Update that makes the Job own the Secret.  It is the object the call
\* built, without a resourceVersion: it overwrites any Secret of that name,
\* and its owner is the Job with the UID the call got.
PatchOwner(c) ==
    Try(c, "patch", "release", "dropPatched", secret # "none",
        /\ secret' = IF job # "none" /\ maker = c THEN "owned" ELSE "dangling"
        /\ config' = jit[c]
        /\ UNCHANGED <<job, maker>>)

-----------------------------------------------------------------------------
(* Undoing, one try each: errors are ignored.  And returning.                *)

\* The Secret is deleted by name; after a failed Job the runner follows.
DropSecret(c) ==
    /\ step[c] \in {"dropSecret", "dropPatched"}
    /\ \/ CanWork(c) /\ secret' = "none" /\ config' = NoRunner
       \/ CanFail(c, "dropSecret") /\ UNCHANGED <<secret, config>>
    /\ Proceed(c, IF step[c] = "dropSecret" THEN "dropRunner" ELSE "release")
    /\ UNCHANGED <<lockVars, job, maker, runners, wanted, calm>>

\* cleanupJITRunner.
DropRunner(c) ==
    /\ step[c] = "dropRunner"
    /\ \/ CanWork(c) /\ runners' = runners \ {jit[c]}
       \/ CanFail(c, "dropRunner") /\ UNCHANGED runners
    /\ Proceed(c, "release")
    /\ UNCHANGED <<lockVars, job, maker, secret, config, wanted, calm>>

\* The deferred release.
ReleaseLease(c) ==
    /\ step[c] = "release"
    /\ \/ CanWork(c) /\ Release(c)
       \/ CanFail(c, "lease") /\ ReleaseFails(c)
    /\ Proceed(c, "return")
    /\ UNCHANGED <<clusterVars, calm>>

\* The deferred unlockJob.
Return(c) ==
    /\ Unlock(c)
    /\ Forget({c})
    /\ UNCHANGED <<clusterVars, calm>>

-----------------------------------------------------------------------------
(* The surroundings.                                                         *)

\* The process dies.
ReplicaCrashes(r) ==
    /\ "crash" \in Mishaps /\ ~calm
    /\ Crash(r)
    /\ Forget({c \in Calls : ReplicaOf[c] = r})
    /\ UNCHANGED <<clusterVars, calm>>

\* The leader loses its lease or the process is told to stop: the context the
\* reconciler passed to Dispatch is cancelled.
LeaderCancelled(c) ==
    /\ "cancel" \in Mishaps /\ ~calm
    /\ c \in LeaderCalls
    /\ step[c] # "idle"
    /\ cancelled' = [cancelled EXCEPT ![c] = TRUE]
    /\ UNCHANGED <<lockVars, step, attempt, jit, made, clusterVars, calm>>

LeaseExpires ==
    /\ Critical = {} \/ ("overrun" \in Mishaps /\ ~calm)
    /\ Expire
    /\ UNCHANGED <<callVars, clusterVars, calm>>

\* Can the pod of the Job start and its runner register?
Configured == secret # "none" /\ config \in runners

\* The pod starts, its runner takes the workflow job and is gone with it.
PodRuns ==
    /\ job = "pending"
    /\ Configured
    /\ wanted
    /\ job' = "finished"
    /\ wanted' = FALSE
    /\ runners' = runners \ {config}
    /\ UNCHANGED <<lockVars, callVars, maker, secret, config, calm>>

\* The pod fails without having run the workflow job (BackoffLimit is 0).
PodFails ==
    /\ job = "pending"
    /\ ~Configured \/ ("podFails" \in Mishaps /\ ~calm)
    /\ job' = "finished"
    /\ UNCHANGED <<lockVars, callVars, maker, secret, config, runners, wanted, calm>>

\* The Job is deleted: by its TTL once it is finished, by a cleanup when it is
\* stuck or no longer wanted, by anyone at any time if that is a mishap.  What
\* it owned is left to the garbage collector.
JobDeleted ==
    /\ \/ job = "finished"
       \/ job = "pending" /\ (~Configured \/ ~wanted)
       \/ job = "pending" /\ "jobDeleted" \in Mishaps /\ ~calm
    /\ job' = "none"
    /\ maker' = NoCall
    /\ secret' = IF secret = "owned" THEN "dangling" ELSE secret
    /\ UNCHANGED <<lockVars, callVars, config, runners, wanted, calm>>

GarbageCollected ==
    /\ secret = "dangling"
    /\ secret' = "none"
    /\ config' = NoRunner
    /\ UNCHANGED <<lockVars, callVars, job, maker, runners, wanted, calm>>

\* Mutant: the sweep does not look for a Job.
SweepRunnerWithJob(id) ==
    /\ id \in runners
    /\ lease # "active"
    /\ (\E c \in Critical : jit[c] = id) => overrun
    /\ runners' = runners \ {id}
    /\ UNCHANGED <<lockVars, callVars, job, maker, secret, config, wanted, calm>>

\* OrphanRunnerSweep.evaluateRunner: no active lock (or no answer about it), no
\* Job, and older than the grace.  The grace is as long as the Lease, so the
\* runner of a call still at work is too young unless that call has overrun.
\* One instant will do: nobody can come to use that ID between the check and
\* the delete.
SweepRunner(id) ==
    /\ id \in runners
    /\ lease # "active" \/ ("list" \in Fails /\ ~calm)
    /\ job = "none"
    /\ (\E c \in Critical : jit[c] = id) => overrun
    /\ runners' = runners \ {id}
    /\ UNCHANGED <<lockVars, callVars, job, maker, secret, config, wanted, calm>>

CalmDown ==
    /\ ~calm
    /\ calm' = TRUE
    /\ UNCHANGED <<lockVars, callVars, clusterVars>>

-----------------------------------------------------------------------------
\* What a call does by itself once it has begun.
Work(c) ==
    \/ Dup1(c) \/ LockJob(c) \/ Dup2(c) \/ ReadLease(c) \/ ClaimLease(c) \/ Dup3(c)
    \/ RegisterRunner(c) \/ CreateSecret(c) \/ CreateJob(c) \/ PatchOwner(c)
    \/ DropSecret(c) \/ DropRunner(c) \/ ReleaseLease(c) \/ Return(c)

DispatcherNext ==
    \/ \E c \in Calls : Begin(c) \/ Work(c) \/ LeaderCancelled(c)
    \/ \E r \in Replicas : ReplicaCrashes(r)
    \/ \E id \in RunnerIds : SweepRunner(id)
    \/ LeaseExpires
    \/ PodRuns
    \/ PodFails
    \/ JobDeleted
    \/ GarbageCollected
    \/ CalmDown

DispatcherSpec == DispatcherInit /\ [][DispatcherNext]_vars

\* The scheduling and the surroundings the liveness of dispatch relies on: the
\* faults end; a call that can go on does, and sync.Mutex serves a starved
\* waiter; a leader exists, and its reconciler comes back to a job that is
\* still queued; clocks, kubelet, TTL controller and garbage collector work;
\* every sweep looks anew at the runners, and most of the time finds no lock.
DispatcherFairness ==
    /\ WF_vars(CalmDown)
    /\ \A c \in Calls : WF_vars(Work(c)) /\ SF_vars(LockJob(c))
    /\ \A c \in LeaderCalls : WF_vars(Begin(c))
    /\ \A id \in RunnerIds : SF_vars(SweepRunner(id))
    /\ WF_vars(LeaseExpires)
    /\ WF_vars(PodRuns)
    /\ WF_vars(JobDeleted)
    /\ WF_vars(GarbageCollected)

FairDispatcherSpec == DispatcherSpec /\ DispatcherFairness

-----------------------------------------------------------------------------
(* Properties.                                                               *)

\* Dedup before JIT: while no critical section outlives its Lease, no runner
\* is registered while a Job for the workflow job exists, however calls,
\* crashes, lost answers and deletions interleave after the last duplicate
\* check.
DedupStep == runners' \subseteq runners \/ overrun \/ job = "none"
DedupBeforeJIT == [][DedupStep]_vars

\* Secret and Job names are the same for all calls, and Secrets are deleted by
\* name.  While no critical section outlives its Lease, a call that cleans up
\* deletes the Secret with its own runner's configuration and no other's.
DropStep ==
    \A c \in Calls :
        /\ step[c] \in {"dropSecret", "dropPatched"}
        /\ step'[c] # step[c]
        /\ secret # "none"
        /\ secret' = "none"
        => overrun \/ config = jit[c]
DropsOwnSecret == [][DropStep]_vars

\* A Dispatch that registered a runner and did not get its Job created takes
\* the runner back before it returns.
TakenBackStep ==
    \A c \in Calls :
        step[c] = "release" /\ step'[c] = "return" /\ jit[c] \in runners => made[c]
RunnerTakenBack == [][TakenBackStep]_vars

\* What cleanups and sweeps see of the dispatches keeps to the abstract
\* specification: under every fault, a Job appears only where there is none and
\* only while a call has the lock, the lock is taken when it is free, and it ends
\* early only under a call that has outlived its Lease.
Outside == INSTANCE AbstractDispatch
    WITH holders <- Critical, locked <- lease = "active", exists <- job # "none"
ImplementsAbstractDispatch == Outside!DispatchSpec

\* A Dispatch that has returned holds neither the lock nor a mutex, whichever of
\* its returns it took.
NothingHeld ==
    \A c \in Calls : step[c] = "idle" => pc[c] = "out" /\ \A r \in Replicas : mutex[r] # c

\* A Secret without an owner, which nothing would ever delete, exists only
\* while a call is on its way to give it one or to delete it.
NoSecretLeft ==
    secret = "bare" =>
        \E c \in Calls : step[c] \in {"job", "patch", "dropSecret", "dropPatched"}

\* The pod of a Job that has not run can start, and its configuration is for
\* a runner GitHub still knows: no error path, sweep or other call takes away
\* what the Job needs.
PendingJobConfigured == job = "pending" => Configured

\* A queued workflow job is run in the end: whatever went wrong before, the
\* reconciler retries until a Job runs it.
JobRuns == wanted ~> ~wanted
=============================================================================
