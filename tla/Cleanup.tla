------------------------------ MODULE Cleanup ------------------------------
(* Who deletes a workflow job's Kubernetes Job, and when: JobCleaner of      *)
(* internal/cleanup, called when GitHub reports completion (webhook), when a *)
(* runner container exits (pod watcher) and by the leader's StaleJobSweep.   *)
(*                                                                           *)
(* One workflow job is followed.  Its Kubernetes Job may be created again    *)
(* after a deletion, always under the same name: the Jobs are told apart by  *)
(* their UID, which none of the callers looks at.  Dispatch (module          *)
(* Dispatcher) appears by its Lease and its Create.                          *)
EXTENDS Naturals, FiniteSets

CONSTANTS
    MaxJobs,    \* bound: Kubernetes Jobs created for the workflow job
    MaxCrashes  \* bound: crashes of the scheduler

ASSUME CleanupAssumption == MaxJobs \in Nat /\ MaxCrashes \in Nat

Uids == 1 .. MaxJobs

VARIABLES
    github,    \* status of the workflow job
    graced,    \* is CleanupGrace over since its completion?
    job,       \* UID of the Kubernetes Job, 0 if there is none
    born,      \* UID of the latest Kubernetes Job
    age,       \* of the Kubernetes Job, against StuckThreshold and MaxRuntime
    pod,       \* of each Kubernetes Job
    dispatch,  \* the dispatch of the workflow job
    lock,      \* IsDispatchLocked
    at,        \* where each call of CleanupByJobID is
    about,     \* the Kubernetes Job whose state made the call, 0 if none did
    exitSeen,  \* pods whose "runner_exit" the pod watcher has emitted
    sweep,     \* where the stale sweep is
    snapshot,  \* the Job in the sweep's list, 0 if it is idle
    agedBy,    \* its age when the list was taken
    ghCache,   \* has the sweep cached an answer other than completed?
    crashes,
    calm       \* have the faults ended?

githubVars == <<github, graced>>
kubeVars == <<job, born, age, pod>>
dispatchVars == <<dispatch, lock>>
callVars == <<at, about>>
sweepVars == <<sweep, snapshot, agedBy, ghCache>>
faultVars == <<crashes, calm>>
vars == <<githubVars, kubeVars, dispatchVars, callVars, exitSeen, sweepVars, faultVars>>

\* The callers of CleanupByJobID.
Callers == {"webhook", "sweep", "exit"}

\* "exited": the runner container has terminated, the cache sidecar keeps the
\* pod running; "broken": the runner container waits for an image that cannot
\* be pulled or the like, "mended": it runs after all; "finished": the pod has succeeded or failed.
PodStates ==
    {"none", "pending", "broken", "running", "mended", "exited", "finished", "gone"}

TypeOK ==
    /\ github \in {"queued", "in_progress", "completed"}
    /\ graced \in BOOLEAN
    /\ job \in {0, born}
    /\ born \in 0 .. MaxJobs
    /\ {age, agedBy} \subseteq {"young", "stuck", "old"}
    /\ pod \in [Uids -> PodStates]
    /\ dispatch \in {"idle", "locked", "created"}
    /\ lock \in BOOLEAN
    /\ at \in [Callers -> {"idle", "called", "unlocked", "listed"}]
    /\ about \in [Callers -> 0 .. MaxJobs]
    /\ exitSeen \subseteq Uids
    /\ sweep \in {"idle", "listed", "unlocked"}
    /\ snapshot \in 0 .. MaxJobs
    /\ ghCache \in BOOLEAN
    /\ crashes \in 0 .. MaxCrashes
    /\ calm \in BOOLEAN

Init ==
    /\ github = "queued"
    /\ graced = FALSE
    /\ job = 0
    /\ born = 0
    /\ age = "young"
    /\ agedBy = "young"
    /\ pod = [u \in Uids |-> "none"]
    /\ dispatch = "idle"
    /\ lock = FALSE
    /\ at = [c \in Callers |-> "idle"]
    /\ about = [c \in Callers |-> 0]
    /\ exitSeen = {}
    /\ sweep = "idle"
    /\ snapshot = 0
    /\ ghCache = FALSE
    /\ crashes = 0
    /\ calm = FALSE

-----------------------------------------------------------------------------
(* CleanupByJobID.                                                           *)

\* A caller asks for the cleanup, because of what it saw of Job u.
Call(c, u) ==
    /\ at[c] = "idle"
    /\ at' = [at EXCEPT ![c] = "called"]
    /\ about' = [about EXCEPT ![c] = u]

Goto(c, label) ==
    /\ at' = [at EXCEPT ![c] = label]
    /\ about' = [about EXCEPT ![c] = IF label = "idle" THEN 0 ELSE @]

\* Nothing is deleted while the dispatch lock is held or cannot be read.
CheckLock(c) ==
    /\ at[c] = "called"
    /\ \/ ~lock /\ Goto(c, "unlocked")
       \/ (lock \/ ~calm) /\ Goto(c, "idle")
    /\ UNCHANGED <<githubVars, kubeVars, dispatchVars, exitSeen, sweepVars, faultVars>>

\* The Jobs with the job ID's label are listed: none, or the one there is.
ListJobs(c) ==
    /\ at[c] = "unlocked"
    /\ \/ job # 0 /\ Goto(c, "listed")
       \/ (job = 0 \/ ~calm) /\ Goto(c, "idle")
    /\ UNCHANGED <<githubVars, kubeVars, dispatchVars, exitSeen, sweepVars, faultVars>>

\* The Job is deleted by its name, whichever Job has that name by now.  Its
\* pod goes later, in the background.
DeleteJob(c) ==
    /\ at[c] = "listed"
    /\ Goto(c, "idle")
    /\ \/ job' = 0 /\ age' = "young"
       \/ ~calm /\ UNCHANGED <<job, age>>
    /\ UNCHANGED <<githubVars, born, pod, dispatchVars, exitSeen, sweepVars, faultVars>>

CleanupByJobID(c) == CheckLock(c) \/ ListJobs(c) \/ DeleteJob(c)

-----------------------------------------------------------------------------
(* The callers.                                                              *)

\* The completed event arrives (it may never, or twice) and its goroutine has
\* slept for CleanupGrace.
Completed ==
    /\ ~calm
    /\ github = "completed"
    /\ graced
    /\ Call("webhook", 0)
    /\ UNCHANGED <<githubVars, kubeVars, dispatchVars, exitSeen, sweepVars, faultVars>>

\* Mutant of RunnerCleanupReason: a terminated runner container is no reason.
RunnerStuckReason(u) == pod[u] = "broken"

\* The runner container has terminated or cannot be started.
RunnerCleanupReason(u) == pod[u] \in {"broken", "exited", "finished"}

\* The pod watcher sees it, once per pod.
RunnerExit(u) ==
    /\ RunnerCleanupReason(u)
    /\ u \notin exitSeen
    /\ exitSeen' = exitSeen \cup {u}
    /\ Call("exit", u)
    /\ UNCHANGED <<githubVars, kubeVars, dispatchVars, sweepVars, faultVars>>

\* A sweep takes its list of Jobs, with their creation times.
SweepLists ==
    /\ sweep = "idle"
    /\ job # 0
    /\ sweep' = "listed"
    /\ snapshot' = job
    /\ agedBy' = age
    /\ UNCHANGED <<githubVars, kubeVars, dispatchVars, callVars, exitSeen, ghCache, faultVars>>

SweepIdle == sweep' = "idle" /\ snapshot' = 0 /\ agedBy' = "young"

\* The Job is passed over if its lock is held, not if the check fails.
SweepChecksLock ==
    /\ sweep = "listed"
    /\ \/ lock /\ SweepIdle
       \/ (~lock \/ ~calm) /\ sweep' = "unlocked" /\ UNCHANGED <<snapshot, agedBy>>
    /\ UNCHANGED <<githubVars, kubeVars, dispatchVars, callVars, exitSeen, ghCache, faultVars>>

\* The pods with the job ID's label, of this Job or of an earlier one.
Pods == {u \in Uids : pod[u] \notin {"none", "gone"}}

\* Mutant of StuckReason: the Job's age is not looked at.
StuckReasonAgeless == Pods = {} \/ \E u \in Pods : pod[u] = "pending"

\* podReason: no pod, or a pending one, after StuckThreshold.
StuckReason ==
    /\ agedBy = "stuck"
    /\ Pods = {} \/ \E u \in Pods : pod[u] = "pending"

\* podReason: another container of a running pod, the cache sidecar, waits for
\* its image or for its next start.  What it does is not followed here.
StuckContainer ==
    /\ agedBy = "stuck"
    /\ \E u \in Pods : pod[u] \in {"running", "mended"}

\* Mutant of GithubReason: the comparison with CleanupGrace is inverted.
GithubReasonEarly == ~ghCache /\ github = "completed" /\ ~graced

\* githubReason: completed, CleanupGrace ago.
GithubReason == ~ghCache /\ github = "completed" /\ graced

\* What speaks for the cleanup, and of which Job it was seen: the listed one,
\* or the one whose pod is done or broken.
ReasonIn(u) ==
    \/ u \in Pods /\ RunnerCleanupReason(u)
    \/ u = snapshot /\ (agedBy = "old" \/ StuckReason \/ GithubReason)

\* The cleanup is called for the Job's job ID.
SweepCalls ==
    /\ sweep = "unlocked"
    /\ SweepIdle
    /\ \E u \in Uids : (ReasonIn(u) \/ (u = snapshot /\ StuckContainer)) /\ Call("sweep", u)
    /\ UNCHANGED <<githubVars, kubeVars, dispatchVars, exitSeen, ghCache, faultVars>>

\* Nothing speaks for it, or the pods or GitHub's answer cannot be had.
SweepPasses ==
    /\ sweep = "unlocked"
    /\ (\A u \in Uids : ~ReasonIn(u)) \/ (~calm /\ agedBy # "old")
    /\ SweepIdle
    /\ \/ github # "completed" /\ ghCache' = TRUE
       \/ UNCHANGED ghCache
    /\ UNCHANGED <<githubVars, kubeVars, dispatchVars, callVars, exitSeen, faultVars>>

\* GHStatusCacheTTL is over.
CacheExpires ==
    /\ ghCache
    /\ ghCache' = FALSE
    /\ UNCHANGED <<githubVars, kubeVars, dispatchVars, callVars, exitSeen, sweep, snapshot, agedBy,
                   faultVars>>

\* The sweep calls the cleanup itself: it goes on when that returns.
SweepStep ==
    /\ at["sweep"] = "idle"
    /\ SweepLists \/ SweepChecksLock \/ SweepCalls \/ SweepPasses

-----------------------------------------------------------------------------
(* Dispatch, by what the cleanups see of it.                                 *)

\* A dispatch, from an event or a listing that may be old, has found no Job and
\* takes the Lease; a Job may have come since it looked.
DispatchLocks ==
    /\ github = "queued" \/ ~calm
    /\ dispatch = "idle"
    /\ ~lock
    /\ job = 0 \/ ~calm
    /\ born < MaxJobs \/ job # 0
    /\ dispatch' = "locked"
    /\ lock' = TRUE
    /\ UNCHANGED <<githubVars, kubeVars, callVars, exitSeen, sweepVars, faultVars>>

\* Mutant of DispatchCreates: the Create is repeated after it has worked.
DispatchCreatesTwice ==
    /\ dispatch = "locked"
    /\ dispatch' \in {"locked", "created"}
    /\ born' = born + 1
    /\ job' = born + 1
    /\ age' = "young"
    /\ UNCHANGED <<githubVars, pod, lock, callVars, exitSeen, sweepVars, faultVars>>

\* The Create of the Job, under its one name.  If its answer is lost it is
\* repeated, which works if the Job is deleted meanwhile.
DispatchCreates ==
    /\ dispatch = "locked" \/ (dispatch = "created" /\ ~calm)
    /\ job = 0
    /\ born < MaxJobs
    /\ dispatch' = "created"
    /\ born' = born + 1
    /\ job' = born + 1
    /\ age' = "young"
    /\ UNCHANGED <<githubVars, pod, lock, callVars, exitSeen, sweepVars, faultVars>>

\* The dispatch returns: the Job is created, there is one already, or something
\* failed.  The Lease is released, unless that fails too.
DispatchReturns ==
    /\ dispatch = "created" \/ (dispatch = "locked" /\ (job # 0 \/ born = MaxJobs \/ ~calm))
    /\ dispatch' = "idle"
    /\ lock' = FALSE \/ (~calm /\ UNCHANGED lock)
    /\ UNCHANGED <<githubVars, kubeVars, callVars, exitSeen, sweepVars, faultVars>>

\* The Lease of a crashed dispatch, or of one that takes too long, expires.
LeaseExpires ==
    /\ lock
    /\ dispatch = "idle" \/ ~calm
    /\ lock' = FALSE
    /\ UNCHANGED <<githubVars, kubeVars, dispatch, callVars, exitSeen, sweepVars, faultVars>>

\* The scheduler's memory is lost; informers list all pods again.
Crash ==
    /\ ~calm
    /\ crashes < MaxCrashes
    /\ crashes' = crashes + 1
    /\ dispatch' = "idle"
    /\ at' = [c \in Callers |-> "idle"]
    /\ exitSeen' = {}
    /\ about' = [c \in Callers |-> 0]
    /\ SweepIdle
    /\ ghCache' = FALSE
    /\ UNCHANGED <<githubVars, kubeVars, lock, calm>>

-----------------------------------------------------------------------------
(* GitHub and Kubernetes.                                                    *)

PickUp(u) ==
    /\ github = "queued"
    /\ pod[u] \in {"running", "mended"}
    /\ github' = "in_progress"
    /\ UNCHANGED <<graced, kubeVars, dispatchVars, callVars, exitSeen, sweepVars, faultVars>>

\* The job is done, is cancelled, or another runner has done it.
Complete ==
    /\ github # "completed"
    /\ github' = "completed"
    /\ UNCHANGED <<graced, kubeVars, dispatchVars, callVars, exitSeen, sweepVars, faultVars>>

GraceOver ==
    /\ github = "completed"
    /\ ~graced
    /\ graced' = TRUE
    /\ UNCHANGED <<github, kubeVars, dispatchVars, callVars, exitSeen, sweepVars, faultVars>>

\* The Job's StuckThreshold, then its MaxRuntime is over.
GrowOld ==
    /\ job # 0
    /\ \/ age = "young" /\ age' = "stuck"
       \/ age = "stuck" /\ age' = "old"
    /\ UNCHANGED <<githubVars, job, born, pod, dispatchVars, callVars, exitSeen, sweepVars, faultVars>>

\* The Job's pod: an ephemeral runner exits when its workflow job is done, or
\* for its own reasons, or when its pod is deleted.
PodStep(u) ==
    /\ u <= born
    /\ \/ u = job /\ pod[u] = "none" /\ pod' = [pod EXCEPT ![u] = "pending"]
       \/ pod[u] = "pending" /\ pod' = [pod EXCEPT ![u] = "running"]
       \/ pod[u] = "broken" /\ pod' = [pod EXCEPT ![u] = "mended"]
       \/ pod[u] = "pending" /\ pod' = [pod EXCEPT ![u] = "broken"]
       \/ pod[u] \in {"running", "mended"} /\ pod' = [pod EXCEPT ![u] = "exited"]
       \/ pod[u] \in {"running", "mended", "exited"} /\ pod' = [pod EXCEPT ![u] = "finished"]
       \/ u # job /\ pod[u] # "gone" /\ pod' = [pod EXCEPT ![u] = "gone"]
    /\ UNCHANGED <<githubVars, job, born, age, dispatchVars, callVars, exitSeen, sweepVars, faultVars>>

\* The TTL of a finished Job is over.
TTLDeletes ==
    /\ job # 0
    /\ pod[job] = "finished"
    /\ job' = 0
    /\ age' = "young"
    /\ UNCHANGED <<githubVars, born, pod, dispatchVars, callVars, exitSeen, sweepVars, faultVars>>

CalmDown ==
    /\ ~calm
    /\ calm' = TRUE
    /\ UNCHANGED <<githubVars, kubeVars, dispatchVars, callVars, exitSeen, sweepVars, crashes>>

DispatchStep == DispatchCreates \/ DispatchReturns

Next ==
    \/ \E c \in Callers : CleanupByJobID(c)
    \/ Completed \/ SweepStep \/ CacheExpires
    \/ DispatchLocks \/ DispatchStep \/ LeaseExpires \/ Crash
    \/ \E u \in Uids : RunnerExit(u) \/ PickUp(u) \/ PodStep(u)
    \/ GrowOld \/ Complete \/ GraceOver \/ TTLDeletes \/ CalmDown

Spec == Init /\ [][Next]_vars

\* Calls and sweeps go on, a dispatch returns, Leases, graces and cached
\* answers run out, faults end.  Pods, runners, GitHub's events and the TTL
\* need not do anything.
Fairness ==
    /\ \A c \in Callers : WF_vars(CleanupByJobID(c))
    /\ WF_vars(SweepStep)
    /\ WF_vars(CacheExpires)
    /\ WF_vars(DispatchStep)
    /\ WF_vars(LeaseExpires)
    /\ WF_vars(GraceOver)
    /\ WF_vars(CalmDown)

FairSpec == Spec /\ Fairness

-----------------------------------------------------------------------------
(* Properties.                                                               *)

\* A Job that is neither done on GitHub nor, locally, done, stuck or broken
\* (now or before: an image may be pulled at a later attempt).
Healthy(u) ==
    /\ u = job /\ age = "young"
    /\ github # "completed"
    /\ pod[u] \notin {"broken", "mended", "exited", "finished"}

Deletes(c, u) == at[c] = "listed" /\ at'[c] = "idle" /\ u # 0 /\ job = u /\ job' = 0

\* A healthy Job is deleted neither for what the caller saw of that Job nor for
\* the completed event: what is true of a Job when it is condemned still is when
\* it is deleted.
DeletedForItsOwn ==
    \A c \in Callers, u \in Uids :
        Deletes(c, u) /\ Healthy(u) => c # "webhook" /\ about[c] # u

OwnReasonHolds == [][DeletedForItsOwn]_vars

\* "StaleJobSweep removes scheduler k8s Jobs that are done on GitHub or stuck
\* locally": no other one.
SweepRemovesOnlyStale ==
    [][\A u \in Uids : Deletes("sweep", u) => ~Healthy(u)]_vars

\* A Job whose runner has gone is deleted, also when the workflow job is still
\* queued, events are lost and calls fail: a new dispatch needs its name.
DoneJobDeleted ==
    \A u \in Uids : job = u /\ pod[u] \in {"exited", "finished"} ~> job # u

\* Once the workflow job is completed no Job stays for it, not even of a
\* dispatch that was late.
CompletedLeavesNothing == github = "completed" ~> [](job = 0)

\* The dispatch the cleanups meet here is one that module Dispatcher allows: both
\* implement what AbstractDispatch says of the lock and the Job.
Outside == INSTANCE AbstractDispatch
    WITH Calls <- {"dispatch"},
         holders <- IF dispatch = "idle" THEN {} ELSE {"dispatch"},
         overrun <- dispatch # "idle" /\ ~lock,
         locked <- lock,
         exists <- job # 0
ImplementsAbstractDispatch == Outside!DispatchSpec
=============================================================================
