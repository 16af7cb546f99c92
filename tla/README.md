# A TLA+ model of gha-scheduler

gha-scheduler runs GitHub Actions jobs in Kubernetes. A webhook or a reconciler
tells it of a queued workflow job; it registers a just-in-time (JIT) runner at
GitHub and creates a Kubernetes Job that runs it. Other parts delete what is
left over. Several replicas of the scheduler run at once; all of them serve
webhooks, one of them, the leader, reconciles and sweeps.

This directory holds TLA+ modules of that system, the TLC configurations that
check them on small instances, and proofs checked by TLAPS. `PROJECT.json`
lists the runs, says which source lines each definition stands for, and names
the hazards of the code with the properties that would catch them.

    tlc -config MCDispatcher.cfg MCDispatcher     # a run
    tlapm DispatcherProofs.tla                    # a proof

## 1. Inventory

Paths are relative to `src/`.

### Dispatch (`internal/dispatch`)

* **State**: a mutex per job ID in the process (`jobmutex.go`); a Kubernetes
  Lease per job ID, two minutes long (`lock.go`); the JIT Secret and the
  Kubernetes Job, whose names derive from run and job ID; the runner at GitHub;
  the backoff table (`backoff.go`).
* **Operations**: `Dispatch`, `TryAcquire`, its release, `IsDispatchLocked`,
  `withRetryBackoff`.
* **Interactions**: called by webhook goroutines and by the reconciler; its lock
  is read by the orphan sweep and by the job cleaner.
* **Hard**: duplicate deliveries in several replicas; a Lease that is read and
  then claimed; answers that are lost; a process that dies between two
  creates; a cleanup by name of what another call may own; a Lease that expires
  under a slow dispatch.
* **Correct when**: one dispatch at a time is past the lock; no second runner is
  registered for a job that has its Kubernetes Job; nothing is left behind by
  a failed dispatch; a queued job is run in the end.

### Reconciler and leader tasks (`internal/reconciler/reconciler.go`, `cmd/scheduler/main.go`)

* **State**: the election Lease; per replica a ticker and a cycle (position in
  the listing, dispatches so far); `lastChecked`, the cooldown of each job.
* **Operations**: `startLeaderElectedTasks`, `Run`, `reconcile`,
  `reconcileRepo`, `recentlyChecked`, `markChecked`.
* **Interactions**: lists runs and jobs at GitHub, Jobs at Kubernetes, calls
  `Dispatch`.
* **Hard**: the cap per cycle together with the cooldown; listings that are
  stale when used; ticks lost in long cycles; loss of leadership in a cycle.
* **Correct when**: a queued job whose webhook was missed is dispatched.

### Cleanup (`internal/cleanup`, `internal/reconciler/stale_job_sweep.go`, `internal/k8sjob/podstatus.go`)

* **State**: none of its own but a cache of GitHub's answers (two minutes).
* **Operations**: `CleanupByJobID`, called after a completed event and a grace,
  after the exit of a runner container, and by the leader's sweep.
* **Hard**: three callers that race with each other and with a new dispatch;
  deletion by name; verdicts that are old when they are carried out; lost
  events; pods of an earlier Job under the same label.
* **Correct when**: a healthy Job is not deleted; a Job whose runner is gone,
  or whose workflow job is completed, does not stay.

### Orphan runner sweep (`internal/reconciler/orphan_runners.go`)

Lists the runners at GitHub, and deletes one that is older than a grace and has
neither a dispatch lock nor a Job, whether it is online or not. Races with a
dispatch that is about to use the runner.

### Webhook handler (`internal/webhook`) and shutdown (`cmd/scheduler/main.go`)

Verifies the signature, answers at once and dispatches (or cleans up, after a
grace) in a goroutine it counts. Deliveries are lost, repeated and reordered.
Shutdown waits for the goroutines, then stops the server; it does not wait for
the cleanups that runner exits have started.

* **Hard**: the server takes webhooks while main waits for their goroutines, so
  that a `sync.WaitGroup` is counted up from zero while its `Wait` is on the way
  out, which may panic, in the handler or in main; a panic in any goroutine ends
  the process.
* **Correct when**: what has been answered is done, unless the process is killed
  or a dispatch panics; the process exits in the end, once webhooks stop coming,
  though the clients of open requests stall.

### Pod watcher (`internal/informer`)

Turns pod updates into events, each emitted once per pod: scheduled,
running, completed, a failed cache sidecar, and `runner_exit`, which calls the cleanup.
Its memory of what it emitted is lost on a restart and grows with every pod.

### Tracing and job store (`internal/tracing`, `internal/store`)

The registry holds a trace per job ID until it ends or is evicted after an
hour. The store emitter writes a record per job (queued, dispatching, created,
scheduled, running, completed) into SQLite; records are listed in pages and
pruned. Updates come from webhooks, dispatches and the watcher in any order, and
twice. Times are kept, compared and used as page cursors as text. Correct when:
a root span that was started ends, whoever comes first; a job that has run is on
record as completed; a listing has every job once, though jobs are recorded
between its pages; only what has ended is pruned.

### GitHub client and token (`internal/ghclient`, `internal/ghapp`)

HTTP calls, pagination by page number, an installation token that is cached and
refreshed under a mutex, which is held over the request. Correct when: no
request carries a token that has ended; an error in a refresh does not stop the
other calls; no run is missed because others come while pages are read.

### Label parser and Job builder (`internal/labelquery`, `internal/k8sjob/builder.go`)

Pure functions from labels to a specification and from that to a pod template.
Correct when: the order of the labels decides nothing but which of two with one
key counts; the Job is what the labels ask for.

### Cache sidecar (`cache-sidecar`)

The Actions cache protocol over S3: reserve, upload, finalize, look up by an
exact key and restore keys. Pending uploads are kept in a map under a mutex; the
sidecars of all pods share a bucket, which is listed in pages. Correct when: an
entry once saved is found, and what is found can be downloaded and is what was
saved under that key and version.

### API, console, scripts (`internal/api`, `internal/console`, `web`, `scripts`)

Read the store, format, render, or test a cluster; no state that others read.

## 2. Modules

| Module | Models | Composes with |
|---|---|---|
| `AbstractLock` | what `JobLocker` promises: a set of holders, at most one while Leases do not overrun | - |
| `AbstractDispatch` | what the dispatches of a job promise to whoever else handles its Kubernetes Job: when the Job may appear, and what the lock says of it | EXTENDS `AbstractLock` |
| `DispatchLock` | mutex and Lease of one job ID, call by call | implements `AbstractLock` |
| `Dispatcher` | `Dispatch` of one workflow job; runner, Secret, Job; orphan sweep | EXTENDS `DispatchLock`, whose actions are its steps; implements `AbstractDispatch` |
| `Reconciler` | election, cycles, cap, cooldown | `Dispatch` by its outcomes |
| `Cleanup` | `CleanupByJobID`, its callers, the stale sweep | `Dispatch` by its Lease and its Create, which implement `AbstractDispatch` too |
| `Tracking` | trace registry, store emitter and row of one job, pod watcher | `Dispatch` by the calls that it makes to the emitter |
| `JobStore` | all rows of the store under writes and pruning, and a client of the HTTP API that pages through them | writes as `Tracking`'s emitter makes them, in any order |
| `CacheProtocol` | the cache sidecars of several pods over one bucket | - |
| `AppToken` | the installation token, its mutex and its callers | - |
| `GitHubPages` | paged listings of a list that changes | its result is what `Reconciler` walks through |
| `Shutdown` | webhooks, their goroutines, the wait for them and the server's stop | the goroutines are `Dispatcher`'s and `Cleanup`'s |
| `RetryDelay` | backoff entries and the waits of one job's dispatches | the attempts of `Dispatcher`, in time |
| `JobSpec` | labels to `RunnerSpec` to Kubernetes Job, as `Dispatch` does it | the label check and the Create of `Dispatcher` |
| `DispatchLockProofs`, `DispatcherProofs`, `ReconcilerProofs`, `CleanupProofs`, `TrackingProofs` | theorems | EXTEND the module they name |
| `RequestProofs` | theorems | EXTENDS `Shutdown`, `RetryDelay`, `JobSpec` |
| `StorageProofs` | theorems | EXTENDS `JobStore`, `CacheProtocol` |
| `GitHubClientProofs` | theorems | EXTENDS `AppToken`, `GitHubPages` |
| `MCDispatchLock`, `MCDispatcher`, `MCReconciler`, `MCCleanup`, `MCTracking` | instances for TLC | EXTEND the module they name |
| `MCParts` | the instance of `JobStore` to `JobSpec` | EXTENDS these seven |

### AbstractDispatch

`Dispatcher` and `Cleanup` are too large to be checked as one. Between them
stands this specification: of a dispatch, the others see whether the lock is
taken (`locked`) and whether the Job exists (`exists`). A Job appears only where
there is none, and only while a call is past `TryAcquire`; the lock is taken
when it is free, and ends when a call returns, crashes or outlives it. It may be
taken without anyone behind it, and stay when its call is gone, which is why the
sweeps may do nothing for a while and why the Lease has an end. `Dispatcher`
implements it by its Lease and Job, under every fault; `Cleanup` has a dispatch
of five actions in its place, which implements it too. `Cleanup`'s dispatch so
takes no step that one of `Dispatcher` could not take, as far as the
specification tells them apart. The converse, that it takes every one it
matters to the cleanups, is by reading: its Lease may expire or stay, its
answers get lost, its Job come late, and what it cannot do is overlap with
another dispatch of the job.

### DispatchLock

`pc[c]` is where a call is: out, waiting for the mutex, holding it, having read
the Lease, in the critical section, leaving. `snap[c]` is what its Get saw;
`lease`, `holder` and the Lease's writer are Kubernetes' state. The Lease's resource version is not a
number: `Outdated` says that the Lease is no longer the one that was read,
which is what makes `Update` fail. Each API call is atomic and has three
outcomes: it works, it fails, it works and the answer is lost. `overrun`
remembers that a Lease expired while its holder was in the critical section.

Different job IDs share no Lease, no Secret, no Job and no mutex entry, so one
job ID is enough; the backoff table, which they do not share either, only makes
calls slower.

### Dispatcher

`step[c]` is the next API call of a dispatch: the three duplicate checks, Lease,
JIT configuration, Secret, Job, owner reference, and the error paths that delete
Secret and runner. `attempt[c]` counts the retries. `Fails`, `Lost` and
`Mishaps` say which faults an instance has; all faults end at `calm`, a moment
TLC may put anywhere, which is how liveness is stated: whatever happened
before, the system recovers once the faults are over. `SweepRunner` joins lock
check, Job check and delete of the orphan sweep in one step: the runner it looks
at was registered by one dispatch, so nobody can come to use its ID between the
checks and the delete, and the grace is as long as the Lease, so that the runner
of a dispatch at work is too young unless that dispatch has overrun.

### Reconciler

Time is counted in reconcile intervals, relative to the start of a cycle, up to
the cooldown, so that no clock grows without bound. A workflow run has one job,
which the listing may name more than once, as `ListRunJobs` does not leave out
what a moving list shows it twice. The listing keeps its order. A dispatch
creates the Job, returns nil without one (unmanaged labels, a lock held
elsewhere), or fails. `Lose` ends leadership and loop in one step: the old
leader's context is cancelled, and a call of it that takes effect all the same is
like a webhook's.

### Cleanup

One workflow job; its Kubernetes Jobs, which all have one name, are told apart
by a number (`born`) the code does not see. `at[c]` is where a call of
`CleanupByJobID` is, `about[c]` which Job's state made the call, a history
variable the properties need. Ages are young, past StuckThreshold, past
MaxRuntime. `PodStep` lets a pod do what kubelet and runner may do, such as
finishing for no reason or running after an image could not be pulled. A
container that waits for long in a pod that runs, a crashing sidecar perhaps, is
not kept as state: `StuckContainer` says where the sweep may have seen one. Each
caller is one process; the pod watchers of several replicas, which all see a pod, are
represented by one whose emission may be repeated after a crash.

### Tracking

One workflow job in one replica. `trace` is the job's entry in the registry,
named by the call that started it, and `root[c]` the root span call `c` started,
if it did; `status` and `finished` are the row, of whose times only that of the
completion is kept. `step[c]` follows a call from the webhook handler or the
reconciler through the points of `Dispatch` that reach the emitter; what happens
between them is `Dispatcher`'s. The emitter first makes the span, then writes:
these are two steps, so that the calls of one job interleave between them. The
watcher compares the pod as it is with the pod as the informer had it
(`cached`), which may be several changes apart; `todo` is what it has yet to
emit, `seen` what it has emitted. A row that Prune deletes is left to
`JobStore`: it is deleted long after its completion.

### JobStore

`rows[j]` has the columns that queries look at: status, `updated_at`,
`completed_at`. `Text(t)` is the place of a time among the texts RFC3339Nano
makes of times: a whole second has no fraction, and its "Z" comes after the "."
of the others. All comparisons are of texts. `changed` is a history of the jobs
a listing owes nothing: those written or pruned since it began, and those that
share an instant with another one, which a cursor that is a time cannot tell
apart.

### CacheProtocol

A key is a sequence of parts, some of them slashes, so that joining and
splitting of paths is what the code does. `call[c]` is how far a client's
operation is, `pending[p]` the map of a sidecar, whose ids are positions, and
`objects` the bucket. A listing is a step per page. The archive is named by the
client that made it, so that a download can be told from another save's.

### AppToken

`clock` counts ticks, `phase[c]` is where a call of GitHub is. `asking` is when
the token under way was issued, from which its end is known. `TokenTick` holds
what is assumed of the network: a request reaches GitHub within the margin, and
a new token comes back with more than the margin left.

### GitHubPages

`arrived[i]` is an item's number in the order of arrival; GitHub lists the
newest first, of those that a filter by status lets through (`Listed`), so that
an item's place is the number of listed items that came no earlier. `number` is
the page to ask for, and a page is a range of places. Of the result it is kept
how often each item is in it. An item that begins or ends leaves a filtered list
and moves what comes after it, across a page's end perhaps: `blurred` remembers
those. `absent` remembers the items that came or ended in between.

### Shutdown

`delivery[w]` is the HTTP request of a webhook, `task[w]` its goroutine, `count`
the counter of the `sync.WaitGroup`. `StartTask` counts the goroutine before the
answer is written, as the handler does.

`process` is where main is, and with it the last `Done`, in the steps that
`sync.WaitGroup` takes: `blocked` in `Wait`; `counted`, when the last `Done` has
brought the counter to zero; `checked`, when it has found nothing changed;
`woken`, when it has reset the WaitGroup and woken main; `closing`, when `Wait`
has returned and the server is being stopped. A webhook may come to `wg.Go` at
any of them. Its `Add` panics when main sleeps and the counter is zero, which
the server recovers, so that the request ends and what was added stays;
`LastDoneChecks` and `WaitReturns` panic when they find that something was added,
and `DoneBelowZero` when it was lost by `LastDoneResets`. None of these three is
recovered. `between` is a history of the webhooks that came to `wg.Go` from
`counted` to `woken`, `late` of those that came at `closing`.

`ended` says how the process has ended: main returned, the WaitGroup was misused,
a dispatch panicked, the server could not listen, a kill. `DispatchPanics` and
`Kill` may come at any time, and so may `ShutdownReturns` while the process
closes: the server is given ten seconds.

### RetryDelay

Times are in milliseconds, and of a dispatch only its waits are counted. A
backoff entry grows by half with each failure, goes when the call works, and
stays when the dispatch gives up, for the next dispatch to start from (`worn`).

### JobSpec

A label is a record of key and value. `Read` is what one label makes of a
specification, `Readings` what the first n of them do, and `Parse` takes the
last of these. A quantity is an integer that wraps
around at `Word`. Of the pod template, what labels and settings decide is kept:
image, resources, node, environment, sidecar, toleration, deadline, labels.

## 3. Runs

| Run | Instance | Shows |
|---|---|---|
| `dispatch_lock` | 2 replicas, 2 calls each | Exclusion, visibility of the lock to the sweeps, no foreign release, refinement of `AbstractLock`, every call returns |
| `dispatch_lock_overrun` | same | **violation** of `Serialized`: the Lease is not renewed |
| `dispatch_faults` | 2 calls, 2 replicas, 3 runner IDs, 2 attempts, every operation failing or losing its answer, every mishap | No second JIT while a Job exists, no foreign Secret deleted; refinement of `AbstractDispatch` |
| `dispatch_live` | 2 runner IDs, failures up to the Create of the Job, failing pods, deleted Jobs | Nothing left behind, Jobs that can start, `JobRuns` |
| `dispatch_crash` | no failing call, one crash after another until calm | **violation** of `JobRuns`: an ownerless Secret blocks the job |
| `reconcile` | 2 replicas, two unmanaged jobs ahead, one of them listed twice, cap 2, cycles of up to two intervals, cooldown 3, one loss | `PickedUp`; `CapRests`: what a cycle counts are different jobs, which then rest |
| `reconcile_starved` | two unmanaged jobs ahead, cap 1, cooldown 2 | **violation** of `PickedUp` |
| `reconcile_leaderless` | two losses | **violation** of `SomeoneLeads` |
| `cleanup` | one Kubernetes Job, one crash | `OwnReasonHolds`, `DoneJobDeleted`, `CompletedLeavesNothing` |
| `cleanup_stale` | two Jobs in turn | **violation** of `SweepRemovesOnlyStale` |
| `tracking` | two calls, one pod, one restart, every write but the completion's may fail | `RootsTracked`, `EventsFollowPod`, `EveryRootEnds`, `FinishRecorded` |
| `parts` | the seven modules `JobStore` to `JobSpec`, one of them moving in each behaviour | see below |

The parts that `parts` joins share no state. Its `part` is chosen at the start
and says which module moves, so TLC explores the sum of their state spaces and
not the product. What it shows:

| Module | Property | In words |
|---|---|---|
| `JobStore` | `ListedOnce` | a job that is not written meanwhile is on exactly one page |
| | `PruneRight` | only what ended, or could not be dispatched, longer ago than the retention is pruned, give or take the second texts may confuse |
| | `ListingEnds` | the client comes to the last page |
| `CacheProtocol` | `SavedIsFound` | an entry finalized before a lookup is found by it |
| | `HitDownloads` | what is found can be downloaded and is what was saved, for keys without slashes |
| | `LookupEnds` | every lookup is answered |
| `AppToken` | `NeverExpired` | no request carries a token that has ended |
| | `TokenAnswered` | who waits for the mutex gets a token or an error |
| `GitHubPages` | `ListedAll` | what was active throughout, and not moved by another's leaving, is in the listing |
| | `PagesBounded` | a list is read on only after full pages: no more of them than what has come would fill |
| `Shutdown` | `AcceptedIsDone` | an answered webhook has its task; main's return or a panic of the WaitGroup cuts only tasks of webhooks that came when those main waits for had all ended |
| | `ProcessExits` | after the signal the process exits, once webhooks stop coming |
| `RetryDelay` | `WaitsFitLease` | a dispatch without worn entries or a Retry-After spends at most a quarter of the Lease waiting per call |
| `JobSpec` | `LabelsUnderstood` | in any order, labels are ignored, refused or taken as they should be one by one |
| | `JobAsLabelled` | the Job has what the last label of each key asks for |

The types of `DispatchLock`, `Tracking` and the seven parts are in no run: they
are proved (section 4). Those of `Dispatcher`, `Reconciler` and `Cleanup`, which
hold the bounds on attempts, on a cycle's dispatches and on Jobs, are checked and
proved.

### Why the bounds are enough

* Two replicas with two calls each give every pair of callers: in one process
  (mutex) and in two (Lease), with a third that comes later. A property broken
  by three holders is broken by two of them.
* Two attempts give a first, a repeated and a last attempt. Three runner IDs are
  more than two calls can have registered at one time, so that an ID that is
  not yet used is always there; symmetry in them is used for safety only.
* A cap of two is the smallest with which a cycle counts a second job. Cycles
  that last for two intervals lose a tick, as the ticker's channel holds one, and
  use up most of a cooldown of three. `reconcile` and `reconcile_starved` lie on
  both sides of the condition under which the reconciler is fair: the unmanaged
  queued jobs ahead are fewer than cap x cooldown / length of a cycle, that is
  two of three and two of two. With the defaults (5 per cycle, 60 s, 5 min) that
  is 25.
* The liveness run of `Cleanup` has one Job. Its safety property holds for any
  number of them by theorem `CleanupOwnReason`.
* `tracking` has two calls, as many as it takes to replace a trace or to come
  between its end and its next start, and one pod, as a job has one at a time. A
  failing write of the completion is left out: nothing repeats it, and the row
  then never tells that the job has ended.
* `parts`, `JobStore`: three jobs on pages of one or two, a second of two ticks,
  so that there are whole and broken seconds, and six instants with a retention
  of three, longer than that second, so that there are ended jobs on both sides of
  the cutoff. Three writes let a job be recorded, end and be written again while
  others are listed.
* `CacheProtocol`: three savers in two pods, two of which save different entries
  through one sidecar and two of which may save the same entry through
  different ones; a client that looks up; keys one of which begins another, and
  one with a slash; a page of one object, so that every listing has pages.
* `AppToken`: a token of four ticks, a margin of one, and twice that lifetime.
* `GitHubPages`: four items, two of them there at first, in pages of two, so that
  a first page is full at once and a second fills, or does not, meanwhile.
* `Shutdown`: three webhooks, one of which can come before the signal, one
  between the last `Done` and the end of the wait, and one during the stop.
* `RetryDelay`: the code's constants, but a longest delay of half a minute and
  not five, so that three dispatches reach it; jitter at both its ends.
* `JobSpec`: every sequence of up to three of fifteen labels, with good, bad and
  empty values; a word of 16, so that memory wraps around.

### Fairness

`DispatchLock`: an API call returns, and `sync.Mutex` hands itself to a starved
waiter, hence strong fairness of `AcquireMutex`. `Dispatcher` adds a leader
whose reconciler comes back to a queued job, Leases that expire, kubelet, TTL
controller and garbage collector that work, and a sweep that again and again
finds the lock free. Nothing makes a webhook arrive. `Reconciler`: a candidate
gets a free election Lease, goroutines run, time passes. `Cleanup`: calls and
sweeps go on; pods, runners, the completed event and the TTL are owed nothing,
so that `DoneJobDeleted` and `CompletedLeavesNothing` rest on the watcher's one
call and on the sweep alone. `CalmDown` is fair everywhere: faults end.
`Tracking`: calls under way go on, the informer delivers (it lists again after a
failure), its handler goes on, and a trace reaches the age at which it is
evicted. Pods are owed nothing.

`JobStore`, `CacheProtocol`: whoever lists goes on with the
listing; nothing is asked of those who write meanwhile. `AppToken`: Go's mutex
is handed to a starved waiter, hence strong fairness of `LockToken`, and
requests come back; the HTTP client has no timeout, so that this is the
network's doing and not the code's. `Shutdown`: tasks return, main and the last
`Done` go on, and the server's stop has ten seconds; clients are owed nothing.
`GitHubPages` has safety properties alone.

`CHECK_DEADLOCK FALSE` stands in the runs of `Cleanup` and `Tracking`, where
the workflow job may be completed, or its pod deleted, with nothing left to do,
and in `parts`, where a part may end: every client served, the process exited,
the Job built.

## 4. Theorems

All are for every number of replicas, calls, runner IDs, attempts, jobs,
crashes, webhooks, callers, items, keys, clients and labels, for any page size and
any resolution of the clock, under the ASSUMEs of the modules and, where it says
so, under hypotheses on the constants. Every safety property of the passing runs
has its theorem. Some theorems state what no run lists: `NoMutexLeft`,
`NothingHeld`, `RestsOut`, `RootsEndOnce`, `FinishIsTrue`, `Cleanup`'s
`ImplementsAbstractDispatch`, the types of the modules whose runs have none, and what
`Dispatcher` inherits from `DispatchLock`.

### `DispatchLockProofs`

The types; `LockExcludes`, `LockIsVisible`, `MutexExcludes`, `ReleaseIsOwn` and
`LockRefinement`. The inductive invariant says that until an overrun every call in
the critical section is the holder of an active Lease, from which exclusion
follows, and that a snapshot that is not outdated is the Lease itself: without
that second part a claim could rest on what an old Get saw.

`MutexIsHeld` is about the mutex alone: one that is taken belongs to a call of
its own process that is still at work. That excludes a mutex forgotten on an
early return, or by a crash, for ever; that a waiter then gets it is
`EveryCallReturns`, which TLC checks.

### `DispatcherProofs`

Every step of `Dispatcher` is a step of `DispatchLock` or leaves it alone
(`DispatcherUsesLock`), so the lock's theorems carry over: `DispatchExcludes`,
`DispatchIsVisible`, and `DispatchImplementsLock`, by which the dispatcher too is
an `AbstractLock`. `DispatchDedups` and
`DispatchDropsOwn` hold under every fault except an overrun. Their invariant
(`DispatcherInv`) ties a call's position to what exists: from the last duplicate
check to the Create there is no Job, and from the Secret's Create on the Secret,
if there is one, carries this call's runner.

Three properties do not hold under every fault, and their theorems say which
faults must stay away. The hypotheses are about the sets `Fails`, `Lost` and
`Mishaps` that an instance chooses; dropping one of them gives a run that TLC
refutes, so they are the conditions and not a convenience.

| Theorem | Property | Without | Still under |
|---|---|---|---|
| `DispatchLeavesNoSecret` | `NoSecretLeft` | crash or cancellation; a lost answer to the Secret's Create; a failing Delete of it | overruns, failing or lost Creates of the Job, failing or lost owner updates |
| `DispatchTakesRunnerBack` | `RunnerTakenBack` | cancellation; a failing delete of a runner | crashes, overruns, every other failure and every lost answer, for a runner whose ID the call was told |
| `DispatchKeepsJobConfigured` | `PendingJobConfigured` | overrun; a failing owner update; a lost answer to it or to the Job's Create | crashes and cancellations at every step, every other failure, deleted Jobs, the sweep |

`DispatchHoldsNothing` says that a `Dispatch` that has returned, by whichever of
its many returns, holds neither lock nor mutex. The positions of the two
modules are tied together for that (`Outskirts`): which `pc` of the lock belongs
to each `step` before the lock and after it.

`DispatchImplementsOutside` is the refinement of `AbstractDispatch`. A step is
either one of the lock, which creates no Job, or one of the Job, which leaves
the lock alone (`OutsideStep`, `OutsideLockStep`, `OutsideJobStep`). The
invariant needed beside `LockInv` is `OverrunAtWork`: nobody has overrun whose
call is over, without which the last holder's return would not be the one that
ends an overrun.

The first of the three is inductive beside `DispatcherInv`. The second needs the runner of a
call followed through its retries (`RunnerKept`). The third follows the Secret
from its Create to the Job's end: `Ready` says what a pending Job has,
`CallNeeds` what the call that is about to give it that has in hand.

### `ReconcilerProofs`, `CleanupProofs`, `TrackingProofs`

* Types of the reconciler, hence that no cycle dispatches more than its cap.
* `CapIsOfRestedJobs`: the jobs a cycle counts against its cap are as many
  different jobs that it has marked as checked, however often the listing names
  one. The invariant (`CycleInv`) adds that the job found due is the one the
  cycle is at and has no check of late (`DueRight`): that is what makes the next
  one counted a different one. `ChecksRestOut`: between two checks of a job
  by one leader lies a whole cooldown. Together they are the safety half of
  `PickedUp`: a full cycle puts as many jobs out of the way of the next ones as
  its cap allows. The other half is liveness and stays with TLC.
* Types of the cleanup, and `CleanupOwnReason`. The invariant says that what
  a pending call was made for, if that Job is still there, is no longer healthy
  (`Condemned`); a new Job cannot make it false, as its number is new
  (`Known`), and no step takes a reason back (`ReasonStays`).
* `CleanupMeetsDispatch`: the dispatch in `Cleanup` implements `AbstractDispatch`,
  as `Dispatcher` does. No invariant but the types is needed.
* `EveryOpenRootTracked`. `RootsTracked` is inductive with the types of the two
  variables it names: a call starts a root only when the registry has no entry,
  when by the invariant no root is open either. `RootSpansEndOnce` adds that a
  span that has ended is not opened again, from a call's spans being its own
  (`RootOwned`). `TrackingTypeCorrect` says, beside the types, that the watcher
  knows the pod of every event it has still to emit.
* `EventsFollowPods`, `FinishesAreTrue`: what the watcher emits is in order and
  true, though the informer leaves out states of a pod and a restart forgets
  what was emitted; and a row has a completion time only if a pod of the job
  has ended, whichever writes fail. The invariant (`WatcherInv`) is about the
  list of events that are due: "scheduled" is first in it or already emitted
  (`ScheduledFirst`), a completion in it, or being written, is of a pod that is
  over (`CompletedIsTrue`), and what the informer last delivered is emitted or in
  it (`DeliveredKept`).

### `RequestProofs`

* `ShutdownTypeCorrect`, with no open request and no task in a process that has
  exited.
* `AcceptedTasksDone`: `AcceptedIsDone`. The invariant says that a request that
  is handled has its task (`TaskKept`) and, beyond the property, that the counter
  is the number of tasks at work until it first gets to zero in the wait; whatever
  is at work afterwards has come since (`RunningCounted`). After that the counter
  may be anything: what an `Add` has counted is lost in the reset, or left behind
  by a panic. It is of no use there, and not needed.
* `WaitsAreCovered`: `WaitsFitLease`, for at most three attempts, a jitter of at
  most 120 % and a first delay of a twelfth of the Lease, which is what the code
  has (3 attempts, 10 s, 2 min), with nothing to spare. The invariant says that a
  key with an entry has failed since it last worked, and before the dispatch or
  as the key of the call under way (`EntriesFailed`), and bounds the waits so far
  by the calls so far and the attempts at the one under way (`WaitsBounded`).
* `JobSpecTypeCorrect`, `LabelsAreUnderstood`, `JobsAreAsLabelled`, for any number
  of labels. The reading of all labels is compared with what the *last* label of
  each key says (`Understood`): they agree before the first label, and if they
  agree on n labels then on one more (`OneMoreRead`). That the recursive function
  exists at all is a lemma, `ReadingsRight`.

### `StorageProofs`

* `OnlyOldRowsPruned`, that is `PruneRight` for any length of a second in ticks. A
  time a second later or more has a later text (`TextKeepsOrder`), so comparing
  texts is wrong by less than a second; and a row that says its job has ended was
  last written at the end (`RowRight`), so that both conditions of the DELETE
  speak of the end.
* `JobsListedOnce`: `ListedOnce`. Times of different texts are ordered by them, a
  page ends at its cursor, and what is before the cursor is what has been shown:
  a job not written since the listing began and alone at its instant is shown
  once if it is before the cursor and not at all if it is not (`PagesRight`).
* `CacheTypeCorrect`, `SavedEntriesFound`, `HitsDownloaded`. The invariant
  (`CacheIInv`) says that an upload id leads to the entry it was given for, that
  an object's name is that of the entry its archive was made for, that what was
  finalized is in the bucket, that a lookup under way has listed the known entries
  among the names behind it, and that its answer is one of them. The lemmas under
  it are about names: joining is injective for one version, and a path with one
  slash splits where it was joined. `HitsDownloaded` has the hypothesis that no
  part of a key is a version: versions are digests that the cache action computes.

### `GitHubClientProofs`

* Types of the token, with the mutex held by exactly the caller at work under it,
  and `TokensNeverExpired`. That a token is still good is not inductive; the
  invariant (`InTime`) says that it was handed out with more than the margin left,
  and no longer than the margin ago.
* `PagesTypeCorrect`, and `SteadyItemsListed`: `ListedAll`. The invariant
  (`Covered`) says that an item that stays, and that no other one has moved, is
  found, or is behind the page asked for, or belongs to a status still to be asked
  for. Arrivals only push items back; a page that is not full is the last. What
  is counted (`PlacesInOrder`, `NextPlace`, `PlacesTaken`) is that the places of a
  list of n items are exactly 1 to n, hence that a full page has `PerPage` items.
* `PagesAreBounded`: `PagesBounded`. A full page, and the pages before it, are
  filled by different items (`PagesFew`); items only come (`PagesStayBounded`).

### How the proofs do without induction

The induction theorems of the library have an operator as a parameter, which the
installed provers cannot instantiate. That the natural numbers are well-founded
is stated without one, and gives `LeastNumber`: a set of numbers that is not empty
has a least member. A fact about every n is proved by taking the least n it fails
for. The labels, the places in a list and the last of several labels are
handled so. No module with theorems has a RECURSIVE operator.

### Model-checked only

All liveness (`EveryCallReturns`, `JobRuns`, `PickedUp`, `DoneJobDeleted`,
`CompletedLeavesNothing`, `EveryRootEnds`, `FinishRecorded`, `ListingEnds`,
`LookupEnds`, `TokenAnswered`, `ProcessExits`), which is beyond the prover.

## 5. What the code does not keep

1. `dispatch_lock_overrun`: "JobLocker serializes dispatch" holds only as long
   as a dispatch takes less than two minutes.
2. `dispatch_crash`: a crash between the Secret's Create and its owner reference
   leaves a Secret that fails every later dispatch of the job.
3. `reconcile_starved`: unmanaged queued jobs use up the reconciler's cap.
4. `reconcile_leaderless`: a replica that lost the election never stands again.
5. `cleanup_stale`: the sweep may delete, by name, a Job newer than its list, on
   its verdict of the one before.

Two more are seen when faults are added to `dispatch_live`: an answer lost by
the Job's Create, and a failing Update of the Secret, both take a Job's Secret
away while its pod waits. They are listed as hazards. In `Tracking`, a job whose
trace was evicted gets a second one from its next event, and a late event sets
the status of a row back, also that of a completed one; the time of its
completion stays.

The parts of `parts` rest on conditions that their properties name, because
without them the code does otherwise:

* `FindKeys` documents exact matches first (`s3backend.go:46`) and sorts the
  matches of all candidates by name: a restore key's match may come before the
  exact one. `SavedIsFound` asks for the exact one of lookups without restore
  keys only.
* A key with a slash is found and cannot be downloaded: the path of its URL is
  split at the first slash. `HitDownloads` excepts it.
* Jobs that share an instant can be split by a cursor that is a time, and the
  second of them is on no page; `ListedOnce` excepts them.
* Backoff entries that an earlier dispatch has left, and a Retry-After, can make
  a dispatch wait for longer than its Lease lasts; `WaitsFitLease` excepts both.
* "Wait blocks until in-flight dispatches complete" (`handler.go:74`) holds only
  of those that have begun when the last one ends. The server is stopped after the
  wait, so a webhook may still start a task while `Wait` is on its way out
  (`between`); `Wait` then panics ("WaitGroup is reused before previous Wait has
  returned"), and the process ends with the task cut. A webhook that comes while
  the server is being stopped (`late`) starts a task that the exit may cut.
  `AcceptedIsDone` excepts both.
* A panic of a dispatch (see `mem` below) ends the process, and cuts all tasks.
  `AcceptedIsDone` excepts that, as it does a kill.
* A `mem` label that is no quantity passes `Parse` and panics in
  `resource.MustParse`, when runner and Secret have been created: the process
  dies, and leaves a Secret like that of `dispatch_crash`. A product of memory
  and CPUs beyond an int64 wraps around; `JobAsLabelled` excepts it.
* With a cache the runner's environment is replaced, not extended
  (`builder.go:111`): `RUNNER_EPHEMERAL` and `DISABLE_RUNNER_UPDATE` are lost.
* `GHA_DEFAULT_ARCH` is not checked, though an `arch` label must be x64 or arm64:
  with the default amd64, jobs run on nodes that no label could ask for.
  `JobAsLabelled` allows it.
* One label without "=" makes `Parse` fail for the whole job, though a runs-on
  label has made it the scheduler's.

## 6. Not modelled

* Signatures, JSON, SQL text, constant parts of pod templates, formatting,
  logging, metrics, flags, the console, the scripts: pure I/O or data. The
  encodings that matter, times and paths as text, are in `JobStore` and
  `CacheProtocol`.
* The statistics of the API and their percentiles, which read rows and keep
  nothing; the latency columns of a row; migrations, which run once, alone.
* The base URL of the cache sidecar, which requests set without a lock: a data
  race, but all requests of a runner set the same value.
* Delays in `Dispatcher`: any delay is possible there. `RetryDelay` has them.
* Several repositories, and the next runners or Jobs of a sweep: they run one
  after the other and share nothing but time.
* Requests that never return: fairness excludes them.

## 7. Plan

1. More refinements: what a row promises, for `JobStore` and `Tracking`, and what
   `Reconciler` and `RetryDelay` ask of a dispatch, as abstract specifications of
   their own.
2. The orphan sweep over a paged listing of runners, composed with
   `GitHubPages`: a runner that moves across a page's end is seen in the next
   sweep.
3. Statistics over a row that changes.
