------------------------------ MODULE Tracking ------------------------------
(* What one replica of the scheduler records of a workflow job: its trace   *)
(* (JobTraceRegistry and SpanEmitter of internal/tracing) and its row in the *)
(* job store (StoreEmitter, internal/store/sqlite), fed by the webhook       *)
(* handler, the reconciler, Dispatch and the pod watcher.                    *)
(*                                                                           *)
(* Each of them first emits its span, then writes to the store; the steps of *)
(* all of them interleave.  A write that fails is logged and forgotten.      *)
EXTENDS Naturals, Sequences

CONSTANTS
    Calls,        \* "queued" events and turns of the reconciler, one Dispatch each
    NoTrace,      \* no call: no trace of the job in the registry
    Droppable,    \* the writes that may fail, a subset of Statuses
    MaxPods,      \* bound: Kubernetes Jobs, one pod each, created for the job
    MaxRestarts   \* bound: restarts of the replica

\* The values of store.Status; "completed" is succeeded or failed.
Statuses ==
    {"queued", "dispatching", "dispatched", "dispatch_error", "scheduled", "running", "completed"}

ASSUME TraceAssumption == NoTrace \notin Calls
ASSUME BoundsAssumption ==
    Droppable \subseteq Statuses /\ MaxPods \in Nat /\ MaxRestarts \in Nat

VARIABLES
    status,    \* of the job's row, "none" without a row
    finished,  \* the row has completed_at
    trace,     \* jobs[jobID] of the registry: the call that started the root span
    root,      \* of each call: its root span, one trace each
    step,      \* of each call
    pod,       \* of each Kubernetes Job created for the job
    cached,    \* the pods as the informer last delivered them
    handled,   \* the pod whose update the watcher handles
    todo,      \* the events it has yet to emit for that update
    writing,   \* the event whose span is emitted and whose row is not written
    seen,      \* the events emitted, per pod
    restarts

rowVars == <<status, finished>>
traceVars == <<trace, root>>
watcherVars == <<cached, handled, todo, writing, seen>>
vars == <<rowVars, traceVars, step, pod, watcherVars, restarts>>

Pods == 1 .. MaxPods
PodStates == {"none", "pending", "scheduled", "running", "unknown", "finished", "gone"}
Events == {"scheduled", "running", "completed"}

TypeOK ==
    /\ status \in Statuses \cup {"none"}
    /\ finished \in BOOLEAN
    /\ trace \in Calls \cup {NoTrace}
    /\ root \in [Calls -> {"none", "open", "ended"}]
    /\ step \in [Calls -> {"idle", "traced", "queued", "parsed", "working", "created", "failed", "done"}]
    /\ pod \in [Pods -> PodStates]
    /\ cached \in [Pods -> PodStates \ {"gone"}]
    /\ handled \in 0 .. MaxPods
    /\ todo \in Seq(Events)
    /\ todo # <<>> => handled \in Pods
    /\ writing \in Events \cup {"none"}
    /\ seen \in [Pods -> SUBSET Events]
    /\ restarts \in 0 .. MaxRestarts

Init ==
    /\ status = "none" /\ finished = FALSE
    /\ trace = NoTrace /\ root = [c \in Calls |-> "none"]
    /\ step = [c \in Calls |-> "idle"]
    /\ pod = [p \in Pods |-> "none"]
    /\ cached = [p \in Pods |-> "none"]
    /\ handled = 0
    /\ todo = <<>>
    /\ writing = "none"
    /\ seen = [p \in Pods |-> {}]
    /\ restarts = 0

-----------------------------------------------------------------------------
(* The store and the registry.                                               *)

\* UPDATE jobs ... WHERE job_id: nothing happens without a row.
Update(s) ==
    IF status = "none" THEN UNCHANGED rowVars
    ELSE /\ status' = s
         /\ finished' = (finished \/ s = "completed")

\* UpsertQueued inserts the row, or sets the status of the one there is.
Upsert == status' = "queued" /\ UNCHANGED finished

\* persist: a failed write is dropped.
Written(s, write) == write \/ (s \in Droppable /\ UNCHANGED rowVars)

\* Mutant of StartJob: a trace the job has already got is replaced.
StartJobAnew(c) == trace' = c /\ root' = [root EXCEPT ![c] = "open"]

\* StartJob, StartJobFromReconcile: a root span, unless the job has a trace.
StartJob(c) ==
    IF trace # NoTrace THEN UNCHANGED traceVars
    ELSE trace' = c /\ root' = [root EXCEPT ![c] = "open"]

\* Mutant of EndJob: the entry goes, the root span stays open.
EndJobOnly == trace # NoTrace /\ trace' = NoTrace /\ UNCHANGED root

\* EndJob, and evictStale for one job: the entry goes and its root span ends.
EndJob ==
    trace # NoTrace /\ trace' = NoTrace /\ root' = [root EXCEPT ![trace] = "ended"]

\* A trace is an hour old: workflow jobs may take longer.
Evict ==
    /\ EndJob
    /\ UNCHANGED <<rowVars, step, pod, watcherVars, restarts>>

-----------------------------------------------------------------------------
(* Webhook handler, reconciler and Dispatch.                                 *)

Goto(c, from, to) == step[c] = from /\ step' = [step EXCEPT ![c] = to]

\* OnQueued of the webhook handler, OnBeforeDispatch of the reconciler: for
\* unmanaged labels and for Jobs that exist, too.
Arrive(c) ==
    /\ Goto(c, "idle", "traced")
    /\ StartJob(c)
    /\ UNCHANGED <<rowVars, pod, watcherVars, restarts>>

WriteQueued(c) ==
    /\ Goto(c, "traced", "queued")
    /\ Written("queued", Upsert)
    /\ UNCHANGED <<traceVars, pod, watcherVars, restarts>>

\* Dispatch returns at once for unmanaged labels.
Skip(c) ==
    /\ Goto(c, "queued", "done")
    /\ UNCHANGED <<rowVars, traceVars, pod, watcherVars, restarts>>

\* OnParsed comes before the first duplicate check; labels that do not parse
\* go to OnError.
Parse(c) ==
    /\ Goto(c, "queued", "parsed") \/ Goto(c, "queued", "failed")
    /\ UNCHANGED <<rowVars, traceVars, pod, watcherVars, restarts>>

WriteDispatching(c) ==
    /\ Goto(c, "parsed", "working")
    /\ Written("dispatching", Update("dispatching"))
    /\ UNCHANGED <<traceVars, pod, watcherVars, restarts>>

\* A duplicate, a lock held elsewhere or an error that is not reported; or one
\* that is.
Return(c) ==
    /\ Goto(c, "working", "done") \/ Goto(c, "working", "failed")
    /\ UNCHANGED <<rowVars, traceVars, pod, watcherVars, restarts>>

\* A Job is created, by this replica's call or by another replica's, when
\* there is none: the one before it is gone, and its pod.
NewJob(p) ==
    /\ pod[p] = "none"
    /\ \A q \in Pods \ {p} : pod[q] \in {"none", "gone"}
    /\ pod' = [pod EXCEPT ![p] = "pending"]

CreateJob(c) ==
    /\ Goto(c, "working", "created")
    /\ \E p \in Pods : NewJob(p)
    /\ UNCHANGED <<rowVars, traceVars, watcherVars, restarts>>

\* OnJobCreated: the pod may be ahead of it.
WriteCreated(c) ==
    /\ Goto(c, "created", "done")
    /\ Written("dispatched", Update("dispatched"))
    /\ UNCHANGED <<traceVars, pod, watcherVars, restarts>>

\* OnError.
WriteError(c) ==
    /\ Goto(c, "failed", "done")
    /\ Written("dispatch_error", Update("dispatch_error"))
    /\ UNCHANGED <<traceVars, pod, watcherVars, restarts>>

CallStep(c) ==
    \/ WriteQueued(c) \/ Skip(c) \/ Parse(c) \/ WriteDispatching(c) \/ Return(c)
    \/ CreateJob(c) \/ WriteCreated(c) \/ WriteError(c)

-----------------------------------------------------------------------------
(* The pod watcher.  Its informer calls it from one goroutine.               *)

IsScheduled(s) == s \in {"scheduled", "running", "unknown", "finished"}

\* Mutant of Occurred: the end of a pod counts only when it was seen running.
OccurredFromRunning(e, old, new) ==
    CASE e = "scheduled" -> ~IsScheduled(old) /\ IsScheduled(new)
      [] e = "running" ->
            (old # "running" /\ new = "running") \/ (old = "none" /\ new = "finished")
      [] e = "completed" -> old = "running" /\ new = "finished"

\* Mutant of Occurred: a pod is scheduled only after it was seen pending.
OccurredInOrder(e, old, new) ==
    CASE e = "scheduled" -> old = "pending" /\ IsScheduled(new)
      [] e = "running" ->
            (old # "running" /\ new = "running") \/ (old = "none" /\ new = "finished")
      [] e = "completed" -> old # "finished" /\ new = "finished"

\* What has happened to a pod between two deliveries; "none" is the nil of an
\* Add.  A pod first seen when it is finished is taken to have run.
Occurred(e, old, new) ==
    CASE e = "scheduled" -> ~IsScheduled(old) /\ IsScheduled(new)
      [] e = "running" ->
            (old # "running" /\ new = "running") \/ (old = "none" /\ new = "finished")
      [] e = "completed" -> old # "finished" /\ new = "finished"

\* The event, if it is due for what the informer delivers of pod p.
Due(e, p) == IF Occurred(e, cached[p], pod[p]) THEN <<e>> ELSE <<>>

\* The informer delivers the pod as it is, which may be several changes after
\* what it delivered before.
Deliver(p) ==
    /\ todo = <<>> /\ writing = "none"
    /\ pod[p] \notin {"none", "gone", cached[p]}
    /\ cached' = [cached EXCEPT ![p] = pod[p]]
    /\ handled' = p
    /\ todo' = Due("scheduled", p) \o Due("running", p) \o Due("completed", p)
    /\ UNCHANGED <<rowVars, traceVars, step, pod, writing, seen, restarts>>

\* emitOnce has already emitted it.
Repeated ==
    /\ todo # <<>> /\ writing = "none"
    /\ Head(todo) \in seen[handled]
    /\ todo' = Tail(todo)
    /\ UNCHANGED <<rowVars, traceVars, step, pod, cached, handled, writing, seen, restarts>>

\* PodScheduled, PodRunning, PodCompleted of the SpanEmitter; the last one
\* ends the trace.
EmitSpan ==
    /\ todo # <<>> /\ writing = "none"
    /\ Head(todo) \notin seen[handled]
    /\ todo' = Tail(todo)
    /\ writing' = Head(todo)
    /\ seen' = [seen EXCEPT ![handled] = @ \cup {Head(todo)}]
    /\ \/ Head(todo) = "completed" /\ EndJob
       \/ (Head(todo) # "completed" \/ trace = NoTrace) /\ UNCHANGED traceVars
    /\ UNCHANGED <<rowVars, step, pod, cached, handled, restarts>>

WriteEvent ==
    /\ writing # "none"
    /\ writing' = "none"
    /\ Written(writing, Update(writing))
    /\ UNCHANGED <<traceVars, step, pod, cached, handled, todo, seen, restarts>>

WatcherStep == Repeated \/ EmitSpan \/ WriteEvent

\* The replica restarts: registry and watcher begin anew, open spans are lost,
\* and so are the calls under way.  The row stays.
Restart ==
    /\ restarts < MaxRestarts
    /\ restarts' = restarts + 1
    /\ trace' = NoTrace
    /\ root' = [c \in Calls |-> IF root[c] = "open" THEN "ended" ELSE root[c]]
    /\ step' = [c \in Calls |-> IF step[c] = "idle" THEN "idle" ELSE "done"]
    /\ cached' = [p \in Pods |-> "none"]
    /\ handled' = 0
    /\ todo' = <<>>
    /\ writing' = "none"
    /\ seen' = [p \in Pods |-> {}]
    /\ UNCHANGED <<rowVars, pod>>

-----------------------------------------------------------------------------
(* Kubernetes.                                                               *)

CreatedElsewhere ==
    /\ \E p \in Pods : NewJob(p)
    /\ UNCHANGED <<rowVars, traceVars, step, watcherVars, restarts>>

\* A pod goes on, perhaps past states its status never showed; its node is lost
\* for a while; it is deleted.
PodStep(p) ==
    /\ pod[p] \notin {"none", "gone"}
    /\ \/ pod[p] = "pending" /\ pod' = [pod EXCEPT ![p] = "scheduled"]
       \/ pod[p] \in {"scheduled", "unknown"} /\ pod' = [pod EXCEPT ![p] = "running"]
       \/ pod[p] = "running" /\ pod' = [pod EXCEPT ![p] = "unknown"]
       \/ pod[p] \in {"scheduled", "running", "unknown"} /\ pod' = [pod EXCEPT ![p] = "finished"]
       \/ pod' = [pod EXCEPT ![p] = "gone"]
    /\ UNCHANGED <<rowVars, traceVars, step, watcherVars, restarts>>

Next ==
    \/ \E c \in Calls : Arrive(c) \/ CallStep(c)
    \/ \E p \in Pods : Deliver(p) \/ PodStep(p)
    \/ WatcherStep \/ Evict \/ Restart \/ CreatedElsewhere

Spec == Init /\ [][Next]_vars

\* Calls under way, the informer and the eviction go on.  Events and pods need
\* not do anything.
Fairness ==
    /\ \A c \in Calls : WF_vars(CallStep(c))
    /\ \A p \in Pods : WF_vars(Deliver(p))
    /\ WF_vars(WatcherStep)
    /\ WF_vars(Evict)

FairSpec == Spec /\ Fairness

-----------------------------------------------------------------------------
(* Properties.                                                               *)

\* The root span that has not ended is the registry's, and the registry's has not
\* ended: concurrent events for one job, eviction and the end of a pod leave no
\* span that nobody can end, and no trace that goes on under an ended span.
RootsTracked == \A c \in Calls : root[c] = "open" <=> c = trace

\* A root span that has ended is not opened again.
RootStep == \A c \in Calls : root[c] = "ended" => root'[c] = "ended"
RootsEndOnce == [][RootStep]_vars

\* What has been emitted of a pod follows what has happened to it: it has ended if
\* it is reported completed, and was reported scheduled before it was reported
\* running or completed; and an idle watcher has emitted what the informer last
\* delivered, though the informer leaves out states, and the watcher forgets in a
\* restart what it emitted.
EventsFollowPod ==
    \A p \in Pods :
        /\ "completed" \in seen[p] => pod[p] \in {"finished", "gone"}
        /\ seen[p] \cap {"running", "completed"} # {} => "scheduled" \in seen[p]
        /\ todo = <<>> =>
             /\ IsScheduled(cached[p]) => "scheduled" \in seen[p]
             /\ cached[p] = "running" => "running" \in seen[p]
             /\ cached[p] = "finished" => "completed" \in seen[p]

\* A row has the time of a completion only if a pod of the job has ended.
FinishIsTrue == finished => \E p \in Pods : pod[p] \in {"finished", "gone"}

\* Every root span ends, or is lost with its process: a job whose pod is never
\* seen to finish leaves no span open for ever.
EveryRootEnds == \A c \in Calls : root[c] = "open" ~> root[c] # "open"

\* A pod that has finished is recorded as completed, though the scheduler
\* restarts, updates are skipped, events come twice and other writes fail, if
\* the job has a row when the watcher comes to see it, and the pod is still there.
FinishRecorded ==
    \A p \in Pods :
        pod[p] = "finished" /\ status # "none" /\ "completed" \notin seen[p]
        ~> finished \/ pod[p] = "gone"
=============================================================================
