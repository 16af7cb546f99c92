--------------------------- MODULE TrackingProofs ---------------------------
(* The registry's root span is the one that is open, and what is emitted of  *)
(* a pod follows what happens to it, for any calls, any number of Kubernetes *)
(* Jobs and restarts, whichever writes fail.                                 *)
EXTENDS Tracking, SequenceTheorems, TLAPS

\* The part of TypeOK that it takes.
RootInv ==
    /\ trace \in Calls \cup {NoTrace}
    /\ root \in [Calls -> {"none", "open", "ended"}]
    /\ RootsTracked

LEMMA InitRootInv == Init => RootInv
BY TraceAssumption DEF Init, RootInv, RootsTracked

\* What any of them does to the traces: nothing, or one of these three.
LEMMA StartKeepsRootInv ==
    ASSUME RootInv, NEW c \in Calls, StartJob(c)
    PROVE  RootInv'
<1>1. CASE trace # NoTrace
  BY <1>1 DEF StartJob, RootInv, RootsTracked, traceVars
<1>2. CASE trace = NoTrace
  <2>1. trace' = c /\ root' = [root EXCEPT ![c] = "open"]
    BY <1>2 DEF StartJob
  <2>2. \A d \in Calls : root[d] # "open"
    BY <1>2, TraceAssumption DEF RootInv, RootsTracked
  <2> QED
    BY <2>1, <2>2 DEF RootInv, RootsTracked
<1> QED
  BY <1>1, <1>2

LEMMA EndKeepsRootInv ==
    ASSUME RootInv, EndJob
    PROVE  RootInv'
<1>1. /\ trace \in Calls
      /\ trace' = NoTrace
      /\ root' = [root EXCEPT ![trace] = "ended"]
  BY DEF EndJob, RootInv
<1>2. \A c \in Calls : root'[c] # "open"
  BY <1>1 DEF RootInv, RootsTracked
<1> QED
  BY <1>1, <1>2, TraceAssumption DEF RootInv, RootsTracked

LEMMA RestartKeepsRootInv ==
    ASSUME RootInv, Restart
    PROVE  RootInv'
<1>1. /\ trace' = NoTrace
      /\ root' = [c \in Calls |-> IF root[c] = "open" THEN "ended" ELSE root[c]]
  BY DEF Restart
<1>2. \A c \in Calls : root'[c] # "open"
  BY <1>1
<1> QED
  BY <1>1, <1>2, TraceAssumption DEF RootInv, RootsTracked

LEMMA NextRootInv == RootInv /\ [Next]_vars => RootInv'
<1> SUFFICES ASSUME RootInv, [Next]_vars PROVE RootInv'
  OBVIOUS
<1>1. ASSUME UNCHANGED traceVars PROVE RootInv'
  BY <1>1 DEF RootInv, RootsTracked, traceVars
<1>2. ASSUME NEW c \in Calls, Arrive(c) PROVE RootInv'
  BY <1>2, StartKeepsRootInv DEF Arrive
<1>3. ASSUME NEW c \in Calls, CallStep(c) PROVE RootInv'
  BY <1>1, <1>3 DEF CallStep, WriteQueued, Skip, Parse, WriteDispatching, Return,
     CreateJob, WriteCreated, WriteError
<1>4. ASSUME NEW p \in Pods, Deliver(p) \/ PodStep(p) PROVE RootInv'
  BY <1>1, <1>4 DEF Deliver, PodStep
<1>5. CASE WatcherStep
  <2>1. CASE EmitSpan
    BY <1>1, <2>1, EndKeepsRootInv DEF EmitSpan
  <2>2. CASE Repeated \/ WriteEvent
    BY <1>1, <2>2 DEF Repeated, WriteEvent
  <2> QED
    BY <1>5, <2>1, <2>2 DEF WatcherStep
<1>6. CASE Evict
  BY <1>6, EndKeepsRootInv DEF Evict
<1>7. CASE Restart
  BY <1>7, RestartKeepsRootInv
<1>8. CASE CreatedElsewhere
  BY <1>1, <1>8 DEF CreatedElsewhere
<1>9. CASE UNCHANGED vars
  BY <1>1, <1>9 DEF vars
<1> QED
  BY <1>2, <1>3, <1>4, <1>5, <1>6, <1>7, <1>8, <1>9 DEF Next

\* Whatever starts, ends or evicts traces, and in whatever order, the open root
\* span is the one the registry has: it can still be ended, and is still open.
THEOREM EveryOpenRootTracked == Spec => []RootsTracked
<1>1. RootInv => RootsTracked
  BY DEF RootInv
<1> QED
  BY <1>1, InitRootInv, NextRootInv, PTL DEF Spec

-----------------------------------------------------------------------------
\* The initial values have their types.
LEMMA InitTypes == Init => TypeOK
<1> SUFFICES ASSUME Init PROVE TypeOK
  OBVIOUS
<1>1. todo = <<>> /\ todo \in Seq(Events)
  BY DEF Init
<1>2. handled \in 0 .. MaxPods /\ restarts \in 0 .. MaxRestarts
  BY BoundsAssumption DEF Init
<1> QED
  BY <1>1, <1>2 DEF Init, TypeOK, PodStates

\* What StartJob and EndJob do to the traces keeps their types.
LEMMA TraceTypes ==
    ASSUME TypeOK, EndJob \/ \E c \in Calls : StartJob(c)
    PROVE  trace' \in Calls \cup {NoTrace} /\ root' \in [Calls -> {"none", "open", "ended"}]
BY DEF TypeOK, EndJob, StartJob, traceVars

\* So does a write to the row, done or dropped.
LEMMA RowTypes ==
    ASSUME TypeOK, NEW s \in Statuses, Written(s, Update(s)) \/ Written(s, Upsert)
    PROVE  status' \in Statuses \cup {"none"} /\ finished' \in BOOLEAN
BY DEF TypeOK, Written, Update, Upsert, rowVars, Statuses

\* What is due is a sequence of events.
LEMMA DueTypes == \A p : Due("scheduled", p) \o Due("running", p) \o Due("completed", p) \in Seq(Events)
<1> TAKE p
<1>1. ASSUME NEW e \in Events PROVE Due(e, p) \in Seq(Events)
  BY <1>1 DEF Due
<1>2. /\ Due("scheduled", p) \in Seq(Events)
      /\ Due("running", p) \in Seq(Events)
      /\ Due("completed", p) \in Seq(Events)
  BY <1>1 DEF Events
<1> QED
  BY <1>2

\* Every step keeps the types.
LEMMA NextTypes == TypeOK /\ [Next]_vars => TypeOK'
<1> SUFFICES ASSUME TypeOK, [Next]_vars PROVE TypeOK'
  OBVIOUS
<1> USE BoundsAssumption DEF TypeOK
<1>1. ASSUME NEW c \in Calls, Arrive(c) \/ CallStep(c) PROVE TypeOK'
  <2>1. CASE Arrive(c)
    BY <2>1, TraceTypes DEF Arrive, Goto, rowVars, watcherVars
  <2>2. CASE WriteQueued(c)
    BY <2>2, RowTypes DEF WriteQueued, Goto, traceVars, watcherVars, Statuses
  <2>3. CASE Skip(c) \/ Parse(c) \/ Return(c)
    BY <2>3 DEF Skip, Parse, Return, Goto, rowVars, traceVars, watcherVars
  <2>4. CASE WriteDispatching(c) \/ WriteCreated(c) \/ WriteError(c)
    BY <2>4, RowTypes
    DEF WriteDispatching, WriteCreated, WriteError, Goto, traceVars, watcherVars, Statuses
  <2>5. CASE CreateJob(c)
    BY <2>5 DEF CreateJob, NewJob, Goto, PodStates, rowVars, traceVars, watcherVars
  <2> QED
    BY <1>1, <2>1, <2>2, <2>3, <2>4, <2>5 DEF CallStep
<1>2. ASSUME NEW p \in Pods, Deliver(p) PROVE TypeOK'
  BY <1>2, DueTypes DEF Deliver, Pods, rowVars, traceVars
<1>3. ASSUME NEW p \in Pods, PodStep(p) PROVE TypeOK'
  BY <1>3 DEF PodStep, PodStates, rowVars, traceVars, watcherVars
<1>4. CASE Repeated
  BY <1>4 DEF Repeated, rowVars, traceVars
<1>5. CASE EmitSpan
  <2>1. Head(todo) \in Events /\ Tail(todo) \in Seq(Events)
    BY <1>5 DEF EmitSpan
  <2>2. trace' \in Calls \cup {NoTrace} /\ root' \in [Calls -> {"none", "open", "ended"}]
    BY <1>5, TraceTypes DEF EmitSpan, traceVars
  <2> QED
    BY <1>5, <2>1, <2>2 DEF EmitSpan, rowVars
<1>6. CASE WriteEvent
  BY <1>6, RowTypes DEF WriteEvent, Events, Statuses, traceVars
<1>7. CASE Evict
  BY <1>7, TraceTypes DEF Evict, rowVars, watcherVars
<1>8. CASE Restart
  BY <1>8 DEF Restart, PodStates, rowVars
<1>9. CASE CreatedElsewhere
  BY <1>9 DEF CreatedElsewhere, NewJob, PodStates, rowVars, traceVars, watcherVars
<1>10. CASE UNCHANGED vars
  BY <1>10 DEF vars, rowVars, traceVars, watcherVars
<1> QED
  BY <1>1, <1>2, <1>3, <1>4, <1>5, <1>6, <1>7, <1>8, <1>9, <1>10 DEF Next, WatcherStep

\* Row, registry, watcher and pods keep their types; in particular the watcher
\* always knows the pod of the events it has still to emit.
THEOREM TrackingTypeCorrect == Spec => []TypeOK
BY InitTypes, NextTypes, PTL DEF Spec

-----------------------------------------------------------------------------
\* A call that has not come yet has no root span, so that it cannot open one that
\* has ended.
RootOwned == \A c \in Calls : step[c] = "idle" => root[c] = "none"

\* No step opens a root span that has ended, or one of a call yet to come.
LEMMA NextRootOwned ==
    ASSUME TypeOK, RootsTracked, RootOwned, [Next]_vars
    PROVE  RootOwned' /\ RootStep
<1> USE DEF TypeOK, RootOwned, RootStep
<1>1. ASSUME UNCHANGED root, \A c \in Calls : step'[c] = "idle" => step[c] = "idle"
      PROVE  RootOwned' /\ RootStep
  BY <1>1
<1>2. ASSUME EndJob, UNCHANGED step PROVE RootOwned' /\ RootStep
  <2>1. trace \in Calls /\ root' = [root EXCEPT ![trace] = "ended"]
    BY <1>2 DEF EndJob
  <2>2. root[trace] = "open" /\ step[trace] # "idle"
    BY <2>1 DEF RootsTracked
  <2> QED
    BY <1>2, <2>1, <2>2
<1>3. ASSUME NEW c \in Calls, Arrive(c) PROVE RootOwned' /\ RootStep
  <2>1. step[c] = "idle" /\ step' = [step EXCEPT ![c] = "traced"]
    BY <1>3 DEF Arrive, Goto
  <2>2. root' = root \/ root' = [root EXCEPT ![c] = "open"]
    BY <1>3 DEF Arrive, StartJob, traceVars
  <2> QED
    BY <2>1, <2>2
<1>4. ASSUME NEW c \in Calls, CallStep(c) PROVE RootOwned' /\ RootStep
  <2>1. UNCHANGED root /\ \E s \in {"queued", "parsed", "working", "created", "failed", "done"} :
                              step' = [step EXCEPT ![c] = s]
    BY <1>4 DEF CallStep, WriteQueued, Skip, Parse, WriteDispatching, Return, CreateJob,
       WriteCreated, WriteError, Goto, traceVars
  <2> QED
    BY <1>1, <2>1
<1>5. CASE Restart
  BY <1>5 DEF Restart
<1>6. CASE EmitSpan \/ Evict
  BY <1>1, <1>2, <1>6 DEF EmitSpan, Evict, traceVars
<1>7. CASE \/ Repeated \/ WriteEvent \/ CreatedElsewhere \/ UNCHANGED vars
           \/ \E p \in Pods : Deliver(p) \/ PodStep(p)
  BY <1>1, <1>7 DEF Repeated, WriteEvent, CreatedElsewhere, Deliver, PodStep, vars, traceVars
<1> QED
  BY <1>3, <1>4, <1>5, <1>6, <1>7 DEF Next, WatcherStep

\* A root span ends once: the same call's events, restarts and evictions do not
\* open it again.
THEOREM RootSpansEndOnce == Spec => RootsEndOnce
<1>1. Init => RootOwned
  BY DEF Init, RootOwned
<1>2. TypeOK /\ RootsTracked /\ RootOwned /\ [Next]_vars => RootOwned' /\ [RootStep]_vars
  BY NextRootOwned
<1> QED
  BY <1>1, <1>2, TrackingTypeCorrect, EveryOpenRootTracked, PTL DEF Spec, RootsEndOnce

-----------------------------------------------------------------------------
(* The watcher.                                                              *)

Over(p) == pod[p] \in {"finished", "gone"}

Has(s, e) == \E i \in DOMAIN s : s[i] = e

\* The event is still to be emitted of the pod whose update is handled.
InTodo(e) == Has(todo, e)

\* What a delivered state says has happened.
Shows(e, s) ==
    \/ e = "scheduled" /\ IsScheduled(s)
    \/ e = "running" /\ s = "running"
    \/ e = "completed" /\ s = "finished"

\* "scheduled" comes first, and before any other event of its pod.
ScheduledFirst ==
    /\ \A i \in DOMAIN todo : i > 1 => todo[i] # "scheduled"
    /\ todo # <<>> /\ Head(todo) # "scheduled" => "scheduled" \in seen[handled]
    /\ \A p \in Pods : seen[p] \cap {"running", "completed"} # {} => "scheduled" \in seen[p]

\* Who says completed speaks of a pod that is over.
CompletedIsTrue ==
    /\ InTodo("completed") => Over(handled)
    /\ writing = "completed" => \E p \in Pods : Over(p)
    /\ \A p \in Pods : "completed" \in seen[p] => Over(p)
    /\ FinishIsTrue

\* What the informer has delivered is emitted or still to be emitted.
DeliveredKept ==
    \A p \in Pods, e \in Events :
        Shows(e, cached[p]) => e \in seen[p] \/ (handled = p /\ InTodo(e))

WatcherInv == TypeOK /\ ScheduledFirst /\ CompletedIsTrue /\ DeliveredKept

\* Two lists of events, one after the other.
LEMMA HasConcat ==
    ASSUME NEW s \in Seq(Events), NEW t \in Seq(Events)
    PROVE  /\ \A e : Has(s \o t, e) <=> Has(s, e) \/ Has(t, e)
           /\ \A i \in DOMAIN (s \o t) : i > Len(s) => Has(t, (s \o t)[i])
           /\ s # <<>> => Head(s \o t) = Head(s)
<1> DEFINE u == s \o t
<1>1. /\ u \in Seq(Events)
      /\ Len(u) = Len(s) + Len(t)
      /\ \A i \in 1 .. Len(s) + Len(t) : u[i] = IF i <= Len(s) THEN s[i] ELSE t[i - Len(s)]
  BY ConcatProperties
<1> HIDE DEF u
<1>2. Len(s) \in Nat /\ Len(t) \in Nat
  BY LenProperties
<1>3. /\ DOMAIN s = 1 .. Len(s)
      /\ DOMAIN t = 1 .. Len(t)
      /\ DOMAIN u = 1 .. Len(s) + Len(t)
  BY <1>1, LenProperties
<1>4. \A i \in DOMAIN s : i \in DOMAIN u /\ u[i] = s[i]
  BY <1>1, <1>2, <1>3
<1>5. ASSUME NEW i \in DOMAIN t PROVE i + Len(s) \in DOMAIN u /\ u[i + Len(s)] = t[i]
  <2>1. i \in Int /\ i >= 1 /\ (i + Len(s)) - Len(s) = i /\ ~(i + Len(s) <= Len(s))
    BY <1>2, <1>3
  <2>2. i + Len(s) \in 1 .. Len(s) + Len(t)
    BY <1>2, <1>3
  <2> QED
    BY <1>1, <1>3, <2>1, <2>2
<1>6. ASSUME NEW i \in DOMAIN u, i > Len(s)
      PROVE  i - Len(s) \in DOMAIN t /\ t[i - Len(s)] = u[i]
  BY <1>1, <1>2, <1>3, <1>6
<1>7. \A i \in DOMAIN u : i > Len(s) \/ i \in DOMAIN s
  BY <1>2, <1>3
<1>8. \A i \in DOMAIN u : i > Len(s) => Has(t, u[i])
  BY <1>6 DEF Has
<1>9. \A e : Has(u, e) <=> Has(s, e) \/ Has(t, e)
  BY <1>4, <1>5, <1>7, <1>8 DEF Has
<1>10. ASSUME s # <<>> PROVE Head(u) = Head(s)
  <2>1. 1 \in DOMAIN s
    BY <1>2, <1>3, <1>10, EmptySeq
  <2>2. u # <<>> /\ u[1] = s[1]
    BY <1>4, <2>1, EmptySeq
  <2> QED
    BY <1>1, <1>10, <2>2
<1> QED
  BY <1>8, <1>9, <1>10 DEF u

\* At most the one event.
LEMMA DueOne ==
    ASSUME NEW e \in Events, NEW p
    PROVE  /\ Due(e, p) \in Seq(Events)
           /\ Len(Due(e, p)) <= 1
           /\ \A d : Has(Due(e, p), d) <=> (d = e /\ Occurred(e, cached[p], pod[p]))
           /\ Occurred(e, cached[p], pod[p]) => Due(e, p) # <<>> /\ Head(Due(e, p)) = e
<1>1. CASE Occurred(e, cached[p], pod[p])
  <2>1. Due(e, p) = <<e>>
    BY <1>1 DEF Due
  <2>2. <<e>> \in Seq(Events) /\ Len(<<e>>) <= 1 /\ <<e>> # <<>> /\ Head(<<e>>) = e
    OBVIOUS
  <2>3. \A d : Has(<<e>>, d) <=> d = e
    BY DEF Has
  <2> QED
    BY <1>1, <2>1, <2>2, <2>3
<1>2. CASE ~Occurred(e, cached[p], pod[p])
  <2>1. Due(e, p) = <<>>
    BY <1>2 DEF Due
  <2>2. <<>> \in Seq(Events) /\ Len(<<>>) <= 1 /\ \A d : ~Has(<<>>, d)
    BY EmptySeq DEF Has
  <2> QED
    BY <1>2, <2>1, <2>2
<1> QED
  BY <1>1, <1>2

\* The list of what is due has what has occurred, "scheduled" first.
LEMMA DueList ==
    ASSUME NEW p, todo' = Due("scheduled", p) \o Due("running", p) \o Due("completed", p)
    PROVE  /\ \A e \in Events : InTodo(e)' <=> Occurred(e, cached[p], pod[p])
           /\ \A i \in DOMAIN todo' : i > 1 => todo'[i] # "scheduled"
           /\ Occurred("scheduled", cached[p], pod[p]) => Head(todo') = "scheduled"
<1> DEFINE s == Due("scheduled", p)
           r == Due("running", p)
           c == Due("completed", p)
           Occ(e) == Occurred(e, cached[p], pod[p])
<1>1. "scheduled" \in Events /\ "running" \in Events /\ "completed" \in Events
  BY DEF Events
<1>2. /\ s \in Seq(Events) /\ Len(s) <= 1
      /\ \A d : Has(s, d) <=> (d = "scheduled" /\ Occ("scheduled"))
      /\ Occ("scheduled") => s # <<>> /\ Head(s) = "scheduled"
  BY <1>1, DueOne
<1>3. r \in Seq(Events) /\ \A d : Has(r, d) <=> (d = "running" /\ Occ("running"))
  BY <1>1, DueOne
<1>4. c \in Seq(Events) /\ \A d : Has(c, d) <=> (d = "completed" /\ Occ("completed"))
  BY <1>1, DueOne
<1>5. todo' = (s \o r) \o c
  OBVIOUS
<1> HIDE DEF s, r, c, Occ
<1>6. todo' = s \o (r \o c)
  <2>1. (s \o r) \o c = s \o (r \o c)
    BY <1>2, <1>3, <1>4, ConcatAssociative
  <2> QED
    BY <1>5, <2>1
<1>7. r \o c \in Seq(Events) /\ \A e : Has(r \o c, e) <=> Has(r, e) \/ Has(c, e)
  BY <1>3, <1>4, ConcatProperties, HasConcat
<1>8. /\ \A e : Has(todo', e) <=> Has(s, e) \/ Has(r \o c, e)
      /\ \A i \in DOMAIN todo' : i > Len(s) => Has(r \o c, todo'[i])
      /\ s # <<>> => Head(todo') = Head(s)
  <2> DEFINE rc == r \o c
  <2>1. rc \in Seq(Events)
    BY <1>7
  <2> HIDE DEF rc
  <2>2. /\ \A e : Has(s \o rc, e) <=> Has(s, e) \/ Has(rc, e)
        /\ \A i \in DOMAIN (s \o rc) : i > Len(s) => Has(rc, (s \o rc)[i])
        /\ s # <<>> => Head(s \o rc) = Head(s)
    BY <1>2, <2>1, HasConcat
  <2> QED
    BY <1>6, <2>2 DEF rc
<1>9. \A e \in Events : Has(todo', e) <=> Occ(e)
  BY <1>2, <1>3, <1>4, <1>7, <1>8 DEF Events
<1>10. ~Has(r \o c, "scheduled")
  BY <1>3, <1>4, <1>7
<1>11. ASSUME NEW i \in DOMAIN todo', i > 1 PROVE todo'[i] # "scheduled"
  <2>1. Len(s) \in Nat /\ DOMAIN todo' \subseteq Int
    <3>1. todo' \in Seq(Events)
      BY <1>2, <1>6, <1>7, ConcatProperties
    <3> QED
      BY <1>2, <3>1, LenProperties
  <2>2. i > Len(s)
    BY <1>2, <1>11, <2>1
  <2> QED
    BY <1>8, <1>10, <2>2
<1> QED
  BY <1>2, <1>8, <1>9, <1>11 DEF InTodo, Occ

\* What is left when the first event is taken.
LEMMA TakeFirst ==
    ASSUME TypeOK, todo # <<>>, todo' = Tail(todo)
    PROVE  /\ \A e \in Events : InTodo(e)' => InTodo(e)
           /\ \A e \in Events : InTodo(e) => e = Head(todo) \/ InTodo(e)'
           /\ InTodo(Head(todo))
           /\ ScheduledFirst => \A i \in DOMAIN todo' : todo'[i] # "scheduled"
<1>1. todo \in Seq(Events) /\ Len(todo) \in Nat /\ Len(todo) >= 1
  BY LenProperties, EmptySeq DEF TypeOK
<1>2. /\ DOMAIN todo = 1 .. Len(todo)
      /\ Head(todo) = todo[1]
      /\ DOMAIN todo' = 1 .. (Len(todo) - 1)
      /\ \A i \in DOMAIN todo' : todo'[i] = todo[i + 1]
  BY <1>1, HeadTailProperties
<1>3. \A i \in DOMAIN todo : i = 1 \/ (i - 1 \in DOMAIN todo' /\ todo'[i - 1] = todo[i])
  <2> TAKE i \in DOMAIN todo
  <2>1. i \in Int /\ (i - 1) + 1 = i
    BY <1>2
  <2>2. i = 1 \/ i - 1 \in DOMAIN todo'
    BY <1>1, <1>2
  <2> QED
    BY <1>2, <2>1, <2>2
<1>4. \A i \in DOMAIN todo' : i + 1 \in DOMAIN todo /\ i + 1 > 1
  BY <1>1, <1>2
<1>5. 1 \in DOMAIN todo
  BY <1>1, <1>2
<1>6. /\ \A e \in Events : InTodo(e)' => InTodo(e)
      /\ \A e \in Events : InTodo(e) => e = Head(todo) \/ InTodo(e)'
  BY <1>2, <1>3, <1>4 DEF InTodo, Has
<1>7. InTodo(Head(todo))
  BY <1>2, <1>5 DEF InTodo, Has
<1>8. ScheduledFirst => \A i \in DOMAIN todo' : todo'[i] # "scheduled"
  BY <1>2, <1>4 DEF ScheduledFirst
<1> QED
  BY <1>6, <1>7, <1>8

\* Pods that are over stay so, and the row is not finished by anyone else.
LEMMA OverStays ==
    ASSUME TypeOK, NEW p \in Pods,
           \/ UNCHANGED pod
           \/ \E q \in Pods : NewJob(q) \/ (PodStep(q) /\ pod' # pod)
    PROVE  Over(p) => Over(p)'
BY DEF TypeOK, Over, NewJob, PodStep

\* A step that leaves the watcher alone, and does not write a completion.
LEMMA OthersKeepWatcherInv ==
    ASSUME TypeOK', WatcherInv, UNCHANGED watcherVars, finished' => finished,
           \A p \in Pods : Over(p) => Over(p)'
    PROVE  WatcherInv'
<1>1. \A e : InTodo(e)' <=> InTodo(e)
  BY DEF InTodo, Has, watcherVars
<1>2. ScheduledFirst'
  BY DEF WatcherInv, ScheduledFirst, watcherVars
<1>3. CompletedIsTrue'
  <2>1. InTodo("completed") => handled \in Pods
    BY EmptySeq DEF WatcherInv, TypeOK, InTodo, Has
  <2>2. InTodo("completed")' => Over(handled)'
    BY <1>1, <2>1 DEF WatcherInv, CompletedIsTrue, watcherVars, Over
  <2>3. (writing = "completed")' => (\E p \in Pods : Over(p))'
    BY DEF WatcherInv, CompletedIsTrue, watcherVars, Pods
  <2>4. (\A p \in Pods : "completed" \in seen[p] => Over(p))'
    BY DEF WatcherInv, CompletedIsTrue, watcherVars, Pods
  <2>5. FinishIsTrue'
    BY DEF WatcherInv, CompletedIsTrue, FinishIsTrue, Over, Pods
  <2> QED
    BY <2>2, <2>3, <2>4, <2>5 DEF CompletedIsTrue
<1>4. DeliveredKept'
  BY <1>1 DEF WatcherInv, DeliveredKept, watcherVars
<1> QED
  BY <1>2, <1>3, <1>4 DEF WatcherInv

\* A write to the row finishes it only when it is a completion.
LEMMA OnlyCompletionFinishes ==
    ASSUME NEW s, Written(s, Update(s)) \/ Written(s, Upsert), s # "completed"
    PROVE  finished' => finished
BY DEF Written, Update, Upsert, rowVars

LEMMA DeliverKeepsWatcherInv ==
    ASSUME WatcherInv, TypeOK', NEW p \in Pods, Deliver(p)
    PROVE  WatcherInv'
<1> DEFINE Occ(e) == Occurred(e, cached[p], pod[p])
<1>1. /\ todo = <<>> /\ writing = "none"
      /\ pod[p] \notin {"none", "gone", cached[p]}
      /\ cached' = [cached EXCEPT ![p] = pod[p]]
      /\ handled' = p
      /\ UNCHANGED <<pod, writing, seen, finished>>
  BY DEF Deliver, rowVars
<1>2. /\ \A e \in Events : InTodo(e)' <=> Occ(e)
      /\ \A i \in DOMAIN todo' : i > 1 => todo'[i] # "scheduled"
      /\ Occ("scheduled") => Head(todo') = "scheduled"
  BY DueList DEF Deliver
<1>3. \A e : ~InTodo(e)
  BY <1>1, EmptySeq DEF InTodo, Has
<1>4. \A q \in Pods, e \in Events : Shows(e, cached[q]) => e \in seen[q]
  BY <1>3 DEF WatcherInv, DeliveredKept
<1>5. cached \in [Pods -> PodStates \ {"gone"}] /\ pod \in [Pods -> PodStates]
  BY DEF WatcherInv, TypeOK
<1>6. /\ \A e \in Events : Shows(e, pod[p]) => Occ(e) \/ Shows(e, cached[p])
      /\ \A e \in Events : Occ(e) => Occ("scheduled") \/ Shows("scheduled", cached[p])
      /\ Occ("completed") => pod[p] = "finished"
  BY <1>1 DEF Shows, Occurred, Events, IsScheduled
<1> HIDE DEF Occ
<1>7. ScheduledFirst'
  <2>1. ASSUME todo' # <<>> PROVE Has(todo', Head(todo')) /\ Head(todo') \in Events
    <3>1. todo' \in Seq(Events) /\ Len(todo') \in Nat \ {0} /\ 1 \in DOMAIN todo'
      BY <2>1, EmptySeq, LenProperties DEF TypeOK
    <3>2. Head(todo') = todo'[1] /\ Head(todo') \in Events
      BY <2>1, <3>1, HeadTailProperties
    <3> QED
      BY <3>1, <3>2 DEF Has
  <2>2. todo' # <<>> /\ Head(todo') # "scheduled" => "scheduled" \in seen[p]
    <3> SUFFICES ASSUME todo' # <<>>, Head(todo') # "scheduled" PROVE "scheduled" \in seen[p]
      OBVIOUS
    <3>1. Occ(Head(todo'))
      BY <1>2, <2>1 DEF InTodo
    <3>2. Shows("scheduled", cached[p])
      BY <1>2, <1>6, <2>1, <3>1
    <3> QED
      BY <1>4, <3>2 DEF Events
  <2>3. \A q \in Pods : seen'[q] \cap {"running", "completed"} # {} => "scheduled" \in seen'[q]
    BY <1>1 DEF WatcherInv, ScheduledFirst
  <2> QED
    BY <1>1, <1>2, <2>2, <2>3 DEF ScheduledFirst
<1>8. CompletedIsTrue'
  BY <1>1, <1>2, <1>6 DEF WatcherInv, CompletedIsTrue, FinishIsTrue, Over, Events
<1>9. DeliveredKept'
  <2> SUFFICES ASSUME NEW q \in Pods, NEW e \in Events, Shows(e, cached[q])'
               PROVE  (e \in seen[q] \/ (handled = q /\ InTodo(e)))'
    BY DEF DeliveredKept, Pods
  <2>1. CASE q = p
    <3>1. Shows(e, pod[p])
      BY <1>1, <1>5, <2>1 DEF Shows
    <3> QED
      BY <1>1, <1>2, <1>4, <1>6, <2>1, <3>1
  <2>2. CASE q # p
    <3>1. Shows(e, cached[q])
      BY <1>1, <1>5, <2>2 DEF Shows
    <3> QED
      BY <1>1, <1>4, <3>1
  <2> QED
    BY <2>1, <2>2
<1> QED
  BY <1>7, <1>8, <1>9 DEF WatcherInv

LEMMA TakeKeepsWatcherInv ==
    ASSUME WatcherInv, TypeOK', Repeated \/ EmitSpan
    PROVE  WatcherInv'
<1> DEFINE h == Head(todo)
<1>1. /\ todo # <<>> /\ todo' = Tail(todo)
      /\ UNCHANGED <<pod, cached, handled, finished>>
  BY DEF Repeated, EmitSpan, rowVars
<1>2. handled \in Pods /\ h \in Events /\ seen \in [Pods -> SUBSET Events]
  BY <1>1 DEF WatcherInv, TypeOK
<1>3. /\ \A e \in Events : InTodo(e)' => InTodo(e)
      /\ \A e \in Events : InTodo(e) => e = h \/ InTodo(e)'
      /\ InTodo(h)
      /\ \A i \in DOMAIN todo' : todo'[i] # "scheduled"
  BY <1>1, TakeFirst DEF WatcherInv
<1>4. /\ seen' = [seen EXCEPT ![handled] = @ \cup {h}]
      /\ writing' = writing \/ writing' = h
  <2>1. CASE Repeated
    BY <1>2, <2>1 DEF Repeated
  <2>2. CASE EmitSpan
    BY <2>2 DEF EmitSpan
  <2> QED
    BY <2>1, <2>2
<1> HIDE DEF h
<1>5. h = "scheduled" \/ "scheduled" \in seen[handled]
  BY <1>1 DEF WatcherInv, ScheduledFirst, h
<1>6. seen'[handled] = seen[handled] \cup {h} /\ \A q \in Pods \ {handled} : seen'[q] = seen[q]
  BY <1>2, <1>4
<1>7. ScheduledFirst'
  BY <1>1, <1>2, <1>3, <1>5, <1>6 DEF WatcherInv, ScheduledFirst
<1>8. CompletedIsTrue'
  <2>1. (InTodo("completed") => Over(handled))'
    BY <1>1, <1>3 DEF WatcherInv, CompletedIsTrue, Over, Events
  <2>2. h = "completed" => Over(handled)
    BY <1>3 DEF WatcherInv, CompletedIsTrue
  <2>3. (writing = "completed" => \E p \in Pods : Over(p))'
    BY <1>1, <1>2, <1>4, <2>2 DEF WatcherInv, CompletedIsTrue, Over, Pods
  <2>4. (\A p \in Pods : "completed" \in seen[p] => Over(p))'
    BY <1>1, <1>2, <1>6, <2>2 DEF WatcherInv, CompletedIsTrue, Over, Pods
  <2>5. FinishIsTrue'
    BY <1>1 DEF WatcherInv, CompletedIsTrue, FinishIsTrue, Pods
  <2> QED
    BY <2>1, <2>3, <2>4, <2>5 DEF CompletedIsTrue
<1>9. DeliveredKept'
  <2> SUFFICES ASSUME NEW q \in Pods, NEW e \in Events, Shows(e, cached[q])
               PROVE  (e \in seen[q] \/ (handled = q /\ InTodo(e)))'
    BY <1>1 DEF DeliveredKept, Shows, Pods
  <2>1. e \in seen[q] \/ (handled = q /\ InTodo(e))
    BY DEF WatcherInv, DeliveredKept
  <2>2. e \in seen[q] => e \in seen'[q]
    BY <1>2, <1>6
  <2>3. handled = q /\ InTodo(e) => e \in seen'[q] \/ (handled' = q /\ InTodo(e)')
    BY <1>1, <1>3, <1>6
  <2> QED
    BY <2>1, <2>2, <2>3
<1> QED
  BY <1>7, <1>8, <1>9 DEF WatcherInv

LEMMA WriteKeepsWatcherInv ==
    ASSUME WatcherInv, TypeOK', WriteEvent
    PROVE  WatcherInv'
<1>1. /\ writing' = "none" /\ UNCHANGED <<pod, cached, handled, todo, seen>>
      /\ Written(writing, Update(writing))
  BY DEF WriteEvent
<1>2. finished' => finished \/ writing = "completed"
  BY <1>1 DEF Written, Update, rowVars
<1>3. FinishIsTrue'
  BY <1>1, <1>2 DEF WatcherInv, CompletedIsTrue, FinishIsTrue, Over, Pods
<1>4. ScheduledFirst'
  BY <1>1 DEF WatcherInv, ScheduledFirst
<1>5. CompletedIsTrue'
  BY <1>1, <1>3 DEF WatcherInv, CompletedIsTrue, Over, InTodo, Pods
<1>6. DeliveredKept'
  BY <1>1 DEF WatcherInv, DeliveredKept, InTodo
<1> QED
  BY <1>4, <1>5, <1>6 DEF WatcherInv

LEMMA RestartKeepsWatcherInv ==
    ASSUME WatcherInv, TypeOK', Restart
    PROVE  WatcherInv'
<1>1. /\ todo' = <<>> /\ writing' = "none" /\ UNCHANGED <<pod, finished>>
      /\ cached' = [p \in Pods |-> "none"] /\ seen' = [p \in Pods |-> {}]
  BY DEF Restart, rowVars
<1>2. \A e : ~InTodo(e)'
  BY <1>1, EmptySeq DEF InTodo, Has
<1>3. ScheduledFirst'
  BY <1>1, EmptySeq DEF ScheduledFirst
<1>4. CompletedIsTrue'
  BY <1>1, <1>2 DEF WatcherInv, CompletedIsTrue, FinishIsTrue, Pods
<1>5. DeliveredKept'
  BY <1>1 DEF DeliveredKept, Shows, IsScheduled
<1> QED
  BY <1>3, <1>4, <1>5 DEF WatcherInv

LEMMA NextWatcherInv == WatcherInv /\ [Next]_vars => WatcherInv'
<1> SUFFICES ASSUME WatcherInv, [Next]_vars PROVE WatcherInv'
  OBVIOUS
<1>1. TypeOK /\ TypeOK'
  BY NextTypes DEF WatcherInv
<1>2. ASSUME UNCHANGED watcherVars, finished' => finished,
             \/ UNCHANGED pod
             \/ \E q \in Pods : NewJob(q) \/ (PodStep(q) /\ pod' # pod)
      PROVE  WatcherInv'
  BY <1>1, <1>2, OverStays, OthersKeepWatcherInv
<1>3. ASSUME NEW c \in Calls, Arrive(c) PROVE WatcherInv'
  BY <1>2, <1>3 DEF Arrive, rowVars
<1>4. ASSUME NEW c \in Calls, CallStep(c) PROVE WatcherInv'
  <2>1. UNCHANGED watcherVars
    BY <1>4 DEF CallStep, WriteQueued, Skip, Parse, WriteDispatching, Return, CreateJob,
       WriteCreated, WriteError
  <2>2. finished' => finished
    BY <1>4, OnlyCompletionFinishes
    DEF CallStep, WriteQueued, Skip, Parse, WriteDispatching, Return, CreateJob,
       WriteCreated, WriteError, rowVars
  <2>3. UNCHANGED pod \/ \E q \in Pods : NewJob(q)
    BY <1>4 DEF CallStep, WriteQueued, Skip, Parse, WriteDispatching, Return, CreateJob,
       WriteCreated, WriteError
  <2> QED
    BY <1>2, <2>1, <2>2, <2>3
<1>5. ASSUME NEW p \in Pods, PodStep(p) PROVE WatcherInv'
  <2>1. UNCHANGED watcherVars /\ finished' = finished
    BY <1>5 DEF PodStep, rowVars
  <2> QED
    BY <1>2, <1>5, <2>1
<1>6. ASSUME NEW p \in Pods, Deliver(p) PROVE WatcherInv'
  BY <1>1, <1>6, DeliverKeepsWatcherInv
<1>7. CASE WatcherStep
  BY <1>1, <1>7, TakeKeepsWatcherInv, WriteKeepsWatcherInv DEF WatcherStep
<1>8. CASE Evict
  BY <1>2, <1>8 DEF Evict, rowVars
<1>9. CASE Restart
  BY <1>1, <1>9, RestartKeepsWatcherInv
<1>10. CASE CreatedElsewhere
  BY <1>2, <1>10 DEF CreatedElsewhere, rowVars
<1>11. CASE UNCHANGED vars
  BY <1>2, <1>11 DEF vars, rowVars
<1> QED
  BY <1>3, <1>4, <1>5, <1>6, <1>7, <1>8, <1>9, <1>10, <1>11 DEF Next

LEMMA InitWatcherInv == Init => WatcherInv
<1> SUFFICES ASSUME Init PROVE WatcherInv
  OBVIOUS
<1>1. /\ todo = <<>> /\ writing = "none" /\ finished = FALSE
      /\ cached = [p \in Pods |-> "none"] /\ seen = [p \in Pods |-> {}]
  BY DEF Init
<1>2. \A e : ~InTodo(e)
  BY <1>1, EmptySeq DEF InTodo, Has
<1>3. ScheduledFirst
  BY <1>1, EmptySeq DEF ScheduledFirst
<1>4. CompletedIsTrue
  BY <1>1, <1>2 DEF CompletedIsTrue, FinishIsTrue
<1>5. DeliveredKept
  BY <1>1 DEF DeliveredKept, Shows, IsScheduled
<1> QED
  BY <1>3, <1>4, <1>5, InitTypes DEF WatcherInv

\* What is emitted of a pod follows what happens to it, for any number of pods,
\* though the informer leaves states out and the watcher forgets in a restart.
THEOREM EventsFollowPods == Spec => []EventsFollowPod
<1>1. WatcherInv => EventsFollowPod
  <2> SUFFICES ASSUME WatcherInv, NEW p \in Pods
               PROVE  /\ "completed" \in seen[p] => pod[p] \in {"finished", "gone"}
                      /\ seen[p] \cap {"running", "completed"} # {} => "scheduled" \in seen[p]
                      /\ todo = <<>> =>
                           /\ IsScheduled(cached[p]) => "scheduled" \in seen[p]
                           /\ cached[p] = "running" => "running" \in seen[p]
                           /\ cached[p] = "finished" => "completed" \in seen[p]
    BY DEF EventsFollowPod
  <2>1. todo = <<>> => \A e : ~InTodo(e)
    BY EmptySeq DEF InTodo, Has
  <2>2. todo = <<>> => \A e \in Events : Shows(e, cached[p]) => e \in seen[p]
    BY <2>1 DEF WatcherInv, DeliveredKept
  <2> QED
    BY <2>2 DEF WatcherInv, ScheduledFirst, CompletedIsTrue, Over, Shows, Events
<1> QED
  BY <1>1, InitWatcherInv, NextWatcherInv, PTL DEF Spec

\* A row has the time of a completion only if a pod of the job has ended.
THEOREM FinishesAreTrue == Spec => []FinishIsTrue
<1>1. WatcherInv => FinishIsTrue
  BY DEF WatcherInv, CompletedIsTrue
<1> QED
  BY <1>1, InitWatcherInv, NextWatcherInv, PTL DEF Spec
=============================================================================
