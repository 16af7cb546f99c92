---------------------------- MODULE RequestProofs ----------------------------
(* A request on its way through the scheduler, for any webhooks, times and      *)
(* labels: its task survives an orderly shutdown, the waits between attempts    *)
(* fit into the Lease, and its Job is what the labels ask for.                  *)
EXTENDS Shutdown, RetryDelay, JobSpec, FiniteSetTheorems, WellFoundedInduction, TLAPS

-----------------------------------------------------------------------------
(* Shutdown.                                                                    *)

\* Requests, tasks, counter and process keep their types.
LEMMA ShutdownTypesStart == ShutdownInit => ShutdownTypeOK
  BY DEF ShutdownInit, ShutdownTypeOK, Processes, DeliveryStates, TaskStates, Endings

\* The end of the process leaves no request open and no task running.
LEMMA ExitTypes ==
    ASSUME ShutdownTypeOK, NEW how \in Endings \ {"no"}, Exit(how)
    PROVE  ShutdownTypeOK'
  <1>1. task' \in [Webhooks -> TaskStates] /\ exitTask' \in TaskStates
    BY DEF Exit, Cut, ShutdownTypeOK, TaskStates
  <1>2. \A w \in Webhooks : task'[w] # "running"
    BY DEF Exit, Cut
  <1>3. exitTask' # "running"
    BY DEF Exit, Cut
  <1>4. /\ delivery' \in [Webhooks -> DeliveryStates]
        /\ \A w \in Webhooks : delivery'[w] \notin {"reading", "handled"}
    BY DEF Exit, ShutdownTypeOK, DeliveryStates
  <1>5. process' = "exited" /\ ended' = how /\ UNCHANGED <<count, between, late>>
    BY DEF Exit, historyVars
  <1> QED
    BY <1>1, <1>2, <1>3, <1>4, <1>5 DEF ShutdownTypeOK, Processes

LEMMA ShutdownTypes == ShutdownTypeOK /\ [ShutdownNext]_shutdownVars => ShutdownTypeOK'
  <1> SUFFICES ASSUME ShutdownTypeOK, [ShutdownNext]_shutdownVars PROVE ShutdownTypeOK'
    OBVIOUS
  <1> USE DEF historyVars, Endings
  <1>1. ASSUME NEW w \in Webhooks, Accept(w) \/ Ignore(w) \/ Reply(w)
        PROVE  ShutdownTypeOK'
    BY <1>1 DEF Accept, Ignore, Reply, DeliveryGoto, ShutdownTypeOK, DeliveryStates
  <1>2. ASSUME NEW w \in Webhooks, StartTask(w)
        PROVE  ShutdownTypeOK'
    BY <1>2 DEF StartTask, Comes, DeliveryGoto, ShutdownTypeOK, DeliveryStates, TaskStates
  <1>3. ASSUME NEW w \in Webhooks, TaskEnds(w)
        PROVE  ShutdownTypeOK'
    BY <1>3 DEF TaskEnds, ShutdownTypeOK, TaskStates, Processes
  <1>4. ASSUME NEW w \in Webhooks, DoneBelowZero(w)
        PROVE  ShutdownTypeOK'
    BY <1>4, ExitTypes DEF DoneBelowZero
  <1>5. CASE RunnerExit
    BY <1>5 DEF RunnerExit, ShutdownTypeOK, TaskStates
  <1>6. CASE Signal \/ CallWait \/ LastDoneResets
    BY <1>6 DEF Signal, CallWait, LastDoneResets, ProcessGoto, ShutdownTypeOK, Processes
  <1>7. CASE LastDoneChecks
    <2>1. CASE count = 0 /\ ProcessGoto("counted", "checked") /\ UNCHANGED count
      BY <2>1 DEF ProcessGoto, ShutdownTypeOK, Processes
    <2>2. CASE Exit("misused")
      BY <2>2, ExitTypes
    <2> QED
      BY <1>7, <2>1, <2>2 DEF LastDoneChecks
  <1>8. CASE WaitReturns
    <2>1. CASE count = 0 /\ ProcessGoto("woken", "closing") /\ UNCHANGED count
      BY <2>1 DEF ProcessGoto, ShutdownTypeOK, Processes
    <2>2. CASE Exit("misused")
      BY <2>2, ExitTypes
    <2> QED
      BY <1>8, <2>1, <2>2 DEF WaitReturns
  <1>9. CASE ShutdownReturns \/ Kill \/ DispatchPanics \/ ListenFails
    BY <1>9, ExitTypes DEF ShutdownReturns, Kill, DispatchPanics, ListenFails
  <1>10. CASE UNCHANGED shutdownVars
    BY <1>10 DEF shutdownVars, ShutdownTypeOK
  <1> QED
    BY <1>1, <1>2, <1>3, <1>4, <1>5, <1>6, <1>7, <1>8, <1>9, <1>10 DEF ShutdownNext, MainStep

\* Requests, tasks and the process keep their types; in particular no request is
\* open and no task runs once the process has exited.
THEOREM ShutdownTypeCorrect == ShutdownSpec => []ShutdownTypeOK
  BY ShutdownTypesStart, ShutdownTypes, PTL DEF ShutdownSpec

Running == {w \in Webhooks : task[w] = "running"}

\* The process is on its way past Wait.
Passing == process \in {"counted", "checked", "woken", "closing"}

\* A handled webhook has a task; and no end of the process that comes after Wait
\* cuts a task but those that came past it.
TaskKept(w) ==
    /\ delivery[w] \in {"handled", "answered"} => task[w] # "none"
    /\ delivery[w] \in {"none", "reading"} => task[w] = "none"
    /\ task[w] = "cut" => process = "exited"
    /\ task[w] = "cut" /\ ended \in {"stopped", "misused"} => w \in between \cup late

\* Until the counter gets to zero it counts the tasks that run; so those that
\* run afterwards have come since.
RunningCounted ==
    /\ process \in {"serving", "waiting", "blocked"} =>
          IsFiniteSet(Running) /\ count = Cardinality(Running)
    /\ Passing => Running \subseteq between \cup late

ShutdownIInv == ShutdownTypeOK /\ (\A w \in Webhooks : TaskKept(w)) /\ RunningCounted

\* At first there is no task.
LEMMA ShutdownStarts == ShutdownInit => ShutdownIInv
  <1> SUFFICES ASSUME ShutdownInit PROVE ShutdownIInv
    OBVIOUS
  <1>1. Running = {}
    BY DEF ShutdownInit, Running
  <1> QED
    BY <1>1, ShutdownTypesStart, FS_EmptySet
       DEF ShutdownInit, ShutdownIInv, TaskKept, RunningCounted, Passing

\* Steps that touch neither task nor counter nor the process.
LEMMA RunningStays ==
    ASSUME ShutdownIInv, ShutdownTypeOK', UNCHANGED <<task, count, between, late>>,
           process' = process \/ (process = "serving" /\ process' = "waiting"),
           \A w \in Webhooks : TaskKept(w)'
    PROVE  ShutdownIInv'
  <1>1. Running' = Running
    BY DEF Running
  <1> QED
    BY <1>1 DEF ShutdownIInv, RunningCounted, Passing

\* A webhook that comes to wg.Go.
LEMMA StartTaskKeeps ==
    ASSUME ShutdownIInv, ShutdownTypeOK', NEW w \in Webhooks, StartTask(w)
    PROVE  ShutdownIInv'
  <1> USE DEF historyVars
  <1>1. ASSUME NEW v \in Webhooks PROVE TaskKept(v)'
    BY DEF StartTask, Comes, DeliveryGoto, ShutdownIInv, ShutdownTypeOK, TaskKept
  <1>2. Passing => w \in between' \cup late'
    BY DEF StartTask, Comes, Passing
  <1>3. between \subseteq between' /\ late \subseteq late'
    BY DEF StartTask, Comes
  <1>4. Running' \subseteq Running \cup {w} /\ process' = process
    BY DEF StartTask, Running, ShutdownIInv, ShutdownTypeOK
  <1>5. Passing' => Running' \subseteq between' \cup late'
    BY <1>2, <1>3, <1>4 DEF ShutdownIInv, RunningCounted, Passing
  <1>6. ASSUME process \in {"serving", "waiting", "blocked"}
        PROVE  IsFiniteSet(Running') /\ count' = Cardinality(Running')
    <2>1. task[w] = "none"
      BY <1>6 DEF StartTask, DeliveryGoto, ShutdownIInv, TaskKept
    <2>2. Running' = Running \cup {w} /\ w \notin Running
      BY <1>6, <2>1 DEF StartTask, Running, ShutdownIInv, ShutdownTypeOK
    <2>3. IsFiniteSet(Running) /\ count = Cardinality(Running)
      BY <1>6 DEF ShutdownIInv, RunningCounted
    <2>4. count' = count + 1
      BY DEF StartTask
    <2> QED
      BY <2>2, <2>3, <2>4, FS_AddElement
  <1>7. RunningCounted'
    BY <1>4, <1>5, <1>6 DEF RunningCounted
  <1> QED
    BY <1>1, <1>7 DEF ShutdownIInv

\* A task that ends; with the last one the counter gets to zero.
LEMMA TaskEndsKeeps ==
    ASSUME ShutdownIInv, ShutdownTypeOK', NEW w \in Webhooks, TaskEnds(w)
    PROVE  ShutdownIInv'
  <1> USE DEF historyVars
  <1>1. ASSUME NEW v \in Webhooks PROVE TaskKept(v)'
    BY DEF TaskEnds, ShutdownIInv, ShutdownTypeOK, TaskKept
  <1>2. Running' = Running \ {w} /\ w \in Running /\ count' = count - 1
    BY DEF TaskEnds, Running, ShutdownIInv, ShutdownTypeOK
  <1>3. UNCHANGED <<between, late>>
    BY DEF TaskEnds
  <1>4. CASE process \in {"serving", "waiting", "blocked"}
    <2>1. IsFiniteSet(Running) /\ count = Cardinality(Running)
      BY <1>4 DEF ShutdownIInv, RunningCounted
    <2>2. IsFiniteSet(Running') /\ count' = Cardinality(Running')
      BY <1>2, <2>1, FS_RemoveElement
    <2>3. Passing' => Running' = {}
      <3>1. Passing' => count = 1
        BY <1>4 DEF TaskEnds, Passing
      <3> QED
        BY <1>2, <2>2, <3>1, FS_EmptySet
    <2> QED
      BY <1>1, <2>2, <2>3 DEF ShutdownIInv, RunningCounted
  <1>5. CASE process \notin {"serving", "waiting", "blocked"}
    <2>1. process' = process
      BY <1>5 DEF TaskEnds
    <2> QED
      BY <1>1, <1>2, <1>3, <1>5, <2>1 DEF ShutdownIInv, RunningCounted, Passing
  <1> QED
    BY <1>4, <1>5

\* The end of the process cuts the tasks that run.
LEMMA ExitKeeps ==
    ASSUME ShutdownIInv, ShutdownTypeOK', NEW how \in Endings, Exit(how),
           how \in {"stopped", "misused"} => Passing
    PROVE  ShutdownIInv'
  <1>1. process' = "exited" /\ ended' = how /\ UNCHANGED <<between, late>> /\ process # "exited"
    BY DEF Exit, historyVars
  <1>2. ASSUME NEW w \in Webhooks
        PROVE  TaskKept(w)'
    <2>1. delivery'[w] \in {"handled", "answered"} => delivery[w] = "answered"
      BY DEF Exit, ShutdownIInv, ShutdownTypeOK
    <2>2. delivery'[w] \in {"none", "reading"} => delivery[w] = "none"
      BY DEF Exit, ShutdownIInv, ShutdownTypeOK
    <2>3. task'[w] = "none" <=> task[w] = "none"
      BY DEF Exit, Cut, ShutdownIInv, ShutdownTypeOK
    <2>4. task'[w] = "cut" => w \in Running
      BY <1>1 DEF Exit, Cut, Running, ShutdownIInv, ShutdownTypeOK, TaskKept
    <2>5. Passing => Running \subseteq between \cup late
      BY DEF ShutdownIInv, RunningCounted
    <2>6. task'[w] = "cut" /\ ended' \in {"stopped", "misused"} => w \in between' \cup late'
      BY <1>1, <2>4, <2>5
    <2> QED
      BY <1>1, <2>1, <2>2, <2>3, <2>6 DEF TaskKept, ShutdownIInv
  <1>3. RunningCounted'
    BY <1>1 DEF RunningCounted, Passing
  <1> QED
    BY <1>2, <1>3 DEF ShutdownIInv

\* main and the last Done.
LEMMA MainStepKeeps ==
    ASSUME ShutdownIInv, ShutdownTypeOK', MainStep
    PROVE  ShutdownIInv'
  <1> USE DEF historyVars
  <1>1. ASSUME NEW from, NEW to, ProcessGoto(from, to),
               from # "exited", to # "exited",
               to = "blocked" => from = "waiting" /\ UNCHANGED count,
               to \notin {"serving", "waiting"},
               Running \subseteq between \cup late \/ to = "blocked"
        PROVE  ShutdownIInv'
    <2>1. Running' = Running /\ UNCHANGED <<task, delivery, between, late, ended>>
      BY <1>1 DEF ProcessGoto, Running
    <2>2. ASSUME NEW w \in Webhooks PROVE TaskKept(w)'
      BY <1>1, <2>1 DEF ProcessGoto, ShutdownIInv, ShutdownTypeOK, TaskKept
    <2>3. RunningCounted'
      BY <1>1, <2>1 DEF ProcessGoto, ShutdownIInv, RunningCounted, Passing
    <2> QED
      BY <2>2, <2>3 DEF ShutdownIInv
  <1>2. process = "waiting" /\ count = 0 => Running = {}
    BY FS_EmptySet DEF ShutdownIInv, RunningCounted
  <1>3. Passing => Running \subseteq between \cup late
    BY DEF ShutdownIInv, RunningCounted
  <1>4. CASE CallWait
    BY <1>1, <1>2, <1>4 DEF CallWait, ProcessGoto
  <1>5. CASE LastDoneChecks
    <2>1. CASE Exit("misused") /\ process = "counted"
      BY <2>1, ExitKeeps DEF Endings, Passing
    <2>2. CASE ProcessGoto("counted", "checked") /\ UNCHANGED count
      BY <1>1, <1>3, <2>2 DEF ProcessGoto, Passing
    <2> QED
      BY <1>5, <2>1, <2>2 DEF LastDoneChecks
  <1>6. CASE LastDoneResets
    BY <1>1, <1>3, <1>6 DEF LastDoneResets, ProcessGoto, Passing
  <1>7. CASE WaitReturns
    <2>1. CASE Exit("misused") /\ process = "woken"
      BY <2>1, ExitKeeps DEF Endings, Passing
    <2>2. CASE ProcessGoto("woken", "closing") /\ UNCHANGED count
      BY <1>1, <1>3, <2>2 DEF ProcessGoto, Passing
    <2> QED
      BY <1>7, <2>1, <2>2 DEF WaitReturns
  <1>8. CASE ShutdownReturns
    BY <1>8, ExitKeeps DEF ShutdownReturns, Endings, Passing
  <1> QED
    BY <1>4, <1>5, <1>6, <1>7, <1>8 DEF MainStep

\* Every step keeps the invariant.
LEMMA ShutdownKeepsTasks == ShutdownIInv /\ [ShutdownNext]_shutdownVars => ShutdownIInv'
  <1> SUFFICES ASSUME ShutdownIInv, [ShutdownNext]_shutdownVars
               PROVE  ShutdownIInv'
    OBVIOUS
  <1> USE DEF historyVars
  <1>1. ShutdownTypeOK'
    BY ShutdownTypes DEF ShutdownIInv
  <1>2. ASSUME NEW w \in Webhooks, Accept(w) \/ Ignore(w) \/ Reply(w)
        PROVE  ShutdownIInv'
    <2>1. \A v \in Webhooks : TaskKept(v)'
      BY <1>2 DEF Accept, Ignore, Reply, DeliveryGoto, ShutdownIInv, ShutdownTypeOK, TaskKept
    <2> QED
      BY <1>1, <1>2, <2>1, RunningStays DEF Accept, Ignore, Reply
  <1>3. ASSUME NEW w \in Webhooks, StartTask(w)
        PROVE  ShutdownIInv'
    BY <1>1, <1>3, StartTaskKeeps
  <1>4. ASSUME NEW w \in Webhooks, TaskEnds(w)
        PROVE  ShutdownIInv'
    BY <1>1, <1>4, TaskEndsKeeps
  <1>5. ASSUME NEW w \in Webhooks, DoneBelowZero(w)
        PROVE  ShutdownIInv'
    <2>1. w \in Running /\ count = 0 /\ process # "exited"
      BY <1>5 DEF DoneBelowZero, Exit, Running
    <2>2. process \notin {"serving", "waiting", "blocked"}
      BY <2>1, FS_EmptySet DEF ShutdownIInv, RunningCounted
    <2>3. Passing
      BY <2>1, <2>2 DEF ShutdownIInv, ShutdownTypeOK, Processes, Passing
    <2> QED
      BY <1>1, <1>5, <2>3, ExitKeeps DEF DoneBelowZero, Endings
  <1>6. CASE RunnerExit \/ Signal
    <2>1. \A v \in Webhooks : TaskKept(v)'
      BY <1>6 DEF RunnerExit, Signal, ProcessGoto, ShutdownIInv, TaskKept
    <2> QED
      BY <1>1, <1>6, <2>1, RunningStays DEF RunnerExit, Signal, ProcessGoto
  <1>7. CASE MainStep
    BY <1>1, <1>7, MainStepKeeps
  <1>8. CASE Kill \/ DispatchPanics \/ ListenFails
    BY <1>1, <1>8, ExitKeeps DEF Kill, DispatchPanics, ListenFails, Endings
  <1>9. CASE UNCHANGED shutdownVars
    <2>1. \A v \in Webhooks : TaskKept(v)'
      BY <1>9 DEF shutdownVars, ShutdownIInv, TaskKept
    <2> QED
      BY <1>1, <1>9, <2>1, RunningStays DEF shutdownVars
  <1> QED
    BY <1>2, <1>3, <1>4, <1>5, <1>6, <1>7, <1>8, <1>9 DEF ShutdownNext

\* A webhook that GitHub has been told is handled has its task; and neither main's
\* return nor a panic of the WaitGroup cuts a task short but those of webhooks that
\* came when the tasks main waits for had all ended: whatever the order of
\* deliveries, signals and the steps of main and of the last Done.
THEOREM AcceptedTasksDone == ShutdownSpec => []AcceptedIsDone
  <1>1. ShutdownIInv => AcceptedIsDone
    BY DEF ShutdownIInv, TaskKept, AcceptedIsDone
  <1>2. QED
    BY <1>1, ShutdownStarts, ShutdownKeepsTasks, PTL DEF ShutdownSpec

-----------------------------------------------------------------------------
(* RetryDelay.                                                                  *)

\* The greater and the smaller of two numbers.
LEMMA MaxOfTwo ==
    ASSUME NEW a \in Int, NEW b \in Int
    PROVE  Max({a, b}) = IF a >= b THEN a ELSE b
  BY DEF Max

LEMMA MinOfTwo ==
    ASSUME NEW a \in Int, NEW b \in Int
    PROVE  Min({a, b}) = IF a <= b THEN a ELSE b
  BY DEF Min

\* The four calls of a dispatch.
LEMMA FourKeys == KeyPlaces = 1 .. 4 /\ Len(RetryKeys) = 4
  BY DEF KeyPlaces, RetryKeys

\* An entry grows by a half at most, and stays between the bounds.
LEMMA GrownBounds ==
    ASSUME NEW d \in Initial .. MaxBackoff
    PROVE  Grown(d) \in Initial .. MaxBackoff /\ 2 * Grown(d) <= 3 * d
<1>1. (d * 3) \div 2 \in Int /\ MaxBackoff \in Int
  BY RetryAssumption
<1>2. Grown(d) = IF (d * 3) \div 2 <= MaxBackoff THEN (d * 3) \div 2 ELSE MaxBackoff
  BY <1>1, MinOfTwo DEF Grown
<1> QED
  BY <1>1, <1>2, RetryAssumption

\* Jitter lengthens a delay by a fifth at most.
LEMMA JitterBounds ==
    ASSUME NEW d \in Nat, NEW jitter \in 0 .. 120
    PROVE  (d * jitter) \div 100 \in Nat /\ 5 * ((d * jitter) \div 100) <= 6 * d
<1>1. d * jitter \in Nat /\ d * jitter <= d * 120
  OBVIOUS
<1> QED
  BY <1>1

\* The initial values have their types.
LEMMA RetryTypesInit == RetryInit => RetryTypeOK
<1> SUFFICES ASSUME RetryInit PROVE RetryTypeOK
  OBVIOUS
<1>1. attempt \in 1 .. MaxAttempts /\ dispatched \in 0 .. MaxCalls /\ waited \in Nat
  BY RetryAssumption DEF RetryInit
<1>2. backoff \in [KeyPlaces -> {0} \cup Initial .. MaxBackoff]
  BY DEF RetryInit
<1> QED
  BY <1>1, <1>2 DEF RetryInit, RetryTypeOK

\* Every step keeps the types.
LEMMA RetryTypesStep == RetryTypeOK /\ [RetryNext]_retryVars => RetryTypeOK'
<1> SUFFICES ASSUME RetryTypeOK, [RetryNext]_retryVars PROVE RetryTypeOK'
  OBVIOUS
<1> USE FourKeys, RetryAssumption DEF RetryTypeOK
<1>1. CASE BeginDispatch
  <2>1. attempt' \in 1 .. MaxAttempts /\ dispatched' \in 0 .. MaxCalls /\ waited' \in Nat
    BY <1>1 DEF BeginDispatch
  <2>2. at' \in KeyPlaces
    BY <1>1 DEF BeginDispatch
  <2> QED
    BY <1>1, <2>1, <2>2 DEF BeginDispatch
<1>2. CASE CallWorks
  BY <1>2 DEF CallWorks
<1>3. CASE CallFails
  <2>1. PICK jitter \in Jitters, asked \in RetryAfters :
           waited' = waited + Max({(Delay(at) * jitter) \div 100, asked})
    BY <1>3 DEF CallFails
  <2>2. Delay(at) \in Initial .. MaxBackoff
    BY <1>3 DEF CallFails, Delay
  <2>3. (Delay(at) * jitter) \div 100 \in Nat
    <3>1. Delay(at) \in Nat /\ jitter \in Nat
      BY <2>2
    <3>2. Delay(at) * jitter \in Nat
      BY <3>1
    <3> QED
      BY <3>2
  <2>4. Max({(Delay(at) * jitter) \div 100, asked}) \in Nat
    BY <2>3, MaxOfTwo
  <2>5. Grown(Delay(at)) \in Initial .. MaxBackoff
    BY <2>2, GrownBounds
  <2>6. obeyed' \in BOOLEAN
    BY <1>3 DEF CallFails
  <2> QED
    BY <1>3, <2>1, <2>4, <2>5, <2>6 DEF CallFails
<1>4. CASE DispatchFails
  BY <1>4 DEF DispatchFails
<1>5. CASE UNCHANGED retryVars
  BY <1>5 DEF retryVars
<1> QED
  BY <1>1, <1>2, <1>3, <1>4, <1>5 DEF RetryNext

\* The backoff's entries, the retries and their history keep their types.
THEOREM RetryTypeCorrect == RetrySpec => []RetryTypeOK
  BY RetryTypesInit, RetryTypesStep, PTL DEF RetrySpec

\* A key with an entry has failed since it last worked; within a dispatch it
\* has done so before the dispatch, or it is the key of the call under way.
EntriesFailed ==
    /\ \A k \in KeyPlaces : backoff[k] # 0 => k \in failing
    /\ at # 0 => \A k \in failing : k \in worn \/ (k = at /\ attempt > 1)

\* What one call can have waited when it is at an attempt, times 20: its first
\* delay is a fifth more than Initial at most, its second one that and a half.
WaitOf(n) == IF n = 1 THEN 0 ELSE IF n = 2 THEN 24 * Initial ELSE 60 * Initial

\* Without old entries a call starts from Initial, and the waits so far are those
\* of the calls that have worked and of the attempts that have failed.
WaitsBounded ==
    worn = {} /\ ~obeyed /\ at # 0 =>
        /\ attempt = 1 => backoff[at] = 0
        /\ attempt = 2 => 2 * backoff[at] <= 3 * Initial
        /\ 20 * waited <= 60 * Initial * (at - 1) + WaitOf(attempt)

RetryInv == RetryTypeOK /\ EntriesFailed /\ WaitsBounded

\* Every step keeps the history of the entries.
LEMMA EntriesStep ==
    RetryTypeOK /\ EntriesFailed /\ [RetryNext]_retryVars => EntriesFailed'
<1> SUFFICES ASSUME RetryTypeOK, EntriesFailed, [RetryNext]_retryVars PROVE EntriesFailed'
  OBVIOUS
<1> USE FourKeys, RetryAssumption DEF RetryTypeOK, EntriesFailed
<1>1. CASE BeginDispatch
  BY <1>1 DEF BeginDispatch
<1>2. CASE CallWorks
  BY <1>2 DEF CallWorks
<1>3. CASE CallFails
  BY <1>3 DEF CallFails
<1>4. CASE DispatchFails
  BY <1>4 DEF DispatchFails
<1>5. CASE UNCHANGED retryVars
  BY <1>5 DEF retryVars
<1> QED
  BY <1>1, <1>2, <1>3, <1>4, <1>5 DEF RetryNext

\* Every step keeps the waits within their bounds, for at most three attempts
\* and a fifth of jitter.
LEMMA WaitsStep ==
    ASSUME MaxAttempts <= 3, Jitters \subseteq 0 .. 120
    PROVE  RetryInv /\ [RetryNext]_retryVars => WaitsBounded'
<1> SUFFICES ASSUME RetryInv, [RetryNext]_retryVars,
                    worn' = {}, ~obeyed', at' # 0
             PROVE  /\ attempt' = 1 => backoff'[at'] = 0
                    /\ attempt' = 2 => 2 * backoff'[at'] <= 3 * Initial
                    /\ 20 * waited' <= 60 * Initial * (at' - 1) + WaitOf(attempt')
  BY DEF WaitsBounded
<1> USE FourKeys, RetryAssumption DEF RetryInv, RetryTypeOK
<1>1. CASE BeginDispatch
  <2>1. at' = 1 /\ attempt' = 1 /\ waited' = 0 /\ backoff' = backoff /\ failing = {}
    BY <1>1 DEF BeginDispatch
  <2>2. backoff[1] = 0
    BY <2>1 DEF EntriesFailed
  <2> QED
    BY <2>1, <2>2 DEF WaitOf
<1>2. CASE CallWorks
  <2>1. /\ at \in 1 .. 3 /\ at' = at + 1 /\ attempt' = 1
        /\ waited' = waited /\ worn = {} /\ ~obeyed
    BY <1>2 DEF CallWorks
  <2>2. backoff[at + 1] = 0
    BY <2>1 DEF EntriesFailed
  <2>3. backoff'[at'] = 0
    BY <1>2, <2>1, <2>2 DEF CallWorks
  <2>4. 20 * waited <= 60 * Initial * (at - 1) + 60 * Initial
    BY <2>1 DEF WaitsBounded, WaitOf
  <2> QED
    BY <2>1, <2>3, <2>4 DEF WaitOf
<1>3. CASE CallFails
  <2>1. PICK jitter \in Jitters, asked \in RetryAfters :
           /\ waited' = waited + Max({(Delay(at) * jitter) \div 100, asked})
           /\ obeyed' = (obeyed \/ asked > (Delay(at) * jitter) \div 100)
    BY <1>3 DEF CallFails
  <2>2. /\ at \in 1 .. 4 /\ at' = at /\ attempt' = attempt + 1 /\ attempt \in 1 .. 2
        /\ worn = {} /\ ~obeyed /\ backoff'[at] = Grown(Delay(at))
    BY <1>3, <2>1 DEF CallFails
  <2>3. Delay(at) \in Initial .. MaxBackoff
    BY <2>2 DEF Delay
  <2>4. /\ attempt = 1 => Delay(at) = Initial
        /\ attempt = 2 => 2 * Delay(at) <= 3 * Initial
    BY <2>2 DEF WaitsBounded, Delay
  <2> DEFINE delay == (Delay(at) * jitter) \div 100
  <2>5. delay \in Nat /\ 5 * delay <= 6 * Delay(at)
    BY <2>3, JitterBounds
  <2>6. waited' = waited + delay
    <3>1. ~(asked > delay)
      BY <2>1
    <3> QED
      BY <2>1, <2>5, <3>1, MaxOfTwo
  <2>7. 20 * waited <= 60 * Initial * (at - 1) + WaitOf(attempt)
    BY <2>2 DEF WaitsBounded
  <2>8. Grown(Delay(at)) \in Nat /\ 2 * Grown(Delay(at)) <= 3 * Delay(at)
    BY <2>3, GrownBounds
  <2> HIDE DEF delay
  <2>9. CASE attempt = 1
    <3>1. Delay(at) = Initial
      BY <2>4, <2>9
    <3>2. 2 * backoff'[at'] <= 3 * Initial
      BY <2>2, <2>8, <3>1
    <3>3. 20 * waited <= 60 * Initial * (at - 1)
      BY <2>7, <2>9 DEF WaitOf
    <3>4. 20 * delay <= 24 * Initial
      BY <2>5, <3>1
    <3>5. 20 * waited' <= 60 * Initial * (at' - 1) + 24 * Initial
      BY <2>2, <2>5, <2>6, <3>3, <3>4
    <3> QED
      BY <2>2, <2>9, <3>2, <3>5 DEF WaitOf
  <2>10. CASE attempt = 2
    <3>1. 20 * waited <= 60 * Initial * (at - 1) + 24 * Initial
      BY <2>7, <2>10 DEF WaitOf
    <3>2. 20 * delay <= 36 * Initial
      BY <2>3, <2>4, <2>5, <2>10
    <3>3. 20 * waited' <= 60 * Initial * (at' - 1) + 60 * Initial
      BY <2>2, <2>5, <2>6, <3>1, <3>2
    <3> QED
      BY <2>2, <2>10, <3>3 DEF WaitOf
  <2> QED
    BY <2>2, <2>9, <2>10
<1>4. CASE DispatchFails
  BY <1>4 DEF DispatchFails
<1>5. CASE UNCHANGED retryVars
  BY <1>5 DEF retryVars, WaitsBounded
<1> QED
  BY <1>1, <1>2, <1>3, <1>4, <1>5 DEF RetryNext

\* With the attempts and the jitter of the code, and a first delay of a twelfth
\* of the Lease at most (ten seconds of two minutes: not a second to spare),
\* waiting alone does not outlast the Lease, unless another dispatch has left a
\* delay behind or GitHub asks for a longer one.
THEOREM WaitsAreCovered ==
    ASSUME MaxAttempts <= 3, Jitters \subseteq 0 .. 120, 12 * Initial <= Lease
    PROVE  RetrySpec => []WaitsFitLease
<1>1. RetryInit => RetryInv
  <2>1. RetryInit => EntriesFailed /\ WaitsBounded
    BY DEF RetryInit, EntriesFailed, WaitsBounded
  <2> QED
    BY <2>1, RetryTypesInit DEF RetryInv
<1>2. RetryInv /\ [RetryNext]_retryVars => RetryInv'
  BY RetryTypesStep, EntriesStep, WaitsStep DEF RetryInv
<1>3. RetryInv => WaitsFitLease
  <2> SUFFICES ASSUME RetryInv, worn = {}, ~obeyed, at # 0
               PROVE  waited * 4 <= Lease * at
    BY FourKeys DEF WaitsFitLease
  <2> USE FourKeys, RetryAssumption DEF RetryInv, RetryTypeOK
  <2>1. at \in 1 .. 4 /\ 20 * waited <= 60 * Initial * (at - 1) + 60 * Initial
    BY DEF WaitsBounded, WaitOf
  <2>2. 20 * waited <= 60 * Initial * at
    BY <2>1
  <2>3. Initial * at * 12 <= Lease * at
    BY <2>1
  <2> QED
    BY <2>1, <2>2, <2>3
<1> QED
  BY <1>1, <1>2, <1>3, PTL DEF RetrySpec

-----------------------------------------------------------------------------
(* JobSpec.                                                                     *)

\* A set of numbers has a least one.
Less == {pair \in Nat \X Nat : pair[1] < pair[2]}

LEMMA LeastNumber ==
    ASSUME NEW T, T \subseteq Nat, T # {}
    PROVE  \E least \in T : \A t \in T : least <= t
  <1>1. IsWellFoundedOn(Less, Nat)
    BY NatLessThanWellFounded, Zenon DEF OpToRel, Less
  <1>2. PICK least \in T : \A t \in T : ~(<<t, least>> \in Less)
    BY <1>1, WFMin
  <1>3. ASSUME NEW t \in T PROVE least <= t
    <2>1. t \in Nat /\ least \in Nat /\ <<t, least>> \notin Less
      BY <1>2
    <2>2. ~(t < least)
      BY <2>1 DEF Less
    <2> QED
      BY <2>1, <2>2
  <1> QED
    BY <1>3

\* The labels with a key among the first n, and the value of the last of them.
Keyed(labels, n, key) == {i \in 1 .. n : labels[i].key = key}

LastOf(labels, n, key, default) ==
    IF Keyed(labels, n, key) = {} THEN default
    ELSE labels[Max(Keyed(labels, n, key))].value

\* One more label counts for its own key.
LEMMA OneMoreKeyed ==
    ASSUME NEW labels, NEW n \in Nat \ {0}, NEW key
    PROVE  Keyed(labels, n, key) =
             IF labels[n].key = key THEN Keyed(labels, n - 1, key) \cup {n}
             ELSE Keyed(labels, n - 1, key)
  BY DEF Keyed

\* It is the last of its own key and of no other.
LEMMA OneMoreLast ==
    ASSUME NEW labels, NEW n \in Nat \ {0}, NEW key, NEW default
    PROVE  LastOf(labels, n, key, default) =
             IF labels[n].key = key THEN labels[n].value
             ELSE LastOf(labels, n - 1, key, default)
  <1>1. CASE labels[n].key = key
    <2>1. n \in Keyed(labels, n, key) /\ \A i \in Keyed(labels, n, key) : i \in Int /\ n >= i
      BY <1>1 DEF Keyed
    <2>2. Max(Keyed(labels, n, key)) \in Keyed(labels, n, key)
          /\ Max(Keyed(labels, n, key)) >= n
      BY <2>1 DEF Max
    <2>3. Max(Keyed(labels, n, key)) = n
      BY <2>1, <2>2
    <2> QED
      BY <1>1, <2>1, <2>3 DEF LastOf
  <1>2. CASE labels[n].key # key
    BY <1>2, OneMoreKeyed DEF LastOf
  <1> QED
    BY <1>1, <1>2

\* A label that is not refused by itself.
Acceptable(l) ==
    /\ l.key # ""
    /\ l.key = "runs-on" => l.value # ""
    /\ l.key = "cpu" => l.value \in DOMAIN Atoi /\ Atoi[l.value] > 0
    /\ l.key = "mem" => l.value # ""
    /\ l.key = "arch" => l.value \in {"x64", "arm64"}
    /\ l.key = "cache" => l.value \in CacheOn \cup CacheOff

\* What Read makes of a RunnerSpec.
LEMMA ReadRecord ==
    ASSUME NEW s, NEW l,
           s = [runID |-> s.runID, cpu |-> s.cpu, mem |-> s.mem, arch |-> s.arch,
                pool |-> s.pool, cache |-> s.cache, image |-> s.image, raw |-> s.raw]
    PROVE  Read(s, l) =
             IF ~Acceptable(l) THEN Malformed
             ELSE [runID |-> IF l.key = "runs-on" THEN l.value ELSE s.runID,
                   cpu |-> IF l.key = "cpu" THEN Atoi[l.value] ELSE s.cpu,
                   mem |-> IF l.key = "mem" THEN l.value ELSE s.mem,
                   arch |-> IF l.key = "arch" THEN l.value ELSE s.arch,
                   pool |-> IF l.key = "pool" THEN l.value ELSE s.pool,
                   cache |-> IF l.key = "cache" THEN l.value \in CacheOn ELSE s.cache,
                   image |-> IF l.key = "image" THEN l.value ELSE s.image,
                   raw |-> IF l.key \notin KnownKeys THEN s.raw \cup {l.key} ELSE s.raw]
  <1>1. s # Malformed
    <2>1. "runID" \in DOMAIN s /\ "runID" \notin DOMAIN Malformed
      BY DEF Malformed
    <2> QED
      BY <2>1
  <1>2. CASE l.key = "runs-on"
    <2>1. CASE l.value # ""
      <3>1. Read(s, l) = [s EXCEPT !.runID = l.value]
        BY <1>1, <1>2, <2>1 DEF Read, KnownKeys
      <3>2. Acceptable(l)
        BY <1>2, <2>1 DEF Acceptable
      <3> QED
        BY <3>1, <3>2, <1>2 DEF KnownKeys
    <2>2. CASE l.value = ""
      <3>1. Read(s, l) = Malformed
        BY <1>1, <1>2, <2>2 DEF Read, KnownKeys
      <3> QED
        BY <3>1, <1>2, <2>2 DEF Acceptable
    <2> QED
      BY <2>1, <2>2
  <1>3. CASE l.key = "cpu"
    <2>1. CASE l.value \in DOMAIN Atoi /\ Atoi[l.value] > 0
      BY <1>1, <1>3, <2>1 DEF Read, Acceptable, KnownKeys
    <2>2. CASE ~ (l.value \in DOMAIN Atoi /\ Atoi[l.value] > 0)
      <3>1. Read(s, l) = Malformed
        BY <1>1, <1>3, <2>2 DEF Read, KnownKeys
      <3> QED
        BY <3>1, <1>3, <2>2 DEF Acceptable
    <2> QED
      BY <2>1, <2>2
  <1>4. CASE l.key = "mem"
    <2>1. CASE l.value # ""
      <3>1. Read(s, l) = [s EXCEPT !.mem = l.value]
        BY <1>1, <1>4, <2>1 DEF Read, KnownKeys
      <3>2. Acceptable(l)
        BY <1>4, <2>1 DEF Acceptable
      <3> QED
        BY <3>1, <3>2, <1>4 DEF KnownKeys
    <2>2. CASE l.value = ""
      <3>1. Read(s, l) = Malformed
        BY <1>1, <1>4, <2>2 DEF Read, KnownKeys
      <3> QED
        BY <3>1, <1>4, <2>2 DEF Acceptable
    <2> QED
      BY <2>1, <2>2
  <1>5. CASE l.key = "arch"
    BY <1>1, <1>5 DEF Read, Acceptable, KnownKeys
  <1>6. CASE l.key = "pool"
    BY <1>1, <1>6 DEF Read, Acceptable, KnownKeys
  <1>7. CASE l.key = "cache"
    <2>1. CASE l.value \in CacheOn \cup CacheOff
      <3>1. Read(s, l) = [s EXCEPT !.cache = l.value \in CacheOn]
        BY <1>1, <1>7, <2>1 DEF Read, KnownKeys
      <3>2. Acceptable(l)
        BY <1>7, <2>1 DEF Acceptable
      <3> QED
        BY <3>1, <3>2, <1>7 DEF KnownKeys
    <2>2. CASE l.value \notin CacheOn \cup CacheOff
      <3>1. Read(s, l) = Malformed
        BY <1>1, <1>7, <2>2 DEF Read, KnownKeys
      <3> QED
        BY <3>1, <1>7, <2>2 DEF Acceptable
    <2> QED
      BY <2>1, <2>2
  <1>8. CASE l.key = "image"
    BY <1>1, <1>8 DEF Read, Acceptable, KnownKeys
  <1>9. CASE l.key \notin KnownKeys
    <2>1. CASE l.key # ""
      <3>1. Read(s, l) = [s EXCEPT !.raw = s.raw \cup {l.key}]
        BY <1>1, <1>9, <2>1 DEF Read, KnownKeys
      <3>2. Acceptable(l)
        BY <1>9, <2>1 DEF Acceptable, KnownKeys
      <3> QED
        BY <3>1, <3>2, <1>9 DEF KnownKeys
    <2>2. CASE l.key = ""
      <3>1. Read(s, l) = Malformed
        BY <1>1, <2>2 DEF Read, KnownKeys
      <3> QED
        BY <3>1, <2>2 DEF Acceptable
    <2> QED
      BY <2>1, <2>2
  <1> QED
    BY <1>2, <1>3, <1>4, <1>5, <1>6, <1>7, <1>8, <1>9 DEF KnownKeys

\* Readings is the function that its definition says.
LEMMA ReadingsRight ==
    ASSUME NEW labels \in Seq(Labels), NEW cfg
    PROVE  Readings(labels, cfg) =
             [n \in 0 .. Len(labels) |->
                IF n = 0 THEN Defaults(cfg)
                ELSE Read(Readings(labels, cfg)[n - 1], labels[n])]
  <1> DEFINE Reads(g, m) ==
               g = [n \in 0 .. m |->
                      IF n = 0 THEN Defaults(cfg) ELSE Read(g[n - 1], labels[n])]
             Gaps == {m \in 0 .. Len(labels) : ~ \E g : Reads(g, m)}
  <1>1. Gaps = {}
    <2>1. SUFFICES ASSUME Gaps # {} PROVE FALSE
      OBVIOUS
    <2>2. PICK m \in Gaps : \A k \in Gaps : m <= k
      <3>1. Gaps \subseteq Nat
        OBVIOUS
      <3> QED
        BY <2>1, <3>1, LeastNumber
    <2>3. CASE m = 0
      <3>1. Reads([n \in 0 .. 0 |-> Defaults(cfg)], 0)
        OBVIOUS
      <3> QED
        BY <2>2, <2>3, <3>1
    <2>4. CASE m # 0
      <3>1. m \in 1 .. Len(labels) /\ m - 1 \in 0 .. Len(labels) /\ m - 1 \notin Gaps
        BY <2>2, <2>4
      <3>2. PICK g : Reads(g, m - 1)
        BY <3>1
      <3> DEFINE h == [n \in 0 .. m |-> IF n < m THEN g[n] ELSE Read(g[m - 1], labels[m])]
      <3>3. ASSUME NEW n \in 0 .. m
            PROVE  h[n] = IF n = 0 THEN Defaults(cfg) ELSE Read(h[n - 1], labels[n])
        <4>1. CASE n = m
          BY <4>1, <2>4, <3>1
        <4>2. CASE n < m
          BY <4>2, <3>1, <3>2
        <4> QED
          BY <4>1, <4>2, <3>1
      <3>4. Reads(h, m)
        BY <3>3
      <3> QED
        BY <2>2, <3>4
    <2> QED
      BY <2>3, <2>4
  <1>2. \E g : Reads(g, Len(labels))
    BY <1>1
  <1> QED
    BY <1>2 DEF Readings
\* The RunnerSpec of the first n labels, if none of them is refused.
Understood(labels, n, cfg) ==
    [runID |-> LastOf(labels, n, "runs-on", ""),
     cpu |-> IF Keyed(labels, n, "cpu") = {} THEN cfg.cpu
             ELSE Atoi[LastOf(labels, n, "cpu", "")],
     mem |-> LastOf(labels, n, "mem", ""),
     arch |-> LastOf(labels, n, "arch", cfg.arch),
     pool |-> LastOf(labels, n, "pool", ""),
     cache |-> LastOf(labels, n, "cache", "") \in CacheOn,
     image |-> LastOf(labels, n, "image", ""),
     raw |-> {labels[i].key : i \in {j \in 1 .. n : labels[j].key \notin KnownKeys}}]

RightReading(labels, n, cfg) ==
    Readings(labels, cfg)[n] =
      IF \E i \in 1 .. n : ~Acceptable(labels[i]) THEN Malformed
      ELSE Understood(labels, n, cfg)

\* The defaults are what no label says.
LEMMA NoneRead ==
    ASSUME NEW labels \in Seq(Labels), NEW cfg
    PROVE  RightReading(labels, 0, cfg)
  <1>1. Readings(labels, cfg)[0] = Defaults(cfg)
    BY ReadingsRight
  <1>2. \A key : Keyed(labels, 0, key) = {}
    BY DEF Keyed
  <1>3. \A key, default : LastOf(labels, 0, key, default) = default
    BY <1>2 DEF LastOf
  <1>4. {labels[i].key : i \in {j \in 1 .. 0 : labels[j].key \notin KnownKeys}} = {}
    OBVIOUS
  <1>5. LastOf(labels, 0, "cache", "") \notin CacheOn
    <2>1. "" \notin CacheOn
      BY DEF CacheOn
    <2> QED
      BY <2>1, <1>3
  <1>6. Understood(labels, 0, cfg) = Defaults(cfg)
    <2> DEFINE value == LastOf(labels, 0, "cache", "")
    <2>1. value \notin CacheOn
      BY <1>5
    <2> HIDE DEF value
    <2>2. (value \in CacheOn) = FALSE
      BY <2>1, SMT
    <2>3. (LastOf(labels, 0, "cache", "") \in CacheOn) = FALSE
      BY <2>2, Zenon DEF value
    <2> QED
      BY <1>2, <1>3, <1>4, <2>3 DEF Understood, Defaults
  <1> QED
    BY <1>1, <1>6 DEF RightReading

\* One more label is read as it should.
LEMMA OneMoreRead ==
    ASSUME NEW labels \in Seq(Labels), NEW cfg, NEW n \in 1 .. Len(labels),
           RightReading(labels, n - 1, cfg)
    PROVE  RightReading(labels, n, cfg)
  <1> DEFINE before == Readings(labels, cfg)[n - 1]
             l == labels[n]
             u == Understood(labels, n - 1, cfg)
  <1>1. Readings(labels, cfg)[n] = Read(before, l)
    BY ReadingsRight
  <1>2. CASE \E i \in 1 .. n - 1 : ~Acceptable(labels[i])
    <2>1. before = Malformed
      BY <1>2 DEF RightReading
    <2>2. Read(before, l) = Malformed
      BY <2>1 DEF Read
    <2> QED
      BY <1>1, <1>2, <2>2 DEF RightReading
  <1>3. CASE \A i \in 1 .. n - 1 : Acceptable(labels[i])
    <2>1. u = [runID |-> u.runID, cpu |-> u.cpu, mem |-> u.mem, arch |-> u.arch,
               pool |-> u.pool, cache |-> u.cache, image |-> u.image, raw |-> u.raw]
      BY DEF Understood
    <2>2. before = u
      BY <1>3 DEF RightReading
    <2>3. CASE ~Acceptable(l)
      <3>1. Read(u, l) = Malformed
        BY <2>3, <2>1, ReadRecord
      <3> QED
        BY <1>1, <2>2, <2>3, <3>1 DEF RightReading
    <2>4. CASE Acceptable(l)
      <3> DEFINE cpus(m) == IF Keyed(labels, m, "cpu") = {} THEN cfg.cpu
                            ELSE Atoi[LastOf(labels, m, "cpu", "")]
                 rest(m) == {labels[i].key : i \in {j \in 1 .. m : labels[j].key \notin KnownKeys}}
      <3>1. Read(u, l) =
              [runID |-> IF l.key = "runs-on" THEN l.value ELSE u.runID,
               cpu |-> IF l.key = "cpu" THEN Atoi[l.value] ELSE u.cpu,
               mem |-> IF l.key = "mem" THEN l.value ELSE u.mem,
               arch |-> IF l.key = "arch" THEN l.value ELSE u.arch,
               pool |-> IF l.key = "pool" THEN l.value ELSE u.pool,
               cache |-> IF l.key = "cache" THEN l.value \in CacheOn ELSE u.cache,
               image |-> IF l.key = "image" THEN l.value ELSE u.image,
               raw |-> IF l.key \notin KnownKeys THEN u.raw \cup {l.key} ELSE u.raw]
        BY <2>4, <2>1, ReadRecord
      <3>2. \A key, default :
              LastOf(labels, n, key, default) =
                IF l.key = key THEN l.value ELSE LastOf(labels, n - 1, key, default)
        BY OneMoreLast
      <3>3. cpus(n) = IF l.key = "cpu" THEN Atoi[l.value] ELSE cpus(n - 1)
        <4>1. CASE l.key = "cpu"
          <5>1. Keyed(labels, n, "cpu") # {}
            BY <4>1 DEF Keyed
          <5>2. LastOf(labels, n, "cpu", "") = l.value
            BY <4>1, <3>2
          <5> QED
            BY <5>1, <5>2, <4>1
        <4>2. CASE l.key # "cpu"
          <5>1. Keyed(labels, n, "cpu") = Keyed(labels, n - 1, "cpu")
            BY <4>2, OneMoreKeyed
          <5>2. LastOf(labels, n, "cpu", "") = LastOf(labels, n - 1, "cpu", "")
            BY <4>2, <3>2
          <5> QED
            BY <5>1, <5>2, <4>2
        <4> QED
          BY <4>1, <4>2
      <3>4. rest(n) = IF l.key \notin KnownKeys THEN rest(n - 1) \cup {l.key} ELSE rest(n - 1)
        OBVIOUS
      <3>5. Understood(labels, n, cfg) = Read(u, l)
        BY <3>1, <3>2, <3>3, <3>4 DEF Understood
      <3> QED
        BY <1>1, <1>3, <2>2, <2>4, <3>5 DEF RightReading
    <2> QED
      BY <2>3, <2>4
  <1> QED
    BY <1>2, <1>3

\* All labels are.
LEMMA AllRead ==
    ASSUME NEW labels \in Seq(Labels), NEW cfg
    PROVE  RightReading(labels, Len(labels), cfg)
  <1> DEFINE Wrong == {n \in 0 .. Len(labels) : ~RightReading(labels, n, cfg)}
  <1>1. SUFFICES ASSUME Wrong # {} PROVE FALSE
    OBVIOUS
  <1>2. PICK n \in Wrong : \A m \in Wrong : n <= m
    <2>1. Wrong \subseteq Nat
      OBVIOUS
    <2> QED
      BY <1>1, <2>1, LeastNumber
  <1>3. n # 0
    BY <1>2, NoneRead
  <1>4. n - 1 \in 0 .. Len(labels) /\ n - 1 \notin Wrong /\ n \in 1 .. Len(labels)
    BY <1>2, <1>3
  <1> QED
    BY <1>2, <1>4, OneMoreRead

\* The last label with a key is one of them.
OneOfThem(labels, n, key, default) ==
    \E i \in 1 .. n :
      labels[i].key = key /\ LastOf(labels, n, key, default) = labels[i].value

LEMMA LastIsOne ==
    ASSUME NEW labels, NEW n \in Nat, NEW key, NEW default,
           Keyed(labels, n, key) # {}
    PROVE  OneOfThem(labels, n, key, default)
  <1> DEFINE T == {n - i : i \in Keyed(labels, n, key)}
             K == Keyed(labels, n, key)
  <1>1. \A i \in K : i \in 1 .. n /\ labels[i].key = key
    BY DEF Keyed
  <1>2. T \subseteq Nat /\ T # {}
    BY <1>1
  <1>3. PICK least \in T : \A t \in T : least <= t
    BY <1>2, LeastNumber
  <1>4. PICK last \in K : least = n - last
    BY <1>3
  <1>5. \A i \in K : last >= i
    BY <1>1, <1>3, <1>4
  <1> HIDE DEF K, T
  <1>6. Max(K) \in K
    BY <1>5 DEF Max
  <1>7. LastOf(labels, n, key, default) = labels[Max(K)].value
    BY DEF LastOf, K
  <1> QED
    BY <1>1, <1>6, <1>7 DEF OneOfThem

\* A label is refused, whatever the defaults, unless it is acceptable.
LEMMA RefusedAlone ==
    ASSUME NEW l, NEW cfg
    PROVE  Read(Defaults(cfg), l) = Malformed <=> ~Acceptable(l)
  <1> DEFINE s == Defaults(cfg)
  <1>1. s = [runID |-> s.runID, cpu |-> s.cpu, mem |-> s.mem, arch |-> s.arch,
             pool |-> s.pool, cache |-> s.cache, image |-> s.image, raw |-> s.raw]
    BY DEF Defaults
  <1>2. Acceptable(l) => "runID" \in DOMAIN Read(s, l)
    BY <1>1, ReadRecord
  <1>3. "runID" \notin DOMAIN Malformed
    BY DEF Malformed
  <1>4. ~Acceptable(l) => Read(s, l) = Malformed
    BY <1>1, ReadRecord
  <1> QED
    BY <1>2, <1>3, <1>4

AllAcceptable(labels) == \A i \in 1 .. Len(labels) : Acceptable(labels[i])

\* A managed job's labels are refused if one of them is, and else understood;
\* they have a run ID.
LEMMA ParseRight ==
    ASSUME NEW labels \in Seq(Labels), NEW cfg, Managed(labels)
    PROVE  /\ ~AllAcceptable(labels) => Parse(labels, cfg) = Malformed
           /\ AllAcceptable(labels) =>
                /\ Parse(labels, cfg) = Understood(labels, Len(labels), cfg)
                /\ Parse(labels, cfg) # Malformed
                /\ Parse(labels, cfg).runID # ""
  <1> DEFINE parsed == Readings(labels, cfg)[Len(labels)]
             u == Understood(labels, Len(labels), cfg)
  <1>1. parsed = IF AllAcceptable(labels) THEN u ELSE Malformed
    BY AllRead DEF RightReading, AllAcceptable
  <1>2. CASE ~AllAcceptable(labels)
    BY <1>1, <1>2 DEF Parse
  <1>3. CASE AllAcceptable(labels)
    <2>1. u # Malformed
      <3>1. "runID" \in DOMAIN u /\ "runID" \notin DOMAIN Malformed
        BY DEF Malformed, Understood
      <3> QED
        BY <3>1
    <2>2. Keyed(labels, Len(labels), "runs-on") # {}
      BY DEF Managed, Range, Keyed
    <2>3. PICK i \in 1 .. Len(labels) :
            labels[i].key = "runs-on"
            /\ LastOf(labels, Len(labels), "runs-on", "") = labels[i].value
      <3>1. Len(labels) \in Nat
        OBVIOUS
      <3>2. OneOfThem(labels, Len(labels), "runs-on", "")
        BY <2>2, <3>1, LastIsOne
      <3> QED
        BY <3>2 DEF OneOfThem
    <2>4. u.runID = labels[i].value /\ labels[i].value # ""
      BY <1>3, <2>3 DEF Understood, AllAcceptable, Acceptable
    <2> QED
      BY <1>1, <1>3, <2>1, <2>4 DEF Parse
  <1> QED
    BY <1>2, <1>3

\* The labels are read.
Configured == fate \in {"parsed", "built", "panic"}

JobSpecIInv ==
    /\ fate \in {"idle", "received", "ignored", "parse_labels", "parsed", "built", "panic"}
    /\ fate # "idle" => webhook.labels \in Seq(Labels) /\ webhook.cfg \in Settings
    /\ fate \in {"idle", "received", "ignored"} => spec = Nothing
    /\ fate = "ignored" => ~Managed(webhook.labels)
    /\ fate = "parse_labels" \/ Configured =>
          /\ Managed(webhook.labels)
          /\ spec = Parse(webhook.labels, webhook.cfg)
          /\ fate = "parse_labels" <=> spec = Malformed
    /\ fate = "built" => job = Built(webhook.cfg)
    /\ fate # "built" => job = Nothing

\* Nothing is read at first.
LEMMA JobSpecStarts == JobSpecInit => JobSpecIInv
  BY DEF JobSpecInit, JobSpecIInv, Configured

\* A Job is built from webhook and specification alone.
LEMMA BuiltFromThem ==
    ASSUME UNCHANGED <<webhook, spec>>
    PROVE  Built(webhook.cfg)' = Built(webhook.cfg)
  <1>1. /\ memoryForSpec(webhook.cfg)' = memoryForSpec(webhook.cfg)
        /\ NodeSelector' = NodeSelector /\ RunnerEnv' = RunnerEnv /\ JobLabels' = JobLabels
    BY DEF memoryForSpec, NodeSelector, RunnerEnv, JobLabels
  <1> QED
    BY <1>1 DEF Built

\* Every step keeps to it.
LEMMA JobSpecSteps == JobSpecIInv /\ [JobSpecNext]_specVars => JobSpecIInv'
  <1> SUFFICES ASSUME JobSpecIInv, [JobSpecNext]_specVars PROVE JobSpecIInv'
    OBVIOUS
  <1>1. CASE ReceiveLabels
    <2>1. webhook'.labels \in Seq(Labels) /\ webhook'.cfg \in Settings
      BY <1>1 DEF ReceiveLabels, SeqOf, JobSpecAssumption
    <2> QED
      BY <1>1, <2>1 DEF ReceiveLabels, JobSpecIInv, Configured
  <1>2. CASE SkipUnmanaged
    BY <1>2 DEF SkipUnmanaged, JobSpecIInv, Configured
  <1>3. CASE ParseLabels
    BY <1>3 DEF ParseLabels, JobSpecIInv, Configured
  <1>4. CASE BuildJob
    <2>1. Built(webhook.cfg)' = Built(webhook.cfg)
      BY <1>4, BuiltFromThem DEF BuildJob
    <2>2. (fate = "built" => job = Built(webhook.cfg))'
      BY <1>4, <2>1 DEF BuildJob
    <2> QED
      BY <1>4, <2>2 DEF BuildJob, JobSpecIInv, Configured
  <1>5. CASE BuildPanics
    BY <1>5 DEF BuildPanics, JobSpecIInv, Configured
  <1>6. CASE UNCHANGED specVars
    <2>1. UNCHANGED <<webhook, spec, fate, job>>
      BY <1>6 DEF specVars
    <2>2. Built(webhook.cfg)' = Built(webhook.cfg)
      BY <2>1, BuiltFromThem
    <2>3. (fate = "built" => job = Built(webhook.cfg))'
      BY <2>1, <2>2 DEF JobSpecIInv
    <2> QED
      BY <2>1, <2>3 DEF JobSpecIInv, Configured
  <1> QED
    BY <1>1, <1>2, <1>3, <1>4, <1>5, <1>6 DEF JobSpecNext

\* Records with different fields differ.
LEMMA KindsDiffer ==
    /\ Malformed # Nothing
    /\ \A labels, n, cfg : Understood(labels, n, cfg) # Nothing
    /\ \A cfg : Built(cfg) # Nothing
  <1>1. "none" \in DOMAIN Nothing /\ "none" \notin DOMAIN Malformed
    BY DEF Malformed, Nothing
  <1>2. \A labels, n, cfg : "none" \notin DOMAIN Understood(labels, n, cfg)
    BY DEF Understood
  <1>3. \A cfg : "none" \notin DOMAIN Built(cfg)
    BY DEF Built
  <1> QED
    BY <1>1, <1>2, <1>3

\* The spec of a configured job is what all its labels say.
LEMMA ConfiguredUnderstood ==
    ASSUME JobSpecIInv, Configured
    PROVE  /\ webhook.labels \in Seq(Labels) /\ webhook.cfg \in Settings
           /\ Managed(webhook.labels) /\ AllAcceptable(webhook.labels)
           /\ spec = Understood(webhook.labels, Len(webhook.labels), webhook.cfg)
           /\ spec.runID # ""
  <1>1. /\ webhook.labels \in Seq(Labels) /\ webhook.cfg \in Settings
        /\ Managed(webhook.labels)
        /\ spec = Parse(webhook.labels, webhook.cfg) /\ spec # Malformed
    BY DEF JobSpecIInv, Configured
  <1> QED
    BY <1>1, ParseRight

\* Asked looks at the same labels as LastOf.
LEMMA AskedIsLast ==
    ASSUME webhook.labels \in Seq(Labels), NEW key, NEW default
    PROVE  Asked(key, default) = LastOf(webhook.labels, Len(webhook.labels), key, default)
  <1>1. DOMAIN webhook.labels = 1 .. Len(webhook.labels)
    OBVIOUS
  <1> QED
    BY <1>1, Zenon DEF Asked, LastOf, Keyed

\* It gives the types.
LEMMA JobSpecTypes == JobSpecIInv => JobSpecTypeOK
  <1> SUFFICES ASSUME JobSpecIInv PROVE JobSpecTypeOK
    OBVIOUS
  <1> DEFINE labels == webhook.labels
             n == Len(webhook.labels)
             cfg == webhook.cfg
  <1>1. fate = "parse_labels" => spec = Malformed
    BY DEF JobSpecIInv
  <1>2. Configured => spec # Malformed /\ spec # Nothing
    <2> SUFFICES ASSUME Configured PROVE spec # Malformed /\ spec # Nothing
      OBVIOUS
    <2>1. spec # Malformed
      BY DEF JobSpecIInv, Configured
    <2> QED
      BY <2>1, ConfiguredUnderstood, KindsDiffer, Zenon
  <1>3. ASSUME Configured
        PROVE  /\ spec.cpu \in 1 .. Word - 1 /\ spec.cache \in BOOLEAN
               /\ spec.runID # "" /\ spec.arch \in {"x64", "arm64", webhook.cfg.arch}
    <2>1. /\ labels \in Seq(Labels) /\ cfg \in Settings /\ AllAcceptable(labels)
          /\ spec = Understood(labels, n, cfg) /\ spec.runID # "" /\ n \in Nat
      <3>1. labels \in Seq(Labels)
        BY <1>3, ConfiguredUnderstood
      <3>2. n \in Nat
        BY <3>1
      <3> QED
        BY <1>3, <3>2, ConfiguredUnderstood, Zenon
    <2>2. spec.cpu \in 1 .. Word - 1
      <3>1. CASE Keyed(labels, n, "cpu") = {}
        BY <2>1, <3>1, JobSpecAssumption DEF Understood
      <3>2. CASE Keyed(labels, n, "cpu") # {}
        <4>1. PICK i \in 1 .. n :
                labels[i].key = "cpu" /\ LastOf(labels, n, "cpu", "") = labels[i].value
          <5>1. OneOfThem(labels, n, "cpu", "")
            BY <2>1, <3>2, LastIsOne
          <5> QED
            BY <5>1 DEF OneOfThem
        <4>2. labels[i].value \in DOMAIN Atoi /\ Atoi[labels[i].value] > 0
          BY <2>1, <4>1 DEF AllAcceptable, Acceptable
        <4>3. Atoi[labels[i].value] \in -Word .. Word - 1
          BY <4>2, JobSpecAssumption
        <4>4. spec.cpu = Atoi[labels[i].value]
          BY <2>1, <3>2, <4>1 DEF Understood
        <4> QED
          BY <4>2, <4>3, <4>4, JobSpecAssumption
      <3> QED
        BY <3>1, <3>2
    <2>3. spec.arch \in {"x64", "arm64", cfg.arch}
      <3>1. spec.arch = LastOf(labels, n, "arch", cfg.arch)
        BY <2>1 DEF Understood
      <3>2. CASE Keyed(labels, n, "arch") = {}
        BY <3>1, <3>2 DEF LastOf
      <3>3. CASE Keyed(labels, n, "arch") # {}
        <4>1. PICK i \in 1 .. n :
                labels[i].key = "arch"
                /\ LastOf(labels, n, "arch", cfg.arch) = labels[i].value
          <5>1. OneOfThem(labels, n, "arch", cfg.arch)
            BY <2>1, <3>3, LastIsOne
          <5> QED
            BY <5>1 DEF OneOfThem
        <4> QED
          BY <2>1, <3>1, <4>1 DEF AllAcceptable, Acceptable
      <3> QED
        BY <3>2, <3>3
    <2>4. spec.cache \in BOOLEAN
      <3> DEFINE value == LastOf(labels, n, "cache", "")
      <3>1. spec.cache = (value \in CacheOn)
        BY <2>1 DEF Understood
      <3> HIDE DEF value
      <3> QED
        BY <3>1
    <2> QED
      BY <2>1, <2>2, <2>3, <2>4
  <1>4. fate = "built" <=> job # Nothing
    BY KindsDiffer DEF JobSpecIInv
  <1>5. Malformed # Nothing
    BY KindsDiffer
  <1>6. fate \in {"idle", "received", "ignored"} => spec = Nothing
    BY DEF JobSpecIInv
  <1>7. fate \in {"idle", "received", "ignored", "parse_labels", "parsed", "built", "panic"}
    BY DEF JobSpecIInv
  <1> QED
    BY <1>1, <1>2, <1>3, <1>4, <1>5, <1>6, <1>7 DEF JobSpecTypeOK, Configured

\* It says what becomes of the labels.
LEMMA LabelsAre == JobSpecIInv => LabelsUnderstood
  <1> SUFFICES ASSUME JobSpecIInv, fate # "idle" PROVE LabelsUnderstood
    BY DEF LabelsUnderstood
  <1> DEFINE labels == webhook.labels
             ours == \E l \in Range(labels) : l.key = "runs-on"
             bad == \E l \in Range(labels) : Refused(l)
  <1>1. labels \in Seq(Labels)
    BY DEF JobSpecIInv
  <1>2. ours <=> Managed(labels)
    BY DEF Managed
  <1>3. bad <=> ~AllAcceptable(labels)
    <2>1. \A l : Refused(l) <=> ~Acceptable(l)
      BY RefusedAlone DEF Refused
    <2> QED
      BY <1>1, <2>1 DEF AllAcceptable, Range
  <1>4. fate = "ignored" => ~ours
    BY <1>2 DEF JobSpecIInv
  <1>5. fate = "parse_labels" => ours /\ bad
    <2> SUFFICES ASSUME fate = "parse_labels" PROVE ours /\ bad
      OBVIOUS
    <2>1. Managed(labels) /\ Parse(labels, webhook.cfg) = Malformed
      BY DEF JobSpecIInv
    <2> QED
      BY <1>1, <1>2, <1>3, <2>1, ParseRight
  <1>6. Configured => ours /\ ~bad
    BY <1>2, <1>3, ConfiguredUnderstood
  <1> QED
    BY <1>4, <1>5, <1>6 DEF LabelsUnderstood, Configured

\* An int64 is its own wrapping.
LEMMA WrappedInRange ==
    ASSUME NEW x \in -Word .. Word - 1
    PROVE  Wrapped(x) = x
  <1> DEFINE d == 2 * Word
             y == x + Word
  <1>1. d \in Nat \ {0} /\ y \in 0 .. d - 1
    BY JobSpecAssumption
  <1> HIDE DEF d, y
  <1>2. y % d = y
    BY <1>1
  <1> QED
    BY <1>2, JobSpecAssumption DEF Wrapped, d, y

\* It says what the Job is.
LEMMA JobsAre == JobSpecIInv => JobAsLabelled
  <1> SUFFICES ASSUME JobSpecIInv, fate = "built" PROVE JobAsLabelled
    BY DEF JobAsLabelled
  <1> DEFINE labels == webhook.labels
             n == Len(webhook.labels)
             cfg == webhook.cfg
             perCPU == Bytes[cfg.memPerCPU]
  <1>1. /\ labels \in Seq(Labels) /\ cfg \in Settings /\ AllAcceptable(labels)
        /\ spec = Understood(labels, n, cfg) /\ n \in Nat
    <2>1. Configured
      BY DEF Configured
    <2>2. labels \in Seq(Labels)
      BY <2>1, ConfiguredUnderstood
    <2>3. n \in Nat
      BY <2>2
    <2> QED
      BY <2>1, <2>3, ConfiguredUnderstood, Zenon
  <1>2. job = Built(cfg)
    BY DEF JobSpecIInv
  <1>3. \A key, default : Asked(key, default) = LastOf(labels, n, key, default)
    BY <1>1, AskedIsLast
  <1>4. /\ spec.mem = Asked("mem", "") /\ spec.pool = Asked("pool", "")
        /\ spec.arch = Asked("arch", cfg.arch) /\ spec.image = Asked("image", "")
        /\ spec.cache <=> Asked("cache", "") \in CacheOn
    BY <1>1, <1>3 DEF Understood
  <1>5. job.image = Asked("image", cfg.image) \/ Asked("image", "") = ""
    <2>1. Asked("image", "") # "" => Asked("image", cfg.image) = Asked("image", "")
      BY <1>3 DEF LastOf
    <2> QED
      BY <1>2, <1>4, <2>1 DEF Built
  <1>6. IF Asked("mem", "") # "" THEN job.memory = Bytes[Asked("mem", "")]
        ELSE perCPU * job.cpu \in -Word .. Word - 1 => job.memory = perCPU * job.cpu
    <2>1. job.memory = memoryForSpec(cfg) /\ job.cpu = spec.cpu
      BY <1>2 DEF Built
    <2>2. CASE spec.mem # ""
      BY <1>4, <2>1, <2>2 DEF memoryForSpec
    <2>3. CASE spec.mem = ""
      <3> DEFINE total == perCPU * job.cpu
      <3>1. job.memory = Wrapped(total)
        BY <2>1, <2>3 DEF memoryForSpec
      <3> HIDE DEF total
      <3>2. total \in -Word .. Word - 1 => job.memory = total
        BY <3>1, WrappedInRange
      <3> QED
        BY <1>4, <2>3, <3>2 DEF total
    <2> QED
      BY <2>2, <2>3
  <1>7. Asked("cpu", "") # "" => job.cpu = Atoi[Asked("cpu", "")]
    <2>1. Asked("cpu", "") # "" => Keyed(labels, n, "cpu") # {}
      BY <1>3 DEF LastOf
    <2> QED
      BY <1>1, <1>2, <1>3, <2>1 DEF Built, Understood
  <1>8. job.node = {<<"arch", archToNodeSelectorValue(spec.arch)>>}
                   \cup (IF spec.pool = "" THEN {} ELSE {<<"pool", spec.pool>>})
    BY <1>2 DEF Built, NodeSelector
  <1>9. <<"arch", "amd64">> \in job.node <=> spec.arch \in {"x64", "amd64"}
    BY <1>8 DEF archToNodeSelectorValue
  <1>10. {k[2] : k \in {m \in job.node : m[1] = "pool"}} = {spec.pool} \ {""}
    <2> DEFINE arch == <<"arch", archToNodeSelectorValue(spec.arch)>>
               pool == <<"pool", spec.pool>>
    <2>1. arch[1] # "pool" /\ pool[1] = "pool" /\ pool[2] = spec.pool
      OBVIOUS
    <2>2. job.node = {arch} \cup (IF spec.pool = "" THEN {} ELSE {pool})
      BY <1>8
    <2> HIDE DEF arch, pool
    <2>3. {m \in job.node : m[1] = "pool"} = IF spec.pool = "" THEN {} ELSE {pool}
      BY <2>1, <2>2
    <2> QED
      BY <2>1, <2>3
  <1>11. job.tolerates => spec.pool = "spot" /\ <<"pool", "spot">> \in job.node
    BY <1>2, <1>8 DEF Built
  <1>12. job.sidecar # {} <=> spec.cache
    BY <1>2, <1>4 DEF Built, CacheSidecarEnv
  <1>13. "ACTIONS_CACHE_URL" \in job.env => "CACHE_PORT" \in job.sidecar
    BY <1>2 DEF Built, RunnerEnv, CacheSidecarEnv
  <1> QED
    BY <1>4, <1>5, <1>6, <1>7, <1>9, <1>10, <1>11, <1>12, <1>13 DEF JobAsLabelled

\* The stages keep their types, for any labels and defaults: a RunnerSpec that
\* is built from has an int64 number of CPUs, an architecture and a run ID.
THEOREM JobSpecTypeCorrect == JobSpecSpec => []JobSpecTypeOK
  <1>1. JobSpecSpec => []JobSpecIInv
    BY JobSpecStarts, JobSpecSteps, PTL DEF JobSpecSpec
  <1> QED
    BY <1>1, JobSpecTypes, PTL

\* A job's labels are ignored, refused or taken by what each of them is, for
\* any labels, as many as there are, in any order.
THEOREM LabelsAreUnderstood == JobSpecSpec => []LabelsUnderstood
  <1>1. JobSpecSpec => []JobSpecIInv
    BY JobSpecStarts, JobSpecSteps, PTL DEF JobSpecSpec
  <1> QED
    BY <1>1, LabelsAre, PTL

\* The Job of any labels is what the last label of each key asks for.
THEOREM JobsAreAsLabelled == JobSpecSpec => []JobAsLabelled
  <1>1. JobSpecSpec => []JobSpecIInv
    BY JobSpecStarts, JobSpecSteps, PTL DEF JobSpecSpec
  <1> QED
    BY <1>1, JobsAre, PTL
=============================================================================
