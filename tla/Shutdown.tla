------------------------------- MODULE Shutdown -------------------------------
(* The end of a scheduler process (main of cmd/scheduler): webhooks, their      *)
(* goroutines (internal/webhook), the wait for them and the HTTP server's stop. *)
(* The server accepts webhooks while main waits for their goroutines, so that   *)
(* wg.Go may meet a sync.WaitGroup whose Wait has not returned.                 *)
EXTENDS Naturals

CONSTANTS Webhooks  \* deliveries of "queued" and "completed" events

VARIABLES
    process,  \* main and the last Done, see Processes
    count,    \* the WaitGroup's counter
    delivery, \* of each webhook: its HTTP request
    task,     \* of each webhook: its dispatch, or its cleanup after the grace
    exitTask, \* the cleanup for a runner's exit, which nobody waits for
    between,  \* history: webhooks that came to wg.Go when the counter main waits
              \* for had got to zero, and before Wait returned
    late,     \* history: those that came there after it had returned
    ended     \* how the process has ended

historyVars == <<between, late>>
shutdownVars == <<process, count, delivery, task, exitTask, historyVars, ended>>

\* "waiting": main is about to call Wait; "blocked": Wait sleeps; "counted": the
\* last Done has brought the counter to zero; "checked": it has found nothing
\* changed; "woken": it has reset the WaitGroup and woken main; "closing": Wait
\* has returned, Shutdown runs.
Processes ==
    {"serving", "waiting", "blocked", "counted", "checked", "woken", "closing", "exited"}
DeliveryStates == {"none", "reading", "handled", "answered", "refused", "broken"}
TaskStates == {"none", "running", "done", "cut"}

\* "stopped": main has returned; "misused": a panic of the WaitGroup; "panicked":
\* one of a dispatch; "failed": os.Exit; "killed".
Endings == {"no", "stopped", "misused", "panicked", "failed", "killed"}

ShutdownTypeOK ==
    /\ process \in Processes /\ count \in Nat
    /\ delivery \in [Webhooks -> DeliveryStates]
    /\ task \in [Webhooks -> TaskStates]
    /\ exitTask \in TaskStates
    /\ between \subseteq Webhooks /\ late \subseteq Webhooks
    /\ ended \in Endings /\ (ended = "no" <=> process # "exited")
    /\ process = "exited" =>
          /\ \A w \in Webhooks : task[w] # "running" /\ delivery[w] \notin {"reading", "handled"}
          /\ exitTask # "running"

ShutdownInit ==
    /\ process = "serving" /\ count = 0
    /\ delivery = [w \in Webhooks |-> "none"]
    /\ task = [w \in Webhooks |-> "none"]
    /\ exitTask = "none"
    /\ between = {} /\ late = {}
    /\ ended = "no"

-----------------------------------------------------------------------------
(* The end of the process, and of all its goroutines with it.                *)

Cut(t) == IF t = "running" THEN "cut" ELSE t

Exit(how) ==
    /\ process # "exited"
    /\ process' = "exited"
    /\ ended' = how
    /\ delivery' = [w \in Webhooks |->
                      IF delivery[w] \in {"reading", "handled"} THEN "broken" ELSE delivery[w]]
    /\ task' = [w \in Webhooks |-> Cut(task[w])]
    /\ exitTask' = Cut(exitTask)
    /\ UNCHANGED <<count, historyVars>>

\* SIGKILL, at the end of the pod's grace period (a cleanup may sleep, and a
\* dispatch wait for its retries, for longer) or for want of memory.
Kill == Exit("killed")

\* A dispatch panics, of a webhook or of the reconciler: nothing recovers it.
DispatchPanics == Exit("panicked")

\* ListenAndServe fails: os.Exit.
ListenFails == process # "closing" /\ Exit("failed")

-----------------------------------------------------------------------------
(* Webhooks.                                                                 *)

DeliveryGoto(w, from, to) == delivery[w] = from /\ delivery' = [delivery EXCEPT ![w] = to]

\* The server accepts requests until it is shut down.
Accept(w) ==
    /\ process \notin {"closing", "exited"}
    /\ DeliveryGoto(w, "none", "reading")
    /\ UNCHANGED <<process, count, task, exitTask, historyVars, ended>>

\* No POST, a body too large, a wrong signature, another event: no task.
Ignore(w) ==
    /\ process # "exited"
    /\ DeliveryGoto(w, "reading", "refused")
    /\ UNCHANGED <<process, count, task, exitTask, historyVars, ended>>

\* When the webhook comes to wg.Go.
Comes(w) ==
    /\ between' = IF process \in {"counted", "checked", "woken"} THEN between \cup {w} ELSE between
    /\ late' = IF process = "closing" THEN late \cup {w} ELSE late

\* Mutant of StartTask: the answer goes out before the task is started.
StartTaskAfterAnswer(w) ==
    /\ process # "exited"
    /\ \/ DeliveryGoto(w, "reading", "answered") /\ UNCHANGED <<count, task, historyVars>>
       \/ /\ delivery[w] = "answered" /\ task[w] = "none"
          /\ task' = [task EXCEPT ![w] = "running"]
          /\ count' = count + 1
          /\ Comes(w)
          /\ UNCHANGED delivery
    /\ UNCHANGED <<process, exitTask, ended>>

\* handleWorkflowJob: OnQueued, then wg.Go.  Its Add panics if it finds the
\* counter at zero and main asleep: the server recovers that and drops the
\* connection, and what Add has added stays.
StartTask(w) ==
    /\ process # "exited"
    /\ count' = count + 1
    /\ Comes(w)
    /\ IF process \in {"counted", "checked"} /\ count = 0
       THEN DeliveryGoto(w, "reading", "broken") /\ UNCHANGED task
       ELSE DeliveryGoto(w, "reading", "handled") /\ task' = [task EXCEPT ![w] = "running"]
    /\ UNCHANGED <<process, exitTask, ended>>

\* Status 200.
Reply(w) ==
    /\ process # "exited"
    /\ DeliveryGoto(w, "handled", "answered")
    /\ UNCHANGED <<process, count, task, exitTask, historyVars, ended>>

\* The task returns and is Done.
TaskEnds(w) ==
    /\ process # "exited"
    /\ task[w] = "running"
    /\ count > 0
    /\ count' = count - 1
    /\ task' = [task EXCEPT ![w] = "done"]
    /\ process' = IF process = "blocked" /\ count = 1 THEN "counted" ELSE process
    /\ UNCHANGED <<delivery, exitTask, historyVars, ended>>

\* Its Done finds the counter at zero: the last one's reset has lost its Add.
DoneBelowZero(w) ==
    /\ task[w] = "running"
    /\ count = 0
    /\ Exit("misused")

\* The pod watcher sees a runner exit, as long as its informer runs; the
\* cleanup of it ends.
RunnerExit ==
    /\ \/ process = "serving" /\ exitTask = "none" /\ exitTask' = "running"
       \/ process # "exited" /\ exitTask = "running" /\ exitTask' = "done"
    /\ UNCHANGED <<process, count, delivery, task, historyVars, ended>>

-----------------------------------------------------------------------------
(* main, and the last Done that wakes it.                                    *)

ProcessGoto(from, to) ==
    /\ process = from
    /\ process' = to
    /\ UNCHANGED <<delivery, task, exitTask, historyVars, ended>>

\* SIGTERM ends ctx.
Signal == ProcessGoto("serving", "waiting") /\ UNCHANGED count

\* Mutant of CallWait: it does not wait.
CallWaitPasses == ProcessGoto("waiting", "closing") /\ UNCHANGED count

CallWait ==
    /\ ProcessGoto("waiting", IF count = 0 THEN "closing" ELSE "blocked")
    /\ UNCHANGED count

\* "Add called concurrently with Wait", unless nothing has come since.
LastDoneChecks ==
    \/ count = 0 /\ ProcessGoto("counted", "checked") /\ UNCHANGED count
    \/ count # 0 /\ process = "counted" /\ Exit("misused")

\* Whatever has come since is lost.
LastDoneResets == ProcessGoto("checked", "woken") /\ count' = 0

\* "WaitGroup is reused before previous Wait has returned", unless it is not.
WaitReturns ==
    \/ count = 0 /\ ProcessGoto("woken", "closing") /\ UNCHANGED count
    \/ count # 0 /\ process = "woken" /\ Exit("misused")

\* Mutant of ShutdownReturns: there is no end to its patience.
ShutdownReturnsIdle ==
    /\ process = "closing"
    /\ \A w \in Webhooks : delivery[w] \notin {"reading", "handled"}
    /\ Exit("stopped")

\* All requests are answered, or ten seconds have passed.
ShutdownReturns == process = "closing" /\ Exit("stopped")

MainStep == CallWait \/ LastDoneChecks \/ LastDoneResets \/ WaitReturns \/ ShutdownReturns

ShutdownNext ==
    \/ \E w \in Webhooks :
          Accept(w) \/ Ignore(w) \/ StartTask(w) \/ Reply(w) \/ TaskEnds(w) \/ DoneBelowZero(w)
    \/ RunnerExit \/ Signal \/ MainStep
    \/ Kill \/ DispatchPanics \/ ListenFails

ShutdownSpec == ShutdownInit /\ [][ShutdownNext]_shutdownVars

\* Dispatches and cleanups return (Dispatcher, Cleanup).  Nothing is assumed of
\* the clients, whose requests may stay half read.
ShutdownFairness ==
    /\ \A w \in Webhooks : WF_shutdownVars(TaskEnds(w))
    /\ WF_shutdownVars(MainStep)

-----------------------------------------------------------------------------
(* Properties.                                                               *)

\* A webhook that GitHub has been told is handled has its task; and when main
\* returns, or the WaitGroup panics, the only tasks cut short are of webhooks that
\* came when those main was waiting for had all ended.  "Wait blocks until
\* in-flight dispatches complete", which would leave out "between", is not kept.
AcceptedIsDone ==
    \A w \in Webhooks :
        /\ delivery[w] = "answered" => task[w] # "none"
        /\ task[w] = "cut" /\ ended \in {"stopped", "misused"} => w \in between \cup late

\* After the signal the process exits, once webhooks stop coming; a client
\* that does not go on cannot keep it.
ProcessExits == process = "waiting" ~> process = "exited"
=============================================================================
