----------------------------- MODULE Reconciler -----------------------------
(* The leader-elected reconciler: startLeaderElectedTasks of                 *)
(* cmd/scheduler/main.go and internal/reconciler/reconciler.go, for one      *)
(* repository.  Time is counted in reconcile intervals.                      *)
(*                                                                           *)
(* Dispatch (module Dispatcher) appears by its outcomes: the Job is created, *)
(* nothing is (unmanaged labels, or another call has the lock; both return   *)
(* nil), or an error.  Every workflow run has one job, which may be listed    *)
(* more than once: ListRunJobs does not look for what a later page repeats.  *)
EXTENDS Naturals, Sequences, FiniteSets

CONSTANTS
    Replicas,
    Jobs,               \* workflow jobs
    Managed,            \* those whose labels the scheduler manages
    Listing,            \* the order in which GitHub lists the jobs' runs
    MaxJobsPerCycle,    \* Config.MaxJobsPerCycle
    Cooldown,           \* Config.JobCheckCooldown, in intervals
    MaxElapsed,         \* bound: the ticks that may fall into one cycle
    MaxLosses           \* bound: how often leadership is lost

ASSUME JobsAssumption ==
    /\ Managed \subseteq Jobs
    /\ Listing \in Seq(Jobs)
    /\ \A j \in Jobs : \E i \in DOMAIN Listing : Listing[i] = j
ASSUME BoundsAssumption ==
    /\ MaxJobsPerCycle \in Nat \ {0}
    /\ Cooldown \in Nat \ {0}
    /\ MaxElapsed \in Nat
    /\ MaxLosses \in Nat

VARIABLES
    election,   \* each replica's leaderelection.RunOrDie
    loop,       \* each replica's Reconciler.Run
    tick,       \* does its ticker's channel hold a tick?
    position,   \* where in Listing its cycle is
    listed,     \* the runs ListRuns returned to that cycle
    due,        \* has its job been found queued?
    dispatched, \* its counter of that cycle
    elapsed,    \* intervals since its latest cycle took the time "now"
    age,        \* age[r][j]: that "now" minus lastChecked, in intervals
    stage,      \* of each workflow job
    has,        \* jobs with a Kubernetes Job
    losses,     \* how often leadership was lost
    calm        \* have the faults ended?

cycleVars == <<loop, tick, position, listed, due, dispatched, elapsed, age>>
outsideVars == <<stage, has>>
vars == <<election, cycleVars, outsideVars, losses, calm>>

TypeOK ==
    /\ election \in [Replicas -> {"candidate", "leading", "ended"}]
    /\ loop \in [Replicas -> {"off", "waiting", "cycling"}]
    /\ tick \in [Replicas -> BOOLEAN]
    /\ position \in [Replicas -> 1 .. Len(Listing) + 1]
    /\ listed \in [Replicas -> SUBSET Jobs]
    /\ due \in [Replicas -> BOOLEAN]
    /\ dispatched \in [Replicas -> 0 .. MaxJobsPerCycle]
    /\ elapsed \in [Replicas -> 0 .. Cooldown]
    /\ age \in [Replicas -> [Jobs -> 0 .. Cooldown]]
    /\ stage \in [Jobs -> {"fresh", "queued", "gone"}]
    /\ has \subseteq Jobs
    /\ losses \in 0 .. MaxLosses
    /\ calm \in BOOLEAN

Init ==
    /\ election = [r \in Replicas |-> "candidate"]
    /\ loop = [r \in Replicas |-> "off"]
    /\ tick = [r \in Replicas |-> FALSE]
    /\ position = [r \in Replicas |-> 1]
    /\ listed = [r \in Replicas |-> {}]
    /\ due = [r \in Replicas |-> FALSE]
    /\ dispatched = [r \in Replicas |-> 0]
    /\ elapsed = [r \in Replicas |-> 0]
    /\ age = [r \in Replicas |-> [j \in Jobs |-> Cooldown]]
    /\ stage = [j \in Jobs |-> "fresh"]
    /\ has = {}
    /\ losses = 0
    /\ calm = FALSE

\* Jobs queued on GitHub for longer than StaleThreshold.
queued == {j \in Jobs : stage[j] = "queued"}

\* Ages and intervals are counted up to Cooldown.
Capped(n) == IF n < Cooldown THEN n ELSE Cooldown

-----------------------------------------------------------------------------
(* Leadership.                                                               *)

\* The election Lease goes to one candidate at a time.  OnStartedLeading calls
\* Run, whose first cycle does not wait for the ticker.
Elect(r) ==
    /\ election[r] = "candidate"
    /\ \A s \in Replicas : election[s] # "leading"
    /\ election' = [election EXCEPT ![r] = "leading"]
    /\ loop' = [loop EXCEPT ![r] = "waiting"]
    /\ tick' = [tick EXCEPT ![r] = TRUE]
    /\ UNCHANGED <<position, listed, due, dispatched, elapsed, age, outsideVars, losses, calm>>

\* The Lease cannot be renewed for RenewDeadline: RunOrDie cancels the context
\* and returns.  Calls under way fail, so the rest of a cycle does nothing and
\* Run returns; what it noted is not read again.  (A dispatch of it that reaches
\* Kubernetes all the same is like one of a webhook.)  RunOrDie is called once, so
\* this replica does not stand again; the process lives on and serves webhooks.
Lose(r) ==
    /\ ~calm
    /\ losses < MaxLosses
    /\ election[r] = "leading"
    /\ election' = [election EXCEPT ![r] = "ended"]
    /\ losses' = losses + 1
    /\ loop' = [loop EXCEPT ![r] = "off"]
    /\ tick' = [tick EXCEPT ![r] = FALSE]
    /\ position' = [position EXCEPT ![r] = 1]
    /\ listed' = [listed EXCEPT ![r] = {}]
    /\ due' = [due EXCEPT ![r] = FALSE]
    /\ dispatched' = [dispatched EXCEPT ![r] = 0]
    /\ elapsed' = [elapsed EXCEPT ![r] = 0]
    /\ age' = [age EXCEPT ![r] = [j \in Jobs |-> Cooldown]]
    /\ UNCHANGED <<outsideVars, calm>>

-----------------------------------------------------------------------------
(* A cycle.                                                                  *)

\* A tick is taken and ListRuns answers with the queued and running runs; then
\* the cycle notes the time.  If ListRuns fails the cycle is over.
StartCycle(r) ==
    /\ election[r] = "leading"
    /\ loop[r] = "waiting"
    /\ tick[r]
    /\ tick' = [tick EXCEPT ![r] = FALSE]
    /\ \/ /\ loop' = [loop EXCEPT ![r] = "cycling"]
          /\ position' = [position EXCEPT ![r] = 1]
          /\ listed' = [listed EXCEPT ![r] = queued]
          /\ due' = [due EXCEPT ![r] = FALSE]
          /\ dispatched' = [dispatched EXCEPT ![r] = 0]
          /\ age' = [age EXCEPT ![r] = [j \in Jobs |-> Capped(@[j] + elapsed[r])]]
          /\ elapsed' = [elapsed EXCEPT ![r] = 0]
       \/ ~calm /\ UNCHANGED <<loop, position, listed, due, dispatched, elapsed, age>>
    /\ UNCHANGED <<election, outsideVars, losses, calm>>

\* Mutant of At: the cap is exceeded by one.
AtOverCap(r, j) ==
    /\ election[r] = "leading"
    /\ loop[r] = "cycling"
    /\ position[r] <= Len(Listing)
    /\ Listing[position[r]] = j
    /\ dispatched[r] <= MaxJobsPerCycle

\* The cycle is at a job it has to look at.
At(r, j) ==
    /\ election[r] = "leading"
    /\ loop[r] = "cycling"
    /\ position[r] <= Len(Listing)
    /\ Listing[position[r]] = j
    /\ dispatched[r] < MaxJobsPerCycle

Advance(r) ==
    /\ position' = [position EXCEPT ![r] = @ + 1]
    /\ due' = [due EXCEPT ![r] = FALSE]

\* Mutant of RecentlyChecked: what this very cycle has marked does not count.
RecentlyCheckedBefore(r, j) == age[r][j] \in 1 .. Cooldown - 1

\* recentlyChecked compares with the time of the cycle, not with the present.
RecentlyChecked(r, j) == age[r][j] < Cooldown

\* Mutant of MarkChecked: only jobs that have a Kubernetes Job are marked.
MarkCheckedKnown(r, j) ==
    age' = IF j \in has THEN [age EXCEPT ![r][j] = 0] ELSE age

\* markChecked notes the time of the cycle.
MarkChecked(r, j) == age' = [age EXCEPT ![r][j] = 0]

\* ListRunJobs reports the job queued, and it was not checked of late.
ReadQueued(r, j) ==
    /\ At(r, j)
    /\ ~due[r]
    /\ j \in listed[r] \cap queued
    /\ ~RecentlyChecked(r, j)
    /\ due' = [due EXCEPT ![r] = TRUE]
    /\ UNCHANGED <<election, loop, tick, position, listed, dispatched, elapsed, age,
                   outsideVars, losses, calm>>

\* The job is not queued or was checked of late; or the listing of its run or
\* of its Kubernetes Jobs fails.
Skip(r, j) ==
    /\ At(r, j)
    /\ \/ ~due[r] /\ (j \notin listed[r] \cap queued \/ RecentlyChecked(r, j))
       \/ ~calm
    /\ Advance(r)
    /\ UNCHANGED <<election, loop, tick, listed, dispatched, elapsed, age, outsideVars,
                   losses, calm>>

\* hasJob is asked about it; it may have left the queue since.
Due(r, j) == At(r, j) /\ due[r]

\* It has a Kubernetes Job already.
Known(r, j) ==
    /\ Due(r, j)
    /\ j \in has
    /\ MarkChecked(r, j)
    /\ Advance(r)
    /\ UNCHANGED <<election, loop, tick, listed, dispatched, elapsed, outsideVars, losses, calm>>

\* Dispatch returns nil, having created the Job if the labels are managed (or
\* nothing, if another call has the lock): it counts.
DispatchCounts(r, j) ==
    /\ Due(r, j)
    /\ j \notin has
    /\ \/ has' = IF j \in Managed THEN has \cup {j} ELSE has
       \/ ~calm /\ UNCHANGED has
    /\ dispatched' = [dispatched EXCEPT ![r] = @ + 1]
    /\ MarkChecked(r, j)
    /\ Advance(r)
    /\ UNCHANGED <<election, loop, tick, listed, elapsed, stage, losses, calm>>

\* Dispatch fails: it does not count, but the job is checked all the same.
DispatchFails(r, j) ==
    /\ ~calm
    /\ Due(r, j)
    /\ j \in Managed \ has
    /\ MarkChecked(r, j)
    /\ Advance(r)
    /\ UNCHANGED <<election, loop, tick, listed, dispatched, elapsed, outsideVars, losses, calm>>

\* The listing is done, or MaxJobsPerCycle is reached.
EndCycle(r) ==
    /\ election[r] = "leading"
    /\ loop[r] = "cycling"
    /\ position[r] > Len(Listing) \/ dispatched[r] >= MaxJobsPerCycle
    /\ loop' = [loop EXCEPT ![r] = "waiting"]
    /\ UNCHANGED <<election, tick, position, listed, due, dispatched, elapsed, age, outsideVars,
                   losses, calm>>

Cycle(r) ==
    \/ StartCycle(r) \/ EndCycle(r)
    \/ \E j \in Jobs :
          ReadQueued(r, j) \/ Skip(r, j) \/ Known(r, j) \/ DispatchCounts(r, j) \/ DispatchFails(r, j)

-----------------------------------------------------------------------------
(* The surroundings.                                                         *)

\* One interval passes.  A ticker's channel holds one tick: those that fall
\* into a longer cycle are lost.  A waiting loop takes its tick at once.
Tick ==
    /\ \A r \in Replicas : election[r] = "leading" =>
          \/ loop[r] = "waiting" /\ ~tick[r]
          \/ loop[r] = "cycling" /\ elapsed[r] < MaxElapsed
    /\ tick' = [r \in Replicas |-> loop[r] # "off"]
    /\ elapsed' = [r \in Replicas |-> IF loop[r] = "off" THEN 0 ELSE Capped(elapsed[r] + 1)]
    /\ UNCHANGED <<election, loop, position, listed, due, dispatched, age, outsideVars, losses, calm>>

\* A job has been queued for StaleThreshold.
BecomesStale(j) ==
    /\ ~calm
    /\ stage[j] = "fresh"
    /\ stage' = [stage EXCEPT ![j] = "queued"]
    /\ UNCHANGED <<election, cycleVars, has, losses, calm>>

\* A job leaves the queue: run by its runner, cancelled, or taken by another
\* runner; its Kubernetes Job ends with it.
LeavesQueue(j) ==
    /\ j \in queued
    /\ stage' = [stage EXCEPT ![j] = "gone"]
    /\ has' = has \ {j}
    /\ UNCHANGED <<election, cycleVars, losses, calm>>

\* The webhook's dispatch creates the Job.
WebhookDispatches(j) ==
    /\ ~calm
    /\ j \in Managed \ has
    /\ stage[j] # "gone"
    /\ has' = has \cup {j}
    /\ UNCHANGED <<election, cycleVars, stage, losses, calm>>

\* The Kubernetes Job is deleted while its workflow job is still queued.
JobLost(j) ==
    /\ ~calm
    /\ j \in has
    /\ has' = has \ {j}
    /\ UNCHANGED <<election, cycleVars, stage, losses, calm>>

CalmDown ==
    /\ ~calm
    /\ calm' = TRUE
    /\ UNCHANGED <<election, cycleVars, outsideVars, losses>>

Next ==
    \/ \E r \in Replicas : Elect(r) \/ Lose(r) \/ Cycle(r)
    \/ \E j \in Jobs :
          BecomesStale(j) \/ LeavesQueue(j) \/ WebhookDispatches(j) \/ JobLost(j)
    \/ Tick
    \/ CalmDown

Spec == Init /\ [][Next]_vars

\* Candidates are elected when the election Lease is free, goroutines go on,
\* time passes, faults end.
Fairness ==
    /\ \A r \in Replicas : WF_vars(Elect(r)) /\ WF_vars(Cycle(r))
    /\ WF_vars(Tick)
    /\ WF_vars(CalmDown)

FairSpec == Spec /\ Fairness

-----------------------------------------------------------------------------
(* Properties.                                                               *)

\* Missed webhooks are picked up: a managed job that stays queued gets its
\* Kubernetes Job, whatever the cap, the cooldown, failing dispatches and a
\* change of leader do to the cycles.
PickedUp ==
    \A j \in Managed : j \in queued ~> (j \notin queued \/ j \in has)

\* Jobs a replica's cycle has passed and checked.
Rested(r) == {j \in Jobs : age[r][j] = 0 /\ \E i \in 1 .. position[r] - 1 : Listing[i] = j}

\* The dispatches a cycle counts are of different jobs, which it has checked,
\* though a job be listed twice and a dispatch of it leave nothing that a
\* duplicate check would find: a cycle that ends at its cap has sent as many
\* jobs into their cooldown, and the next cycles get past them.
CapRests == \A r \in Replicas : dispatched[r] <= Cardinality(Rested(r))

\* A job is checked again, hence dispatched again by the same leader, only when
\* its cooldown is over, though the cycle's time is older than what it reads.
RestStep == \A r \in Replicas, j \in Jobs : age'[r][j] < age[r][j] => age[r][j] = Cooldown
RestsOut == [][RestStep]_vars

\* There is always again a replica that reconciles.
SomeoneLeads == []<>(\E r \in Replicas : election[r] = "leading")
=============================================================================
