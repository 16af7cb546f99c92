-------------------------- MODULE ReconcilerProofs --------------------------
(* Type correctness of Reconciler, and how the cap of a cycle and the         *)
(* cooldown of its jobs work together, for any replicas, jobs, listing and   *)
(* bounds.                                                                   *)
EXTENDS Reconciler, SequenceTheorems, FiniteSetTheorems, TLAPS

LEMMA InitTypeOK == Init => TypeOK
<1>1. Len(Listing) \in Nat
  BY JobsAssumption, LenProperties
<1> SUFFICES ASSUME Init PROVE TypeOK
  OBVIOUS
<1>2. /\ position \in [Replicas -> 1 .. Len(Listing) + 1]
      /\ dispatched \in [Replicas -> 0 .. MaxJobsPerCycle]
      /\ elapsed \in [Replicas -> 0 .. Cooldown]
      /\ age \in [Replicas -> [Jobs -> 0 .. Cooldown]]
      /\ losses \in 0 .. MaxLosses
  BY <1>1, BoundsAssumption DEF Init
<1> QED
  BY <1>2 DEF Init, TypeOK

LEMMA NextTypeOK == TypeOK /\ [Next]_vars => TypeOK'
<1> SUFFICES ASSUME TypeOK, [Next]_vars PROVE TypeOK'
  OBVIOUS
<1> USE JobsAssumption, BoundsAssumption DEF TypeOK
<1>1. ASSUME NEW r \in Replicas, Elect(r) \/ Lose(r) PROVE TypeOK'
  <2>1. CASE Elect(r)
    BY <2>1 DEF Elect, outsideVars
  <2>2. CASE Lose(r)
    <3>1. age' \in [Replicas -> [Jobs -> 0 .. Cooldown]]
      BY <2>2 DEF Lose
    <3>2. /\ position' \in [Replicas -> 1 .. Len(Listing) + 1]
          /\ listed' \in [Replicas -> SUBSET Jobs]
          /\ dispatched' \in [Replicas -> 0 .. MaxJobsPerCycle]
          /\ elapsed' \in [Replicas -> 0 .. Cooldown]
      BY <2>2, LenProperties DEF Lose
    <3> QED
      BY <2>2, <3>1, <3>2 DEF Lose, outsideVars
  <2> QED
    BY <1>1, <2>1, <2>2
<1>2. ASSUME NEW r \in Replicas, StartCycle(r) PROVE TypeOK'
  <2>1. queued \in SUBSET Jobs
    BY DEF queued
  <2>2. Len(Listing) \in Nat
    BY LenProperties
  <2>3. [j \in Jobs |-> Capped(age[r][j] + elapsed[r])] \in [Jobs -> 0 .. Cooldown]
    BY DEF Capped
  <2>4. CASE UNCHANGED <<loop, position, listed, due, dispatched, elapsed, age>>
    BY <1>2, <2>4 DEF StartCycle, outsideVars
  <2>5. CASE ~UNCHANGED <<loop, position, listed, due, dispatched, elapsed, age>>
    <3>1. /\ UNCHANGED <<election, stage, has, losses, calm>>
          /\ tick' = [tick EXCEPT ![r] = FALSE]
          /\ loop' = [loop EXCEPT ![r] = "cycling"]
          /\ position' = [position EXCEPT ![r] = 1]
          /\ listed' = [listed EXCEPT ![r] = queued]
          /\ due' = [due EXCEPT ![r] = FALSE]
          /\ dispatched' = [dispatched EXCEPT ![r] = 0]
          /\ age' = [age EXCEPT ![r] = [j \in Jobs |-> Capped(@[j] + elapsed[r])]]
          /\ elapsed' = [elapsed EXCEPT ![r] = 0]
      BY <1>2, <2>5 DEF StartCycle, outsideVars
    <3>2. age' \in [Replicas -> [Jobs -> 0 .. Cooldown]]
      BY <2>3, <3>1
    <3>3. position' \in [Replicas -> 1 .. Len(Listing) + 1]
      BY <2>2, <3>1
    <3>4. /\ listed' \in [Replicas -> SUBSET Jobs]
          /\ due' \in [Replicas -> BOOLEAN]
          /\ dispatched' \in [Replicas -> 0 .. MaxJobsPerCycle]
          /\ elapsed' \in [Replicas -> 0 .. Cooldown]
          /\ tick' \in [Replicas -> BOOLEAN]
          /\ loop' \in [Replicas -> {"off", "waiting", "cycling"}]
      BY <2>1, <3>1
    <3> QED
      BY <3>1, <3>2, <3>3, <3>4
  <2> QED
    BY <2>4, <2>5
<1>3. ASSUME NEW r \in Replicas, EndCycle(r) PROVE TypeOK'
  BY <1>3 DEF EndCycle, outsideVars
<1>4. ASSUME NEW r \in Replicas, NEW j \in Jobs,
             \/ ReadQueued(r, j) \/ Skip(r, j) \/ Known(r, j)
             \/ DispatchCounts(r, j) \/ DispatchFails(r, j)
      PROVE TypeOK'
  <2>1. At(r, j)
    BY <1>4 DEF ReadQueued, Skip, Known, DispatchCounts, DispatchFails, Due
  <2>2. position[r] + 1 \in 1 .. Len(Listing) + 1
    BY <2>1, LenProperties DEF At
  <2>3. dispatched[r] + 1 \in 0 .. MaxJobsPerCycle
    BY <2>1 DEF At
  <2>4. CASE Skip(r, j)
    BY <2>2, <2>4 DEF Skip, Advance, outsideVars
  <2>5. CASE Known(r, j)
    BY <2>2, <2>5 DEF Known, Advance, MarkChecked, outsideVars
  <2>6. CASE DispatchCounts(r, j)
    BY <2>2, <2>3, <2>6 DEF DispatchCounts, Advance, MarkChecked
  <2>7. CASE DispatchFails(r, j)
    BY <2>2, <2>7 DEF DispatchFails, Advance, MarkChecked, outsideVars
  <2>8. CASE ReadQueued(r, j)
    BY <2>8 DEF ReadQueued, outsideVars
  <2> QED
    BY <1>4, <2>4, <2>5, <2>6, <2>7, <2>8
<1>5. ASSUME NEW j \in Jobs,
             BecomesStale(j) \/ LeavesQueue(j) \/ WebhookDispatches(j) \/ JobLost(j)
      PROVE TypeOK'
  <2>1. /\ UNCHANGED <<election, cycleVars, losses>>
        /\ calm' = calm
        /\ stage' = stage \/ \E s \in {"queued", "gone"} : stage' = [stage EXCEPT ![j] = s]
        /\ has' \in {has, has \cup {j}, has \ {j}}
    BY <1>5 DEF BecomesStale, LeavesQueue, WebhookDispatches, JobLost
  <2>2. stage' \in [Jobs -> {"fresh", "queued", "gone"}]
    BY <2>1
  <2> QED
    BY <2>1, <2>2 DEF cycleVars
<1>6. CASE Tick
  <2>1. elapsed' \in [Replicas -> 0 .. Cooldown]
    BY <1>6 DEF Tick, Capped
  <2>2. tick' \in [Replicas -> BOOLEAN]
    BY <1>6 DEF Tick
  <2> QED
    BY <1>6, <2>1, <2>2 DEF Tick, outsideVars
<1>7. CASE CalmDown
  BY <1>7 DEF CalmDown, cycleVars, outsideVars
<1>8. CASE UNCHANGED vars
  BY <1>8 DEF vars, cycleVars, outsideVars
<1> QED
  BY <1>1, <1>2, <1>3, <1>4, <1>5, <1>6, <1>7, <1>8 DEF Next, Cycle

\* The reconciler's variables keep their types: no cycle goes past its listing
\* or counts more than MaxJobsPerCycle dispatches.
THEOREM ReconcilerTypeCorrect == Spec => []TypeOK
  BY InitTypeOK, NextTypeOK, PTL DEF Spec

-----------------------------------------------------------------------------
(* The cap and the cooldown.                                                 *)

\* The job a cycle has found due is the one it is at, and has no check of late.
DueRight(r) ==
    due[r] => position[r] <= Len(Listing) /\ age[r][Listing[position[r]]] = Cooldown

Rests(r) == dispatched[r] <= Cardinality(Rested(r))

\* Two jobs that a cycle counts are different because the second is not due when
\* it is the first: without DueRight, CapRests is not inductive.
CycleInv == TypeOK /\ \A r \in Replicas : DueRight(r) /\ Rests(r)

\* A part of the listing names finitely many jobs.
LEMMA NamesFinite == ASSUME NEW n \in Int PROVE IsFiniteSet({Listing[i] : i \in 1 .. n})
<1> DEFINE f == [i \in 1 .. n |-> Listing[i]]
           Names == {Listing[i] : i \in 1 .. n}
<1>1. f \in Surjection(1 .. n, Names)
  BY DEF Surjection
<1>2. IsFiniteSet(1 .. n)
  BY FS_Interval
<1> HIDE DEF f, Names
<1>3. IsFiniteSet(Names)
  BY <1>1, <1>2, FS_Surjection
<1> QED
  BY <1>3 DEF Names

\* A cycle has passed finitely many jobs.
LEMMA RestedFinite == ASSUME TypeOK, NEW r \in Replicas PROVE IsFiniteSet(Rested(r))
<1> DEFINE Names == {Listing[i] : i \in 1 .. position[r] - 1}
<1>1. position[r] - 1 \in Int
  BY JobsAssumption, LenProperties DEF TypeOK
<1>2. IsFiniteSet(Names)
  BY <1>1, NamesFinite
<1>3. Rested(r) \subseteq Names
  BY DEF Rested
<1> QED
  BY <1>2, <1>3, FS_Subset

\* What leaves the cycle of r alone.
LEMMA CycleAlone ==
    ASSUME NEW r \in Replicas, DueRight(r), Rests(r),
           position'[r] = position[r], age'[r] = age[r],
           dispatched'[r] = dispatched[r], due'[r] => due[r]
    PROVE  DueRight(r)' /\ Rests(r)'
<1>1. Rested(r)' = Rested(r)
  BY DEF Rested
<1> QED
  BY <1>1 DEF DueRight, Rests

\* A cycle that goes on to the next job without a check keeps what it has.
LEMMA PassKeepsRested ==
    ASSUME TypeOK, NEW r \in Replicas, Rests(r),
           position'[r] = position[r] + 1, age'[r] = age[r],
           dispatched'[r] = dispatched[r], ~due'[r]
    PROVE  DueRight(r)' /\ Rests(r)'
<1>1. DueRight(r)'
  BY DEF DueRight
<1>2. Rested(r) \subseteq Rested(r)'
  <2>1. position[r] \in Int
    BY JobsAssumption, LenProperties DEF TypeOK
  <2> QED
    BY <2>1 DEF Rested
<1>3. IsFiniteSet(Rested(r)')
  <2> DEFINE Names == {Listing[i] : i \in 1 .. position[r]}
  <2>1. position[r] \in Int
    BY JobsAssumption, LenProperties DEF TypeOK
  <2>2. IsFiniteSet(Names)
    BY <2>1, NamesFinite
  <2>3. Rested(r)' \subseteq Names
    BY <2>1 DEF Rested
  <2> HIDE DEF Names
  <2> QED
    BY <2>2, <2>3, FS_Subset
<1>4. Cardinality(Rested(r)) <= Cardinality(Rested(r)')
  BY <1>2, <1>3, FS_Subset
<1>5. /\ Cardinality(Rested(r)) \in Nat
      /\ Cardinality(Rested(r)') \in Nat
      /\ dispatched[r] \in Nat
  BY <1>3, RestedFinite, FS_CardinalityType, BoundsAssumption DEF TypeOK
<1> QED
  BY <1>1, <1>4, <1>5 DEF Rests

\* A cycle that checks the job it is at, and found due, has one more.
LEMMA CheckAddsRested ==
    ASSUME TypeOK, NEW r \in Replicas, NEW j \in Jobs,
           DueRight(r), Rests(r), Due(r, j),
           MarkChecked(r, j), Advance(r),
           dispatched'[r] \in {dispatched[r], dispatched[r] + 1}
    PROVE  DueRight(r)' /\ Rests(r)'
<1>1. /\ position[r] \in Int /\ position[r] >= 1
      /\ Listing[position[r]] = j
      /\ age[r][j] = Cooldown
  BY JobsAssumption, LenProperties DEF TypeOK, Due, At, DueRight
<1>2. /\ position'[r] = position[r] + 1
      /\ age'[r] = [age[r] EXCEPT ![j] = 0]
      /\ ~due'[r]
  BY DEF Advance, MarkChecked, TypeOK
<1>3. DueRight(r)'
  BY <1>2 DEF DueRight
<1>4. Rested(r)' = Rested(r) \cup {j}
  <2>1. ASSUME NEW k \in Jobs
        PROVE  k \in Rested(r)' <=> k \in Rested(r) \cup {j}
    <3>1. \A i \in Int : i \in 1 .. position'[r] - 1 <=> i \in 1 .. position[r] - 1 \/ i = position[r]
      BY <1>1, <1>2
    <3>2. k # j => age'[r][k] = age[r][k]
      BY <1>2 DEF TypeOK
    <3>3. age'[r][j] = 0
      BY <1>2 DEF TypeOK
    <3> QED
      BY <1>1, <3>1, <3>2, <3>3 DEF Rested
  <2> QED
    BY <2>1 DEF Rested
<1>5. j \notin Rested(r)
  BY <1>1, BoundsAssumption DEF Rested
<1>6. Cardinality(Rested(r)') = Cardinality(Rested(r)) + 1
  BY <1>4, <1>5, RestedFinite, FS_AddElement
<1>7. Cardinality(Rested(r)) \in Nat /\ dispatched[r] \in Nat
  BY RestedFinite, FS_CardinalityType, BoundsAssumption DEF TypeOK
<1> QED
  BY <1>3, <1>6, <1>7 DEF Rests

LEMMA InitCycleInv == Init => CycleInv
<1> SUFFICES ASSUME Init, NEW r \in Replicas PROVE DueRight(r) /\ Rests(r)
  BY InitTypeOK DEF CycleInv
<1>1. TypeOK
  BY InitTypeOK
<1>2. Cardinality(Rested(r)) \in Nat
  BY <1>1, RestedFinite, FS_CardinalityType
<1> QED
  BY <1>2 DEF Init, DueRight, Rests

LEMMA NextCycleInv == CycleInv /\ [Next]_vars => CycleInv'
<1> SUFFICES ASSUME CycleInv, [Next]_vars, NEW r \in Replicas
             PROVE  DueRight(r)' /\ Rests(r)'
  BY NextTypeOK DEF CycleInv
<1>1. TypeOK /\ DueRight(r) /\ Rests(r) /\ TypeOK'
  BY NextTypeOK DEF CycleInv
<1>2. ASSUME UNCHANGED <<position, age, dispatched, due>> PROVE DueRight(r)' /\ Rests(r)'
  BY <1>1, <1>2, CycleAlone
<1>3. ASSUME NEW q \in Replicas, StartCycle(q) PROVE DueRight(r)' /\ Rests(r)'
  <2>1. CASE q # r \/ UNCHANGED <<loop, position, listed, due, dispatched, elapsed, age>>
    BY <1>1, <1>3, <2>1, CycleAlone DEF StartCycle, TypeOK
  <2>2. CASE q = r /\ ~UNCHANGED <<loop, position, listed, due, dispatched, elapsed, age>>
    <3>1. dispatched'[r] = 0 /\ ~due'[r] /\ position'[r] = 1
      BY <1>1, <1>3, <2>2 DEF StartCycle, TypeOK
    <3>2. Rested(r)' = {}
      BY <3>1 DEF Rested
    <3> QED
      BY <3>1, <3>2, FS_EmptySet DEF DueRight, Rests
  <2> QED
    BY <2>1, <2>2
<1>4. ASSUME NEW q \in Replicas, NEW j \in Jobs,
             \/ ReadQueued(q, j) \/ Skip(q, j) \/ Known(q, j)
             \/ DispatchCounts(q, j) \/ DispatchFails(q, j)
      PROVE  DueRight(r)' /\ Rests(r)'
  <2>1. CASE q # r
    <3>1. position'[r] = position[r] /\ due'[r] = due[r]
      BY <1>1, <1>4, <2>1
      DEF ReadQueued, Skip, Known, DispatchCounts, DispatchFails, Advance, TypeOK
    <3>2. age'[r] = age[r] /\ dispatched'[r] = dispatched[r]
      BY <1>1, <1>4, <2>1
      DEF ReadQueued, Skip, Known, DispatchCounts, DispatchFails, MarkChecked, TypeOK
    <3> QED
      BY <1>1, <3>1, <3>2, CycleAlone
  <2>2. CASE q = r /\ ReadQueued(q, j)
    <3>1. /\ position' = position /\ age' = age /\ dispatched' = dispatched
          /\ position[r] <= Len(Listing) /\ Listing[position[r]] = j
          /\ ~(age[r][j] < Cooldown)
      BY <2>2 DEF ReadQueued, At, RecentlyChecked
    <3>2. age[r][j] = Cooldown
      BY <1>1, <3>1, BoundsAssumption DEF TypeOK
    <3>3. Rested(r)' = Rested(r)
      BY <3>1 DEF Rested
    <3> QED
      BY <1>1, <3>1, <3>2, <3>3 DEF DueRight, Rests
  <2>3. CASE q = r /\ Skip(q, j)
    BY <1>1, <2>3, PassKeepsRested DEF Skip, Advance, TypeOK
  <2>4. CASE q = r /\ (Known(q, j) \/ DispatchFails(q, j))
    BY <1>1, <2>4, CheckAddsRested DEF Known, DispatchFails
  <2>5. CASE q = r /\ DispatchCounts(q, j)
    BY <1>1, <2>5, CheckAddsRested DEF DispatchCounts, TypeOK
  <2> QED
    BY <1>4, <2>1, <2>2, <2>3, <2>4, <2>5
<1>5. ASSUME NEW q \in Replicas, Elect(q) \/ EndCycle(q)
      PROVE  DueRight(r)' /\ Rests(r)'
  BY <1>2, <1>5 DEF Elect, EndCycle
<1>6. ASSUME NEW j \in Jobs,
             BecomesStale(j) \/ LeavesQueue(j) \/ WebhookDispatches(j) \/ JobLost(j)
      PROVE  DueRight(r)' /\ Rests(r)'
  BY <1>2, <1>6 DEF BecomesStale, LeavesQueue, WebhookDispatches, JobLost, cycleVars
<1>7. CASE Tick \/ CalmDown \/ UNCHANGED vars
  BY <1>2, <1>7 DEF Tick, CalmDown, vars, cycleVars
<1>8. ASSUME NEW q \in Replicas, Lose(q) PROVE DueRight(r)' /\ Rests(r)'
  <2>1. CASE q # r
    BY <1>1, <1>8, <2>1, CycleAlone DEF Lose, TypeOK
  <2>2. CASE q = r
    <3>1. dispatched'[r] = 0 /\ ~due'[r] /\ position'[r] = 1
      BY <1>1, <1>8, <2>2 DEF Lose, TypeOK
    <3>2. Rested(r)' = {}
      BY <3>1 DEF Rested
    <3> QED
      BY <3>1, <3>2, FS_EmptySet DEF DueRight, Rests
  <2> QED
    BY <2>1, <2>2
<1> QED
  BY <1>3, <1>4, <1>5, <1>6, <1>7, <1>8 DEF Next, Cycle

\* CycleInv holds in every reachable state.
LEMMA CycleInvariant == Spec => []CycleInv
  BY InitCycleInv, NextCycleInv, PTL DEF Spec

\* A cycle counts only jobs that it has put to rest, each once, whatever fails,
\* however often a job is listed, and whoever else creates and deletes Jobs: one
\* that ends at its cap leaves as many jobs that later cycles pass over.
THEOREM CapIsOfRestedJobs == Spec => []CapRests
<1>1. CycleInv => CapRests
  BY DEF CycleInv, Rests, CapRests
<1> QED
  BY <1>1, CycleInvariant, PTL

\* Time makes no check younger, and a check is repeated only after a cooldown:
\* the answers that a cycle reads between two looks at a job do not matter.
THEOREM ChecksRestOut == Spec => RestsOut
<1>1. CycleInv /\ [Next]_vars => [RestStep]_vars
  <2> SUFFICES ASSUME CycleInv, Next, NEW r \in Replicas, NEW k \in Jobs,
                      age'[r][k] < age[r][k]
               PROVE  age[r][k] = Cooldown
    BY DEF RestStep
  <2>1. TypeOK /\ DueRight(r)
    BY DEF CycleInv
  <2>2. \A n \in 0 .. Cooldown : ~(n < n)
    BY BoundsAssumption
  <2>3. age[r][k] \in 0 .. Cooldown
    BY <2>1 DEF TypeOK
  <2>4. age' # age
    BY <2>2, <2>3
  <2>5. ASSUME NEW q \in Replicas, StartCycle(q) PROVE FALSE
    <3>1. q = r /\ age'[r][k] = Capped(age[r][k] + elapsed[r])
      <4>1. age' = [age EXCEPT ![q] = [j \in Jobs |-> Capped(@[j] + elapsed[q])]]
        BY <2>4, <2>5 DEF StartCycle
      <4>2. q = r
        BY <2>1, <2>2, <2>3, <4>1 DEF TypeOK
      <4> QED
        BY <2>1, <4>1, <4>2 DEF TypeOK
    <3>2. elapsed[r] \in 0 .. Cooldown
      BY <2>1 DEF TypeOK
    <3> QED
      BY <2>3, <3>1, <3>2, BoundsAssumption DEF Capped
  <2>6. ASSUME NEW q \in Replicas, NEW j \in Jobs,
               Known(q, j) \/ DispatchCounts(q, j) \/ DispatchFails(q, j)
        PROVE  age[r][k] = Cooldown
    <3>1. Due(q, j) /\ MarkChecked(q, j)
      BY <2>6 DEF Known, DispatchCounts, DispatchFails
    <3>2. q = r /\ j = k
      BY <2>1, <2>2, <2>3, <3>1 DEF MarkChecked, TypeOK
    <3> QED
      BY <2>1, <3>1, <3>2 DEF Due, At, DueRight
  <2>7. ASSUME NEW q \in Replicas, Lose(q) PROVE FALSE
    <3>1. age' = [age EXCEPT ![q] = [j \in Jobs |-> Cooldown]]
      BY <2>7 DEF Lose
    <3>2. q = r /\ age'[r][k] = Cooldown
      BY <2>1, <2>2, <2>3, <3>1 DEF TypeOK
    <3> QED
      BY <2>3, <3>2, BoundsAssumption
  <2> QED
    BY <2>4, <2>5, <2>6, <2>7
    DEF Next, Cycle, Elect, EndCycle, ReadQueued, Skip, BecomesStale, LeavesQueue,
        WebhookDispatches, JobLost, Tick, CalmDown, cycleVars
<1> QED
  BY <1>1, CycleInvariant, PTL DEF Spec, RestsOut
=============================================================================
