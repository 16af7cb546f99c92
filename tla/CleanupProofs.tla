--------------------------- MODULE CleanupProofs ---------------------------
(* Proofs about module Cleanup, for every MaxJobs and MaxCrashes: the types, *)
(* and that no healthy Job is deleted for its own state or for a completed   *)
(* event.                                                                    *)
(*                                                                           *)
(* The property follows from Condemned: what a pending call was made for,    *)
(* if it is still there, is no longer healthy.  A new Job cannot make that   *)
(* false since its UID is new (Known), nor can time, GitHub or the pod,      *)
(* which never take a reason back (ReasonStays).                             *)
EXTENDS Cleanup, TLAPS

\* Nobody knows of a Job that is not born.
Known ==
    /\ \A u \in Uids : u > born => pod[u] = "none"
    /\ \A c \in Callers : about[c] <= born
    /\ snapshot <= born

IdleCalls == \A c \in Callers : at[c] = "idle" => about[c] = 0

\* The completed event and the end of the grace follow the completion.
CompletedFirst ==
    /\ graced => github = "completed"
    /\ at["webhook"] # "idle" => github = "completed"

\* What the sweep's list says of the age of a Job it has still got is not undone.
AgedSnapshot == job # 0 /\ snapshot = job /\ agedBy # "young" => age # "young"

Condemned == \A c \in Callers : job # 0 /\ about[c] = job => ~Healthy(job)

IInv ==
    /\ TypeOK /\ Known
    /\ IdleCalls /\ CompletedFirst
    /\ AgedSnapshot /\ Condemned

-----------------------------------------------------------------------------

LEMMA InitTypeOK == Init => TypeOK
<1> SUFFICES ASSUME Init PROVE TypeOK
  OBVIOUS
<1>1. pod \in [Uids -> PodStates]
  BY DEF Init, PodStates
<1>2. at \in [Callers -> {"idle", "called", "unlocked", "listed"}] /\ about \in [Callers -> 0 .. MaxJobs]
  BY CleanupAssumption DEF Init
<1>3. {age, agedBy} \subseteq {"young", "stuck", "old"}
  BY DEF Init
<1>4. born \in 0 .. MaxJobs /\ snapshot \in 0 .. MaxJobs /\ crashes \in 0 .. MaxCrashes
  BY CleanupAssumption DEF Init
<1>5. QED BY <1>1, <1>2, <1>3, <1>4 DEF Init, TypeOK

LEMMA InitInv == Init => IInv
  BY InitTypeOK DEF Init, IInv, Known, IdleCalls, CompletedFirst, AgedSnapshot, Condemned, Callers, Uids

\* A call of CleanupByJobID goes on to another step or returns.
LEMMA GotoTypes ==
  ASSUME TypeOK, NEW c \in Callers, NEW label \in {"idle", "called", "unlocked", "listed"}, Goto(c, label)
  PROVE  /\ at' \in [Callers -> {"idle", "called", "unlocked", "listed"}]
         /\ about' \in [Callers -> 0 .. MaxJobs]
<1>1. at' \in [Callers -> {"idle", "called", "unlocked", "listed"}]
  BY DEF TypeOK, Goto
<1>2. about[c] \in 0 .. MaxJobs /\ 0 \in 0 .. MaxJobs
  BY CleanupAssumption DEF TypeOK
<1>3. about' \in [Callers -> 0 .. MaxJobs]
  BY <1>2 DEF TypeOK, Goto
<1>4. QED BY <1>1, <1>3

\* Types, by the parts of the state an action may change.
LEMMA NextTypeOK == TypeOK /\ [Next]_vars => TypeOK'
<1> SUFFICES ASSUME TypeOK, [Next]_vars PROVE TypeOK'
  OBVIOUS
<1> USE CleanupAssumption
<1> USE DEF Uids, PodStates, githubVars, kubeVars, dispatchVars, callVars, sweepVars, faultVars
<1>1. ASSUME NEW c \in Callers, CleanupByJobID(c) PROVE TypeOK'
  <2>1. CASE CheckLock(c)
    BY <2>1, GotoTypes DEF CheckLock, TypeOK
  <2>2. CASE ListJobs(c)
    BY <2>2, GotoTypes DEF ListJobs, TypeOK
  <2>3. CASE DeleteJob(c)
    BY <2>3, GotoTypes DEF DeleteJob, TypeOK
  <2>4. QED BY <1>1, <2>1, <2>2, <2>3 DEF CleanupByJobID
<1>2. CASE Completed
  BY <1>2 DEF Completed, Call, TypeOK, Callers
<1>3. CASE SweepLists
  BY <1>3 DEF SweepLists, TypeOK
<1>4. CASE SweepChecksLock
  BY <1>4 DEF SweepChecksLock, SweepIdle, TypeOK
<1>5. CASE SweepCalls
  BY <1>5 DEF SweepCalls, SweepIdle, Call, TypeOK, Callers
<1>6. CASE SweepPasses
  <2>1. {age, agedBy}' \subseteq {"young", "stuck", "old"}
    BY <1>6 DEF SweepPasses, SweepIdle, TypeOK
  <2>2. ghCache' \in BOOLEAN
    BY <1>6 DEF SweepPasses, TypeOK
  <2>3. sweep' = "idle" /\ snapshot' \in 0 .. MaxJobs
    BY <1>6 DEF SweepPasses, SweepIdle
  <2>4. UNCHANGED <<github, graced, job, born, pod, dispatch, lock, at, about, exitSeen, crashes, calm>>
    BY <1>6 DEF SweepPasses
  <2>5. QED BY <2>1, <2>2, <2>3, <2>4 DEF TypeOK
<1>7. CASE CacheExpires
  BY <1>7 DEF CacheExpires, TypeOK
<1>8. CASE DispatchLocks
  BY <1>8 DEF DispatchLocks, TypeOK
<1>9. CASE DispatchCreates
  BY <1>9 DEF DispatchCreates, TypeOK
<1>10. CASE DispatchReturns \/ LeaseExpires
  BY <1>10 DEF DispatchReturns, LeaseExpires, TypeOK
<1>11. CASE Crash
  <2>1. at' \in [Callers -> {"idle", "called", "unlocked", "listed"}] /\ about' \in [Callers -> 0 .. MaxJobs]
    BY <1>11 DEF Crash
  <2>2. crashes' \in 0 .. MaxCrashes
    BY <1>11 DEF Crash, TypeOK
  <2>3. {age, agedBy}' \subseteq {"young", "stuck", "old"}
    BY <1>11 DEF Crash, SweepIdle, TypeOK
  <2>4. exitSeen' = {} /\ sweep' = "idle" /\ snapshot' = 0 /\ ghCache' = FALSE
    BY <1>11 DEF Crash, SweepIdle
  <2>5. dispatch' = "idle" /\ UNCHANGED <<github, graced, job, born, pod, lock, calm>>
    BY <1>11 DEF Crash
  <2>6. snapshot' \in 0 .. MaxJobs
    BY <2>4
  <2>7. exitSeen' \subseteq Uids /\ ghCache' \in BOOLEAN
    <3>1. exitSeen' \subseteq Uids
      BY <2>4
    <3>2. ghCache' \in BOOLEAN
      BY <2>4
    <3>3. QED BY <3>1, <3>2
  <2>8. QED BY <2>1, <2>2, <2>3, <2>4, <2>5, <2>6, <2>7 DEF TypeOK
<1>12. ASSUME NEW u \in Uids, RunnerExit(u) PROVE TypeOK'
  BY <1>12 DEF RunnerExit, Call, TypeOK, Callers
<1>13. ASSUME NEW u \in Uids, PickUp(u) PROVE TypeOK'
  BY <1>13 DEF PickUp, TypeOK
<1>14. ASSUME NEW u \in Uids, PodStep(u) PROVE TypeOK'
  BY <1>14 DEF PodStep, TypeOK
<1>15. CASE GrowOld \/ Complete \/ GraceOver
  BY <1>15 DEF GrowOld, Complete, GraceOver, TypeOK
<1>16. CASE TTLDeletes \/ CalmDown
  BY <1>16 DEF TTLDeletes, CalmDown, TypeOK
<1>17. CASE UNCHANGED vars
  BY <1>17 DEF vars, TypeOK
<1>18. QED
  BY <1>1, <1>2, <1>3, <1>4, <1>5, <1>6, <1>7, <1>8, <1>9, <1>10, <1>11, <1>12, <1>13, <1>14,
     <1>15, <1>16, <1>17 DEF Next, SweepStep, DispatchStep

\* A Job that stays does not become healthy again: its age only grows, a
\* workflow job stays completed and a pod keeps the mark of what befell it.
LEMMA ReasonStays ==
  ASSUME TypeOK, job # 0, ~Healthy(job), [Next]_vars, job' = job
  PROVE  ~Healthy(job)'
<1> USE DEF Healthy
<1> USE DEF githubVars, kubeVars
<1>0. job \in Uids
  BY CleanupAssumption DEF TypeOK, Uids
<1>1. ASSUME NEW c \in Callers, CleanupByJobID(c) PROVE ~Healthy(job)'
  BY <1>1 DEF CleanupByJobID, CheckLock, ListJobs, DeleteJob
<1>2. CASE Completed \/ SweepStep \/ CacheExpires
  BY <1>2 DEF Completed, SweepStep, SweepLists, SweepChecksLock, SweepCalls, SweepPasses, CacheExpires
<1>3. CASE DispatchLocks \/ DispatchReturns \/ LeaseExpires \/ Crash
  BY <1>3 DEF DispatchLocks, DispatchReturns, LeaseExpires, Crash
<1>4. CASE DispatchCreates
  BY <1>4 DEF DispatchCreates
<1>5. ASSUME NEW u \in Uids, RunnerExit(u) \/ PickUp(u) PROVE ~Healthy(job)'
  BY <1>5 DEF RunnerExit, PickUp
<1>6. ASSUME NEW u \in Uids, PodStep(u) PROVE ~Healthy(job)'
  BY <1>0, <1>6 DEF PodStep, TypeOK
<1>7. CASE GrowOld \/ Complete \/ GraceOver
  BY <1>7 DEF GrowOld, Complete, GraceOver
<1>8. CASE TTLDeletes \/ CalmDown
  BY <1>8 DEF TTLDeletes, CalmDown
<1>9. CASE UNCHANGED vars
  BY <1>9 DEF vars
<1>10. QED
  BY <1>1, <1>2, <1>3, <1>4, <1>5, <1>6, <1>7, <1>8, <1>9 DEF Next, DispatchStep

-----------------------------------------------------------------------------

\* What is known of Jobs stays bounded by the latest one.
LEMMA NextKnown ==
  ASSUME TypeOK, Known, [Next]_vars
  PROVE  Known'
<1> USE DEF githubVars, kubeVars, dispatchVars, callVars, sweepVars, faultVars
<1>0. job \in {0, born} /\ born \in Nat
  BY CleanupAssumption DEF TypeOK
<1>1. ASSUME NEW c \in Callers, CleanupByJobID(c) PROVE Known'
  <2>1. \E label \in {"idle", "unlocked", "listed"} : Goto(c, label)
    BY <1>1 DEF CleanupByJobID, CheckLock, ListJobs, DeleteJob
  <2>2. UNCHANGED <<born, pod, snapshot>>
    BY <1>1 DEF CleanupByJobID, CheckLock, ListJobs, DeleteJob
  <2>3. QED BY <1>0, <2>1, <2>2 DEF Goto, Known, TypeOK
<1>2. ASSUME NEW c \in Callers, NEW u \in {0} \cup Uids, Call(c, u), u <= born,
             UNCHANGED <<born, pod>>, snapshot' \in {0, snapshot}
      PROVE  Known'
  BY <1>0, <1>2 DEF Call, Known, TypeOK
<1>3. CASE Completed
  BY <1>0, <1>2, <1>3 DEF Completed, Callers
<1>4. CASE SweepLists \/ SweepChecksLock \/ SweepPasses \/ CacheExpires
  BY <1>0, <1>4 DEF SweepLists, SweepChecksLock, SweepPasses, CacheExpires, SweepIdle, Known
<1>5. CASE SweepCalls
  <2>1. PICK u \in Uids : (ReasonIn(u) \/ (u = snapshot /\ StuckContainer)) /\ Call("sweep", u)
    BY <1>5 DEF SweepCalls
  <2>2. u \in Pods => u <= born
    BY <1>0, <2>1 DEF Pods, Known, Uids
  <2>3. u <= born
    BY <2>1, <2>2 DEF ReasonIn, Known
  <2>4. QED BY <1>2, <1>5, <2>1, <2>3 DEF SweepCalls, SweepIdle, Callers
<1>6. CASE DispatchCreates
  BY <1>0, <1>6 DEF DispatchCreates, Known, TypeOK, Uids
<1>7. CASE DispatchLocks \/ DispatchReturns \/ LeaseExpires
  BY <1>7 DEF DispatchLocks, DispatchReturns, LeaseExpires, Known
<1>8. CASE Crash
  BY <1>0, <1>8 DEF Crash, SweepIdle, Known
<1>9. ASSUME NEW u \in Uids, RunnerExit(u) PROVE Known'
  <2>1. u <= born
    BY <1>0, <1>9 DEF RunnerExit, RunnerCleanupReason, Known, Uids
  <2>2. QED BY <1>2, <1>9, <2>1 DEF RunnerExit, Callers
<1>10. ASSUME NEW u \in Uids, PickUp(u) PROVE Known'
  BY <1>10 DEF PickUp, Known
<1>11. ASSUME NEW u \in Uids, PodStep(u) PROVE Known'
  <2>1. u <= born /\ UNCHANGED <<born, about, snapshot>>
    BY <1>11 DEF PodStep
  <2>2. \A v \in Uids \ {u} : pod'[v] = pod[v]
    BY <1>11 DEF PodStep, TypeOK
  <2>3. QED BY <1>0, <2>1, <2>2 DEF Known, Uids
<1>12. CASE GrowOld \/ Complete \/ GraceOver \/ TTLDeletes \/ CalmDown
  BY <1>12 DEF GrowOld, Complete, GraceOver, TTLDeletes, CalmDown, Known
<1>13. CASE UNCHANGED vars
  BY <1>13 DEF vars, Known
<1>14. QED
  BY <1>1, <1>3, <1>4, <1>5, <1>6, <1>7, <1>8, <1>9, <1>10, <1>11, <1>12, <1>13
     DEF Next, SweepStep, DispatchStep

\* A completed workflow job stays completed.
LEMMA CompletedStays == github = "completed" /\ [Next]_vars => github' = "completed"
  BY DEF Next, vars, githubVars, CleanupByJobID, CheckLock, ListJobs, DeleteJob, Completed, SweepStep,
         SweepLists, SweepChecksLock, SweepCalls, SweepPasses, CacheExpires, DispatchLocks,
         DispatchStep, DispatchCreates, DispatchReturns, LeaseExpires, Crash, RunnerExit, PickUp,
         PodStep, GrowOld, Complete, GraceOver, TTLDeletes, CalmDown

\* The state of a caller is what it was, what a call or a step of the cleanup
\* makes it, or that of a restarted scheduler.
LEMMA CallSteps ==
  ASSUME TypeOK, [Next]_vars
  PROVE  \/ UNCHANGED callVars
         \/ \E c \in Callers : \E label \in {"idle", "unlocked", "listed"} : Goto(c, label) /\ at[c] # "idle"
         \/ Completed \/ SweepCalls \/ \E u \in Uids : RunnerExit(u)
         \/ Crash
<1>1. ASSUME NEW c \in Callers, CleanupByJobID(c)
      PROVE  \E label \in {"idle", "unlocked", "listed"} : Goto(c, label) /\ at[c] # "idle"
  BY <1>1 DEF CleanupByJobID, CheckLock, ListJobs, DeleteJob
<1>2. CASE SweepLists \/ SweepChecksLock \/ SweepPasses \/ CacheExpires \/ UNCHANGED vars
  BY <1>2 DEF SweepLists, SweepChecksLock, SweepPasses, CacheExpires, vars, callVars
<1>3. CASE DispatchLocks \/ DispatchStep \/ LeaseExpires
  BY <1>3 DEF DispatchLocks, DispatchStep, DispatchCreates, DispatchReturns, LeaseExpires, callVars
<1>4. ASSUME NEW u \in Uids, PickUp(u) \/ PodStep(u) PROVE UNCHANGED callVars
  BY <1>4 DEF PickUp, PodStep, callVars
<1>5. CASE GrowOld \/ Complete \/ GraceOver \/ TTLDeletes \/ CalmDown
  BY <1>5 DEF GrowOld, Complete, GraceOver, TTLDeletes, CalmDown, callVars
<1>6. QED BY <1>1, <1>2, <1>3, <1>4, <1>5 DEF Next, SweepStep

-----------------------------------------------------------------------------

\* A call in progress has not lost its reason: it had one when it was made
\* (RunnerExit, SweepCalls), and ReasonStays.
LEMMA NextCondemned ==
  ASSUME IInv, [Next]_vars
  PROVE  Condemned'
<1> USE DEF IInv
<1>0. /\ job \in {0, born} /\ born \in Nat
      /\ \A c \in Callers : about[c] <= born /\ about[c] \in Nat
  BY CleanupAssumption DEF TypeOK, Known
<1>1. job' = job \/ job' = 0 \/ DispatchCreates
  BY DEF Next, vars, githubVars, kubeVars, CleanupByJobID, CheckLock, ListJobs, DeleteJob, Completed, SweepStep,
         SweepLists, SweepChecksLock, SweepCalls, SweepPasses, CacheExpires, DispatchLocks,
         DispatchStep, DispatchReturns, LeaseExpires, Crash, RunnerExit, PickUp,
         PodStep, GrowOld, Complete, GraceOver, TTLDeletes, CalmDown
<1>2. CASE DispatchCreates
  BY <1>0, <1>2 DEF DispatchCreates, callVars, Condemned
<1>3. CASE job' = 0
  BY <1>3 DEF Condemned
<1>4. ASSUME job' = job, job # 0 PROVE Condemned'
  <2>1. SUFFICES ASSUME NEW c \in Callers, about'[c] = job PROVE ~Healthy(job)'
    BY <1>4 DEF Condemned
  <2>2. CASE about[c] = job
    BY <1>4, <2>2, ReasonStays DEF Condemned
  <2>3. CASE about[c] # job
    <3>1. Completed \/ SweepCalls \/ \E u \in Uids : RunnerExit(u)
      <4>1. ~UNCHANGED callVars
        BY <2>1, <2>3 DEF callVars
      <4>2. ASSUME NEW d \in Callers, NEW label \in {"idle", "unlocked", "listed"}, Goto(d, label) PROVE FALSE
        BY <1>4, <2>1, <2>3, <4>2 DEF Goto, TypeOK
      <4>3. ~Crash
        BY <1>4, <2>1 DEF Crash
      <4>4. QED BY <4>1, <4>2, <4>3, CallSteps
    <3>2. CASE Completed
      BY <1>4, <2>1, <2>3, <3>2 DEF Completed, Call, TypeOK, Callers
    <3>3. CASE SweepCalls
      <4>1. PICK u \in Uids : (ReasonIn(u) \/ (u = snapshot /\ StuckContainer)) /\ Call("sweep", u)
        BY <3>3 DEF SweepCalls
      <4>2. u = job
        BY <2>1, <2>3, <4>1 DEF Call, TypeOK, Callers
      <4>3. ~Healthy(job)
        BY <1>4, <4>1, <4>2 DEF ReasonIn, RunnerCleanupReason, Healthy, StuckReason, StuckContainer,
             GithubReason, AgedSnapshot
      <4>4. QED BY <1>4, <4>3, ReasonStays
    <3>4. ASSUME NEW u \in Uids, RunnerExit(u) PROVE ~Healthy(job)'
      <4>1. u = job
        BY <2>1, <2>3, <3>4 DEF RunnerExit, Call, TypeOK, Callers
      <4>2. ~Healthy(job)
        BY <3>4, <4>1 DEF RunnerExit, RunnerCleanupReason, Healthy
      <4>3. QED BY <1>4, <4>2, ReasonStays
    <3>5. QED BY <3>1, <3>2, <3>3, <3>4
  <2>4. QED BY <2>2, <2>3
<1>5. QED BY <1>1, <1>2, <1>3, <1>4

LEMMA NextIdleCalls ==
  ASSUME TypeOK, IdleCalls, [Next]_vars
  PROVE  IdleCalls'
<1>1. CASE UNCHANGED callVars
  BY <1>1 DEF IdleCalls, callVars
<1>2. ASSUME NEW c \in Callers, NEW label \in {"idle", "unlocked", "listed"}, Goto(c, label) PROVE IdleCalls'
  BY <1>2 DEF IdleCalls, Goto, TypeOK
<1>3. ASSUME NEW c \in Callers, NEW u, Call(c, u) PROVE IdleCalls'
  BY <1>3 DEF IdleCalls, Call, TypeOK
<1>4. CASE Completed \/ SweepCalls \/ \E u \in Uids : RunnerExit(u)
  BY <1>3, <1>4 DEF Completed, SweepCalls, RunnerExit, Callers
<1>5. CASE Crash
  BY <1>5 DEF Crash, IdleCalls
<1>6. QED BY <1>1, <1>2, <1>4, <1>5, CallSteps

LEMMA NextCompletedFirst ==
  ASSUME TypeOK, CompletedFirst, [Next]_vars
  PROVE  CompletedFirst'
<1>1. graced' = graced \/ github = "completed"
  BY DEF Next, vars, githubVars, CleanupByJobID, CheckLock, ListJobs, DeleteJob, Completed, SweepStep,
         SweepLists, SweepChecksLock, SweepCalls, SweepPasses, CacheExpires, DispatchLocks,
         DispatchStep, DispatchCreates, DispatchReturns, LeaseExpires, Crash, RunnerExit, PickUp,
         PodStep, GrowOld, Complete, GraceOver, TTLDeletes, CalmDown
<1>2. at'["webhook"] # "idle" => at["webhook"] # "idle" \/ github = "completed"
  <2>1. CASE UNCHANGED callVars
    BY <2>1 DEF callVars
  <2>2. ASSUME NEW c \in Callers, NEW label \in {"idle", "unlocked", "listed"}, Goto(c, label), at[c] # "idle"
        PROVE  at'["webhook"] # "idle" => at["webhook"] # "idle"
    BY <2>2 DEF Goto, TypeOK
  <2>3. CASE SweepCalls \/ \E u \in Uids : RunnerExit(u)
    <3>1. PICK c \in {"sweep", "exit"} : at' = [at EXCEPT ![c] = "called"]
      BY <2>3 DEF SweepCalls, RunnerExit, Call
    <3>2. QED BY <3>1 DEF TypeOK, Callers
  <2>4. CASE Completed
    BY <2>4 DEF Completed
  <2>5. CASE Crash
    BY <2>5 DEF Crash, Callers
  <2>6. QED BY <2>1, <2>2, <2>3, <2>4, <2>5, CallSteps
<1>3. QED BY <1>1, <1>2, CompletedStays DEF CompletedFirst

LEMMA NextAgedSnapshot ==
  ASSUME TypeOK, Known, AgedSnapshot, [Next]_vars
  PROVE  AgedSnapshot'
<1> USE DEF kubeVars, sweepVars
<1>0. job \in {0, born} /\ born \in Nat /\ snapshot \in Nat /\ snapshot <= born
  BY CleanupAssumption DEF TypeOK, Known
<1>1. CASE DispatchCreates
  BY <1>0, <1>1 DEF DispatchCreates, AgedSnapshot
<1>2. CASE SweepLists
  BY <1>2 DEF SweepLists, AgedSnapshot
<1>3. CASE SweepChecksLock \/ SweepCalls \/ SweepPasses \/ Crash
  BY <1>3 DEF SweepChecksLock, SweepCalls, SweepPasses, Crash, SweepIdle, AgedSnapshot
<1>4. ASSUME NEW c \in Callers, CleanupByJobID(c) PROVE AgedSnapshot'
  BY <1>4 DEF CleanupByJobID, CheckLock, ListJobs, DeleteJob, AgedSnapshot
<1>5. CASE CacheExpires \/ Completed \/ DispatchLocks \/ DispatchReturns \/ LeaseExpires
  BY <1>5 DEF CacheExpires, Completed, DispatchLocks, DispatchReturns, LeaseExpires, AgedSnapshot
<1>6. ASSUME NEW u \in Uids, RunnerExit(u) \/ PickUp(u) \/ PodStep(u) PROVE AgedSnapshot'
  BY <1>6 DEF RunnerExit, PickUp, PodStep, AgedSnapshot
<1>7. CASE GrowOld \/ Complete \/ GraceOver \/ TTLDeletes \/ CalmDown
  BY <1>7 DEF GrowOld, Complete, GraceOver, TTLDeletes, CalmDown, AgedSnapshot
<1>8. CASE UNCHANGED vars
  BY <1>8 DEF vars, AgedSnapshot
<1>9. QED
  BY <1>1, <1>2, <1>3, <1>4, <1>5, <1>6, <1>7, <1>8 DEF Next, SweepStep, DispatchStep

LEMMA NextInv == IInv /\ [Next]_vars => IInv'
  BY NextTypeOK, NextKnown, NextIdleCalls, NextCompletedFirst, NextAgedSnapshot, NextCondemned DEF IInv

\* A call that deletes is listed, hence not idle: the completed event means the
\* workflow job is completed, and any other call is about a condemned Job.
LEMMA InvDeletedForItsOwn == IInv => DeletedForItsOwn
  BY DEF IInv, DeletedForItsOwn, Deletes, Healthy, CompletedFirst, Condemned

\* No call and no sweep knows a Job that has not been created, and the other
\* variables keep their types, whatever fails.
THEOREM CleanupTypeCorrect == Spec => []TypeOK
<1>1. IInv => TypeOK
  BY DEF IInv
<1>2. QED BY <1>1, InitInv, NextInv, PTL DEF Spec

\* A healthy Job is never deleted for the completed event nor for what the
\* caller saw of that Job, whoever deletes it and however late.
THEOREM CleanupOwnReason == Spec => OwnReasonHolds
<1>1. IInv /\ [Next]_vars => [DeletedForItsOwn]_vars
  BY InvDeletedForItsOwn
<1>2. QED BY <1>1, InitInv, NextInv, PTL DEF Spec, OwnReasonHolds

-----------------------------------------------------------------------------
\* A step of the dispatch, or a deletion of the Job, is a step of the abstract
\* dispatch; all others leave its variables alone.
LEMMA OutsideStep ==
  ASSUME TypeOK, [Next]_vars
  PROVE  [Outside!DispatchNext]_(Outside!dispatchVars)
<1> USE DEF Outside!DispatchNext, Outside!dispatchVars, Outside!vars
<1>0. lock \in BOOLEAN /\ dispatch \in {"idle", "locked", "created"} /\ (job # 0 => job \in Nat)
  BY CleanupAssumption DEF TypeOK
<1>1. ASSUME UNCHANGED <<dispatch, lock>>, job' = job \/ job' = 0
      PROVE  [Outside!DispatchNext]_(Outside!dispatchVars)
  <2>1. CASE job # 0 /\ job' = 0
    <3>1. Outside!Delete
      BY <1>1, <2>1 DEF Outside!Delete
    <3>2. QED BY <3>1
  <2>2. CASE ~(job # 0 /\ job' = 0)
    BY <1>1, <2>2
  <2>3. QED BY <2>1, <2>2
<1>2. CASE DispatchLocks
  <2>1. dispatch = "idle" /\ ~lock /\ dispatch' = "locked" /\ lock' /\ job' = job
    BY <1>2 DEF DispatchLocks, kubeVars
  <2>2. Outside!Claim("dispatch")
    BY <2>1 DEF Outside!Claim, Outside!Acquire
  <2>3. QED BY <2>2
<1>3. CASE DispatchCreates
  <2>1. /\ dispatch # "idle" /\ dispatch' # "idle" /\ lock' = lock
        /\ job = 0 /\ job' = born + 1 /\ born \in Nat
    BY <1>3, CleanupAssumption DEF DispatchCreates, TypeOK
  <2>2. job' # 0
    BY <2>1
  <2>3. Outside!Create
    BY <2>1, <2>2 DEF Outside!Create
  <2>4. QED BY <2>3
<1>4. ASSUME dispatch # "idle", dispatch' = "idle", job' = job, ~lock' \/ lock' = lock
      PROVE  [Outside!DispatchNext]_(Outside!dispatchVars)
  <2>1. Outside!Leave({"dispatch"})
    BY <1>4 DEF Outside!Leave
  <2>2. lock' \in {lock, FALSE}
    <3>1. CASE ~lock'
      <4>1. lock' = FALSE
        BY <3>1
      <4>2. QED BY <4>1
    <3>2. CASE lock' = lock
      BY <3>2
    <3>3. QED BY <1>4, <3>1, <3>2
  <2>3. Outside!Return({"dispatch"})
    BY <1>4, <2>1, <2>2 DEF Outside!Return
  <2>4. {"dispatch"} \in SUBSET (IF dispatch = "idle" THEN {} ELSE {"dispatch"})
    BY <1>4
  <2>5. QED BY <2>3, <2>4
<1>5. CASE DispatchReturns
  BY <1>4, <1>5 DEF DispatchReturns, kubeVars
<1>6. CASE LeaseExpires
  <2>1. lock /\ ~lock' /\ dispatch' = dispatch /\ job' = job
    BY <1>6 DEF LeaseExpires, kubeVars
  <2>2. Outside!Expire
    BY <2>1 DEF Outside!Expire
  <2>3. QED BY <2>2
<1>7. CASE Crash
  <2>1. dispatch' = "idle" /\ lock' = lock /\ job' = job
    BY <1>7 DEF Crash, kubeVars
  <2>2. QED BY <1>1, <1>4, <2>1
<1>8. ASSUME NEW c \in Callers, CleanupByJobID(c) PROVE [Outside!DispatchNext]_(Outside!dispatchVars)
  BY <1>1, <1>8 DEF CleanupByJobID, CheckLock, ListJobs, DeleteJob, kubeVars, dispatchVars
<1>9. CASE \/ Completed \/ SweepStep \/ CacheExpires \/ GrowOld \/ Complete \/ GraceOver
           \/ TTLDeletes \/ CalmDown \/ UNCHANGED vars
  BY <1>1, <1>9
  DEF Completed, SweepStep, SweepLists, SweepChecksLock, SweepCalls, SweepPasses, CacheExpires,
      GrowOld, Complete, GraceOver, TTLDeletes, CalmDown, vars, kubeVars, dispatchVars
<1>10. ASSUME NEW u \in Uids, RunnerExit(u) \/ PickUp(u) \/ PodStep(u)
       PROVE  [Outside!DispatchNext]_(Outside!dispatchVars)
  BY <1>1, <1>10 DEF RunnerExit, PickUp, PodStep, kubeVars, dispatchVars
<1>11. QED
  BY <1>2, <1>3, <1>5, <1>6, <1>7, <1>8, <1>9, <1>10 DEF Next, DispatchStep

\* The dispatch that the cleanups race with keeps to the specification that
\* Dispatcher implements too, for any number of Jobs and crashes.
THEOREM CleanupMeetsDispatch == Spec => ImplementsAbstractDispatch
<1>1. Init => Outside!DispatchInit
  BY DEF Init, Outside!DispatchInit, Outside!Init
<1>2. IInv /\ [Next]_vars => [Outside!DispatchNext]_(Outside!dispatchVars)
  BY OutsideStep DEF IInv
<1>3. QED
  BY <1>1, <1>2, InitInv, NextInv, PTL DEF Spec, ImplementsAbstractDispatch, Outside!DispatchSpec
=============================================================================
