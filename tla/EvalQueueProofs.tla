--------------------------- MODULE EvalQueueProofs ---------------------------
(***************************************************************************)
(* Proofs about EvalQueue for every number of jobs, promoting threads,     *)
(* pairs, slots and failures, and that it implements EvalJobs.             *)
(***************************************************************************)
EXTENDS EvalQueue, FiniteSetTheorems, TLAPS

USE DEF ActiveStatus, FinalStatus, ActorPc, PromotePc, NoJob

-----------------------------------------------------------------------------
(* Types.                                                                  *)

\* Every variable has its type, in every behaviour of the queue.
THEOREM TypeCorrect == Spec => []TypeOK
<1>1. Init => TypeOK
  BY BoundAssumption DEF Init, TypeOK, Jobs
<1>2. TypeOK /\ [Next]_vars => TypeOK'
  <2> SUFFICES ASSUME TypeOK, [Next]_vars
               PROVE  TypeOK'
    OBVIOUS
  <2> USE DEF jobVars, counters, actorVars, watchVars, promoteVars, failVars
  <2>1. ASSUME NEW p \in Procs, NEW c \in Contests, Trigger(p, c)
        PROVE  TypeOK'
    <3>1. created' \in Jobs /\ created' \in 0 .. MaxJobs
      BY <2>1, BoundAssumption DEF Trigger, TypeOK, Jobs
    <3>2. QED
      BY <2>1, <3>1 DEF Trigger, Call, TypeOK
  <2>2. ASSUME NEW p \in Procs, NEW j \in Jobs, Cancel(p, j)
        PROVE  TypeOK'
    BY <2>2 DEF Cancel, Call, Active, TypeOK
  <2>3. ASSUME NEW p \in Procs, NEW n \in SlotLimits, SetMax(p, n)
        PROVE  TypeOK'
    BY <2>3 DEF SetMax, Call, TypeOK
  <2>4. ASSUME NEW p \in Procs, ReadMax(p)
        PROVE  TypeOK'
    BY <2>4, SlotAssumption DEF ReadMax, Goto, PromoteKeeps, TypeOK
  <2>5. ASSUME NEW p \in Procs, CountRunning(p)
        PROVE  TypeOK'
    BY <2>5 DEF CountRunning, Goto, Return, PromoteKeeps, TypeOK
  <2>6. ASSUME NEW p \in Procs, PickQueued(p)
        PROVE  TypeOK'
    BY <2>6 DEF PickQueued, Candidates, Goto, Return, PromoteKeeps, TypeOK
  <2>7. ASSUME NEW p \in Procs, CommitRunning(p)
        PROVE  TypeOK'
    BY <2>7 DEF CommitRunning, Goto, PromoteKeeps, TypeOK
  <2>8. ASSUME NEW p \in Procs, SendRun(p)
        PROVE  TypeOK'
    BY <2>8 DEF SendRun, Goto, PromoteKeeps, TypeOK
  <2>9. ASSUME NEW p \in Procs, LoseDispatch(p)
        PROVE  TypeOK'
    BY <2>9 DEF LoseDispatch, Fault, Goto, Return, PromoteKeeps, TypeOK
  <2>10. ASSUME NEW p \in Procs, PromoteRaises(p)
        PROVE  TypeOK'
    BY <2>10 DEF PromoteRaises, Fault, Goto, Return, PromoteKeeps, TypeOK
  <2>11. ASSUME NEW j \in Jobs, Deliver(j)
        PROVE  TypeOK'
    BY <2>11 DEF Deliver, ActorGoto, Active, TypeOK
  <2>12. ASSUME NEW j \in Jobs, MarkStarted(j)
        PROVE  TypeOK'
    BY <2>12 DEF MarkStarted, ActorGoto, Active, TypeOK
  <2>13. ASSUME NEW j \in Jobs, NEW k \in 0 .. MaxPairs, BuildPending(j, k)
        PROVE  TypeOK'
    BY <2>13 DEF BuildPending, ActorGoto, TypeOK
  <2>14. ASSUME NEW p \in Procs, NEW j \in Jobs, FinishEmpty(p, j)
        PROVE  TypeOK'
    BY <2>14 DEF FinishEmpty, ActorGoto, Call, TypeOK
  <2>15. ASSUME NEW j \in Jobs, Submit(j)
        PROVE  TypeOK'
    BY <2>15 DEF Submit, ActorGoto, Active, TypeOK
  <2>16. ASSUME NEW j \in Jobs, StartPair(j)
        PROVE  TypeOK'
    BY <2>16 DEF StartPair, Active, TypeOK
  <2>17. ASSUME NEW j \in Jobs, NEW ok \in BOOLEAN, CountPair(j, ok)
        PROVE  TypeOK'
    BY <2>17 DEF CountPair, EndPair, TypeOK
  <2>18. ASSUME NEW p \in Procs, NEW j \in Jobs, NEW ok \in BOOLEAN, CountLastPair(p, j, ok)
        PROVE  TypeOK'
    BY <2>18 DEF CountLastPair, EndPair, Completes, Call, TypeOK
  <2>19. ASSUME NEW j \in Jobs, LoseCount(j)
        PROVE  TypeOK'
    BY <2>19 DEF LoseCount, Fault, TypeOK
  <2>20. ASSUME NEW j \in Jobs, JoinPool(j)
        PROVE  TypeOK'
    BY <2>20 DEF JoinPool, Fault, ActorGoto, Drained, TypeOK
  <2>21. ASSUME NEW j \in Jobs, Ack(j)
        PROVE  TypeOK'
    BY <2>21 DEF Ack, ActorGoto, Drained, TypeOK
  <2>22. ASSUME NEW j \in Jobs, ActorError(j)
        PROVE  TypeOK'
    BY <2>22 DEF ActorError, Fault, ActorGoto, TypeOK
  <2>23. ASSUME NEW p \in Procs, NEW j \in Jobs, FailJob(p, j)
        PROVE  TypeOK'
    BY <2>23 DEF FailJob, ActorGoto, Call, Drained, TypeOK
  <2>24. ASSUME NEW j \in Jobs, TimeLimit(j)
        PROVE  TypeOK'
    BY <2>24 DEF TimeLimit, Fault, ActorGoto, TypeOK
  <2>25. ASSUME NEW j \in Jobs, Crash(j)
        PROVE  TypeOK'
    BY <2>25 DEF Crash, Fault, ActorGoto, TypeOK
  <2>26. ASSUME NEW j \in Jobs, ReadStuck(j)
        PROVE  TypeOK'
    BY <2>26 DEF ReadStuck, Active, TypeOK
  <2>27. ASSUME NEW p \in Procs, NEW j \in Jobs, Finalize(p, j)
        PROVE  TypeOK'
    BY <2>27 DEF Finalize, Active, Call, TypeOK
  <2>28. ASSUME NEW j \in Jobs, CrashWatchdog(j)
        PROVE  TypeOK'
    BY <2>28 DEF CrashWatchdog, Fault, TypeOK
  <2>29. CASE UNCHANGED vars
    BY <2>29 DEF vars, TypeOK
  <2> QED
    BY <2>1, <2>2, <2>3, <2>4, <2>5, <2>6, <2>7, <2>8, <2>9, <2>10,
       <2>11, <2>12, <2>13, <2>14, <2>15, <2>16, <2>17, <2>18, <2>19, <2>20,
       <2>21, <2>22, <2>23, <2>24, <2>25, <2>26, <2>27, <2>28, <2>29
    DEF Next, Views, Promote, Actor, ActorEnds, Failure
<1>3. QED
  BY <1>1, <1>2, PTL DEF Spec

-----------------------------------------------------------------------------
(* Who works on a job.                                                     *)

\* No message, actor or watchdog exists for j.
Untouched(j) ==
  /\ j \notin broker /\ apc[j] = "idle"
  /\ j \notin watchdogs /\ wpc[j] = "idle"

\* A promotion works on the row it locked while the row is queued, and sends
\* the message of a row that it made running; the actor that calls it has
\* ended its job.
PromotionInv ==
  /\ \A p \in Procs : ppc[p] = "lock" => status[pjob[p]] = "queued"
  /\ \A p \in Procs : ppc[p] = "send" => status[pjob[p]] \notin {"none", "queued"}
  /\ \A p \in Procs : ppc[p] = "idle" => pfrom[p] = NoJob
  /\ \A p \in Procs : pfrom[p] # NoJob =>
       status[pfrom[p]] \in FinalStatus /\ apc[pfrom[p]] = "idle"

\* A job is untouched until its promotion commits.
FreshInv ==
  /\ \A j \in Jobs : j > created => status[j] = "none"
  /\ \A j \in Jobs : status[j] \in {"none", "queued"} => Untouched(j)

\* An actor that has left its pool leaves a watchdog behind, or was lost.
WatchedInv ==
  /\ \A j \in Jobs : apc[j] = "ack" /\ status[j] = "running" =>
       j \in watchdogs \/ wpc[j] # "idle" \/ j \in orphaned
  /\ \A j \in Jobs : apc[j] = "drain" => j \in orphaned

\* A contest has at most one active job.
OneActivePerContest ==
  \A j, k \in Jobs : Active(j) /\ Active(k) /\ contest[j] = contest[k] => j = k

OwnershipInv ==
  /\ TypeOK /\ PromotionInv /\ FreshInv /\ WatchedInv /\ OneActivePerContest
  /\ OneOrchestrator /\ RunningIsOwned

\* A call of promote_next_queued that returns lets go of its row and its job.
LEMMA ReturnKeepsPromotion ==
  ASSUME TypeOK, PromotionInv, NEW p \in Procs, Return(p), UNCHANGED <<status, apc>>
  PROVE  PromotionInv'
<1>1. \A q \in Procs : ppc'[q] = "lock" => status'[pjob'[q]] = "queued"
  BY DEF TypeOK, PromotionInv, Return, Goto
<1>2. \A q \in Procs : ppc'[q] = "send" => status'[pjob'[q]] \notin {"none", "queued"}
  BY DEF TypeOK, PromotionInv, Return, Goto
<1>3. \A q \in Procs : ppc'[q] = "idle" => pfrom'[q] = NoJob
  BY DEF TypeOK, PromotionInv, Return, Goto
<1>4. \A q \in Procs : pfrom'[q] # NoJob =>
        status'[pfrom'[q]] \in FinalStatus /\ apc'[pfrom'[q]] = "idle"
  BY DEF TypeOK, PromotionInv, Return, Goto
<1> QED
  BY <1>1, <1>2, <1>3, <1>4 DEF PromotionInv

\* So does a step of the call that holds no row afterwards.
LEMMA GotoKeepsPromotion ==
  ASSUME TypeOK, PromotionInv, NEW p \in Procs, NEW pc \in {"max", "count", "pick"},
         Goto(p, pc, NoJob), UNCHANGED <<status, apc, pfrom>>
  PROVE  PromotionInv'
<1>1. \A q \in Procs : ppc'[q] = "lock" => status'[pjob'[q]] = "queued"
  BY DEF TypeOK, PromotionInv, Goto
<1>2. \A q \in Procs : ppc'[q] = "send" => status'[pjob'[q]] \notin {"none", "queued"}
  BY DEF TypeOK, PromotionInv, Goto
<1>3. \A q \in Procs : ppc'[q] = "idle" => pfrom'[q] = NoJob
  BY DEF TypeOK, PromotionInv, Goto
<1>4. \A q \in Procs : pfrom'[q] # NoJob =>
        status'[pfrom'[q]] \in FinalStatus /\ apc'[pfrom'[q]] = "idle"
  BY DEF TypeOK, PromotionInv, Goto
<1> QED
  BY <1>1, <1>2, <1>3, <1>4 DEF PromotionInv

\* OwnershipInv is inductive.
LEMMA OwnershipInductive == Spec => []OwnershipInv
<1>1. Init => OwnershipInv
  BY BoundAssumption, ContestAssumption
  DEF Init, OwnershipInv, TypeOK, Jobs, PromotionInv, FreshInv, Untouched, WatchedInv,
      OneActivePerContest, Active, OneOrchestrator, RunningIsOwned, Owned
<1>2. OwnershipInv /\ TypeOK' /\ [Next]_vars => OwnershipInv'
  <2> SUFFICES ASSUME OwnershipInv, TypeOK', [Next]_vars
               PROVE  OwnershipInv'
    OBVIOUS
  <2> USE DEF OwnershipInv, jobVars, counters, actorVars, watchVars, promoteVars, failVars
  <2>1. ASSUME NEW p \in Procs, NEW c \in Contests, Trigger(p, c)
        PROVE  OwnershipInv'
    <3>1. PromotionInv'
      BY <2>1 DEF Trigger, Call, TypeOK, PromotionInv, FreshInv, Untouched, Active, Locked,
         OneOrchestrator, OneActivePerContest
    <3>2. FreshInv'
      <4>1. created' \in Jobs /\ created' = created + 1 /\ created \in Nat
        BY <2>1, BoundAssumption DEF Trigger, TypeOK, Jobs
      <4>2. status' = [status EXCEPT ![created'] = "queued"] /\ status[created'] = "none"
        BY <2>1, <4>1 DEF Trigger, TypeOK, FreshInv
      <4>3. \A j \in Jobs : j > created' => status'[j] = "none"
        BY <4>1, <4>2 DEF TypeOK, FreshInv, Jobs
      <4>4. \A j \in Jobs : status'[j] \in {"none", "queued"} => Untouched(j)
        BY <4>1, <4>2 DEF TypeOK, FreshInv
      <4>5. \A j \in Jobs : Untouched(j)' <=> Untouched(j)
        BY <2>1 DEF Trigger, Untouched
      <4> QED
        BY <4>3, <4>4, <4>5 DEF FreshInv
    <3>3. WatchedInv'
      BY <2>1 DEF Trigger, Call, TypeOK, WatchedInv, FreshInv, Untouched, PromotionInv
    <3>4. OneActivePerContest'
      BY <2>1 DEF Trigger, Call, TypeOK, OneActivePerContest, Active, FreshInv, PromotionInv
    <3>5. OneOrchestrator'
      BY <2>1 DEF Trigger, Call, TypeOK, Locked, OneOrchestrator, FreshInv, Untouched, PromotionInv
    <3>6. RunningIsOwned'
      BY <2>1 DEF Trigger, Call, TypeOK, RunningIsOwned, Owned, FreshInv, Untouched,
         PromotionInv, OneActivePerContest, Active, WatchedInv
    <3> QED
      BY <3>1, <3>2, <3>3, <3>4, <3>5, <3>6
  <2>2. ASSUME NEW p \in Procs, NEW j \in Jobs, Cancel(p, j)
        PROVE  OwnershipInv'
    <3>1. PromotionInv'
      BY <2>2 DEF Cancel, Call, TypeOK, PromotionInv, FreshInv, Untouched, Active, Locked,
         OneOrchestrator, OneActivePerContest
    <3>2. FreshInv'
      BY <2>2 DEF Cancel, Call, Active, TypeOK, FreshInv, Untouched, PromotionInv, OneOrchestrator
    <3>3. WatchedInv'
      BY <2>2 DEF Cancel, Call, Active, TypeOK, WatchedInv, FreshInv, Untouched, PromotionInv
    <3>4. OneActivePerContest'
      BY <2>2 DEF Cancel, Call, TypeOK, OneActivePerContest, Active, FreshInv, PromotionInv
    <3>5. OneOrchestrator'
      BY <2>2 DEF Cancel, Call, Active, TypeOK, Locked, OneOrchestrator, FreshInv, Untouched,
         PromotionInv
    <3>6. RunningIsOwned'
      BY <2>2 DEF Cancel, Call, TypeOK, RunningIsOwned, Owned, FreshInv, Untouched,
         PromotionInv, OneActivePerContest, Active, WatchedInv
    <3> QED
      BY <3>1, <3>2, <3>3, <3>4, <3>5, <3>6
  <2>3. ASSUME NEW p \in Procs, NEW n \in SlotLimits, SetMax(p, n)
        PROVE  OwnershipInv'
    <3>1. PromotionInv'
      BY <2>3 DEF SetMax, Call, TypeOK, PromotionInv, FreshInv, Untouched, OneOrchestrator
    <3>2. FreshInv' /\ WatchedInv'
      BY <2>3 DEF SetMax, Call, TypeOK, PromotionInv, FreshInv, Untouched, WatchedInv
    <3>3. OneActivePerContest'
      BY <2>3 DEF SetMax, Call, TypeOK, PromotionInv, FreshInv, OneActivePerContest, Active
    <3>4. OneOrchestrator'
      BY <2>3 DEF SetMax, Call, TypeOK, PromotionInv, FreshInv, Untouched, OneOrchestrator
    <3>5. RunningIsOwned'
      BY <2>3 DEF SetMax, Call, TypeOK, PromotionInv, FreshInv, WatchedInv, RunningIsOwned, Owned
    <3> QED
      BY <3>1, <3>2, <3>3, <3>4, <3>5
  <2>4. ASSUME NEW p \in Procs, ReadMax(p)
        PROVE  OwnershipInv'
    <3>1. PromotionInv'
      BY <2>4 DEF ReadMax, Goto, PromoteKeeps, TypeOK, PromotionInv, FreshInv, Untouched,
          OneOrchestrator
    <3>2. FreshInv' /\ WatchedInv'
      BY <2>4 DEF ReadMax, Goto, PromoteKeeps, TypeOK, PromotionInv, FreshInv, Untouched,
          WatchedInv
    <3>3. OneActivePerContest'
      BY <2>4 DEF ReadMax, Goto, PromoteKeeps, TypeOK, PromotionInv, FreshInv,
          OneActivePerContest, Active
    <3>4. OneOrchestrator'
      BY <2>4 DEF ReadMax, Goto, PromoteKeeps, TypeOK, PromotionInv, FreshInv, Untouched,
          OneOrchestrator
    <3>5. RunningIsOwned'
      BY <2>4 DEF ReadMax, Goto, PromoteKeeps, TypeOK, PromotionInv, FreshInv, WatchedInv,
          RunningIsOwned, Owned
    <3> QED
      BY <3>1, <3>2, <3>3, <3>4, <3>5
  <2>5. ASSUME NEW p \in Procs, CountRunning(p)
        PROVE  OwnershipInv'
    <3>1. PromotionInv'
      <4>1. CASE Return(p)
        BY <2>5, <4>1, ReturnKeepsPromotion DEF CountRunning, PromoteKeeps
      <4>2. CASE Goto(p, "pick", NoJob) /\ UNCHANGED pfrom
        BY <2>5, <4>2, GotoKeepsPromotion DEF CountRunning, PromoteKeeps
      <4> QED
        BY <2>5, <4>1, <4>2 DEF CountRunning
    <3>2. FreshInv'
      BY <2>5 DEF CountRunning, Goto, Return, PromoteKeeps, TypeOK, FreshInv, Untouched,
         PromotionInv, OneOrchestrator
    <3>3. WatchedInv'
      BY <2>5 DEF CountRunning, Goto, Return, PromoteKeeps, TypeOK, WatchedInv, FreshInv,
         Untouched, PromotionInv
    <3>4. OneActivePerContest'
      BY <2>5 DEF CountRunning, Goto, Return, PromoteKeeps, TypeOK, OneActivePerContest, Active,
         FreshInv, PromotionInv
    <3>5. OneOrchestrator'
      BY SMTT(60), <2>5 DEF CountRunning, Goto, Return, PromoteKeeps, TypeOK, Locked, OneOrchestrator,
         FreshInv, Untouched, PromotionInv
    <3>6. RunningIsOwned'
      BY <2>5 DEF CountRunning, Goto, Return, PromoteKeeps, TypeOK, RunningIsOwned, Owned,
         FreshInv, Untouched, PromotionInv, OneActivePerContest, Active, WatchedInv
    <3> QED
      BY <3>1, <3>2, <3>3, <3>4, <3>5, <3>6
  <2>6. ASSUME NEW p \in Procs, PickQueued(p)
        PROVE  OwnershipInv'
    <3>1. PromotionInv'
      <4>1. CASE Return(p)
        BY <2>6, <4>1, ReturnKeepsPromotion DEF PickQueued, PromoteKeeps
      <4>2. ASSUME NEW j \in Candidates, Goto(p, "lock", j), UNCHANGED pfrom
            PROVE  PromotionInv'
        BY <2>6, <4>2 DEF PickQueued, PromoteKeeps, Candidates, Goto, TypeOK, PromotionInv
      <4> QED
        BY <2>6, <4>1, <4>2 DEF PickQueued
    <3>2. FreshInv'
      BY <2>6 DEF PickQueued, Candidates, Goto, Return, PromoteKeeps, TypeOK, FreshInv,
         Untouched, PromotionInv, OneOrchestrator
    <3>3. WatchedInv'
      BY <2>6 DEF PickQueued, Candidates, Goto, Return, PromoteKeeps, TypeOK, WatchedInv,
         FreshInv, Untouched, PromotionInv
    <3>4. OneActivePerContest'
      BY <2>6 DEF PickQueued, Candidates, Goto, Return, PromoteKeeps, TypeOK,
         OneActivePerContest, Active, FreshInv, PromotionInv
    <3>5. OneOrchestrator'
      BY SMTT(60), <2>6 DEF PickQueued, Candidates, Goto, Return, PromoteKeeps, TypeOK, Locked,
         OneOrchestrator, FreshInv, Untouched, PromotionInv
    <3>6. RunningIsOwned'
      BY <2>6 DEF PickQueued, Candidates, Goto, Return, PromoteKeeps, TypeOK, RunningIsOwned,
         Owned, FreshInv, Untouched, PromotionInv, OneActivePerContest, Active, WatchedInv
    <3> QED
      BY <3>1, <3>2, <3>3, <3>4, <3>5, <3>6
  <2>7. ASSUME NEW p \in Procs, CommitRunning(p)
        PROVE  OwnershipInv'
    <3>1. PromotionInv'
      BY <2>7 DEF CommitRunning, Goto, PromoteKeeps, TypeOK, PromotionInv, FreshInv, Untouched,
          OneOrchestrator
    <3>2. FreshInv' /\ WatchedInv'
      BY <2>7 DEF CommitRunning, Goto, PromoteKeeps, TypeOK, PromotionInv, FreshInv, Untouched,
          WatchedInv
    <3>3. OneActivePerContest'
      BY <2>7 DEF CommitRunning, Goto, PromoteKeeps, TypeOK, PromotionInv, FreshInv,
          OneActivePerContest, Active
    <3>4. OneOrchestrator'
      BY <2>7 DEF CommitRunning, Goto, PromoteKeeps, TypeOK, PromotionInv, FreshInv, Untouched,
          OneOrchestrator
    <3>5. RunningIsOwned'
      BY <2>7 DEF CommitRunning, Goto, PromoteKeeps, TypeOK, PromotionInv, FreshInv, WatchedInv,
          RunningIsOwned, Owned
    <3> QED
      BY <3>1, <3>2, <3>3, <3>4, <3>5
  <2>8. ASSUME NEW p \in Procs, SendRun(p)
        PROVE  OwnershipInv'
    <3>1. PromotionInv'
      BY <2>8 DEF SendRun, Goto, PromoteKeeps, TypeOK, PromotionInv, FreshInv, Untouched,
          OneOrchestrator
    <3>2. FreshInv' /\ WatchedInv'
      BY <2>8 DEF SendRun, Goto, PromoteKeeps, TypeOK, PromotionInv, FreshInv, Untouched,
          WatchedInv
    <3>3. OneActivePerContest'
      BY <2>8 DEF SendRun, Goto, PromoteKeeps, TypeOK, PromotionInv, FreshInv,
          OneActivePerContest, Active
    <3>4. OneOrchestrator'
      BY <2>8 DEF SendRun, Goto, PromoteKeeps, TypeOK, PromotionInv, FreshInv, Untouched,
          OneOrchestrator
    <3>5. RunningIsOwned'
      BY <2>8 DEF SendRun, Goto, PromoteKeeps, TypeOK, PromotionInv, FreshInv, WatchedInv,
          RunningIsOwned, Owned
    <3> QED
      BY <3>1, <3>2, <3>3, <3>4, <3>5
  <2>9. ASSUME NEW p \in Procs, LoseDispatch(p)
        PROVE  OwnershipInv'
    <3>1. PromotionInv'
      <4>1. CASE Return(p)
        BY <2>9, <4>1, ReturnKeepsPromotion DEF LoseDispatch, PromoteKeeps
      <4>2. CASE Goto(p, "count", NoJob) /\ UNCHANGED pfrom
        BY <2>9, <4>2, GotoKeepsPromotion DEF LoseDispatch, PromoteKeeps
      <4> QED
        BY <2>9, <4>1, <4>2 DEF LoseDispatch
    <3>2. FreshInv'
      BY <2>9 DEF LoseDispatch, Fault, Goto, Return, PromoteKeeps, TypeOK, FreshInv, Untouched,
         PromotionInv, OneOrchestrator
    <3>3. WatchedInv'
      BY <2>9 DEF LoseDispatch, Fault, Goto, Return, PromoteKeeps, TypeOK, WatchedInv, FreshInv,
         Untouched, PromotionInv
    <3>4. OneActivePerContest'
      BY <2>9 DEF LoseDispatch, Fault, Goto, Return, PromoteKeeps, TypeOK, OneActivePerContest,
         Active, FreshInv, PromotionInv
    <3>5. OneOrchestrator'
      BY SMTT(60), <2>9 DEF LoseDispatch, Fault, Goto, Return, PromoteKeeps, TypeOK, Locked,
         OneOrchestrator, FreshInv, Untouched, PromotionInv
    <3>6. RunningIsOwned'
      BY <2>9 DEF LoseDispatch, Fault, Goto, Return, PromoteKeeps, TypeOK, RunningIsOwned,
         Owned, FreshInv, Untouched, PromotionInv, OneActivePerContest, Active, WatchedInv
    <3> QED
      BY <3>1, <3>2, <3>3, <3>4, <3>5, <3>6
  <2>10. ASSUME NEW p \in Procs, PromoteRaises(p)
        PROVE  OwnershipInv'
    <3>1. PromotionInv'
      <4>1. CASE Return(p) /\ UNCHANGED status
        BY <2>10, <4>1, ReturnKeepsPromotion DEF PromoteRaises, PromoteKeeps
      <4>2. CASE /\ pfrom[p] # NoJob
                 /\ status' = [status EXCEPT ![pfrom[p]] = "failed"]
                 /\ Goto(p, "max", NoJob)
                 /\ pfrom' = [pfrom EXCEPT ![p] = NoJob]
        <5>1. pfrom[p] \in Jobs /\ status[pfrom[p]] \in FinalStatus
          BY <4>2 DEF TypeOK, PromotionInv
        <5> QED
          BY <2>10, <4>2, <5>1 DEF PromoteRaises, PromoteKeeps, Goto, TypeOK, PromotionInv
      <4> QED
        BY <2>10, <4>1, <4>2 DEF PromoteRaises
    <3>2. FreshInv'
      BY <2>10 DEF PromoteRaises, Fault, Goto, Return, PromoteKeeps, TypeOK, FreshInv,
         Untouched, PromotionInv, OneOrchestrator
    <3>3. WatchedInv'
      BY <2>10 DEF PromoteRaises, Fault, Goto, Return, PromoteKeeps, TypeOK, WatchedInv,
         FreshInv, Untouched, PromotionInv
    <3>4. OneActivePerContest'
      BY <2>10 DEF PromoteRaises, Fault, Goto, Return, PromoteKeeps, TypeOK,
         OneActivePerContest, Active, FreshInv, PromotionInv
    <3>5. OneOrchestrator'
      BY SMTT(60), <2>10 DEF PromoteRaises, Fault, Goto, Return, PromoteKeeps, TypeOK, Locked,
         OneOrchestrator, FreshInv, Untouched, PromotionInv
    <3>6. RunningIsOwned'
      BY <2>10 DEF PromoteRaises, Fault, Goto, Return, PromoteKeeps, TypeOK, RunningIsOwned,
         Owned, FreshInv, Untouched, PromotionInv, OneActivePerContest, Active, WatchedInv
    <3> QED
      BY <3>1, <3>2, <3>3, <3>4, <3>5, <3>6
  <2>11. ASSUME NEW j \in Jobs, Deliver(j)
        PROVE  OwnershipInv'
    <3>1. PromotionInv'
      BY <2>11 DEF Deliver, ActorGoto, Active, TypeOK, PromotionInv, FreshInv, Untouched,
          OneOrchestrator
    <3>2. FreshInv' /\ WatchedInv'
      BY <2>11 DEF Deliver, ActorGoto, Active, TypeOK, PromotionInv, FreshInv, Untouched,
          WatchedInv
    <3>3. OneActivePerContest'
      BY <2>11 DEF Deliver, ActorGoto, Active, TypeOK, PromotionInv, FreshInv, OneActivePerContest
    <3>4. OneOrchestrator'
      BY <2>11 DEF Deliver, ActorGoto, Active, TypeOK, PromotionInv, FreshInv, Untouched,
          OneOrchestrator
    <3>5. RunningIsOwned'
      BY <2>11 DEF Deliver, ActorGoto, Active, TypeOK, PromotionInv, FreshInv, WatchedInv,
          RunningIsOwned, Owned
    <3> QED
      BY <3>1, <3>2, <3>3, <3>4, <3>5
  <2>12. ASSUME NEW j \in Jobs, MarkStarted(j)
        PROVE  OwnershipInv'
    <3>1. PromotionInv'
      BY <2>12 DEF MarkStarted, ActorGoto, TypeOK, PromotionInv, FreshInv, Untouched, Active,
         Locked, OneOrchestrator, OneActivePerContest
    <3>2. FreshInv'
      BY <2>12 DEF MarkStarted, ActorGoto, Active, TypeOK, FreshInv, Untouched, PromotionInv,
         OneOrchestrator
    <3>3. WatchedInv'
      BY <2>12 DEF MarkStarted, ActorGoto, Active, TypeOK, WatchedInv, FreshInv, Untouched,
         PromotionInv
    <3>4. OneActivePerContest'
      BY <2>12 DEF MarkStarted, ActorGoto, TypeOK, OneActivePerContest, Active, FreshInv,
         PromotionInv
    <3>5. OneOrchestrator'
      BY <2>12 DEF MarkStarted, ActorGoto, Active, TypeOK, Locked, OneOrchestrator, FreshInv,
         Untouched, PromotionInv
    <3>6. RunningIsOwned'
      BY <2>12 DEF MarkStarted, ActorGoto, TypeOK, RunningIsOwned, Owned, FreshInv, Untouched,
         PromotionInv, OneActivePerContest, Active, WatchedInv
    <3> QED
      BY <3>1, <3>2, <3>3, <3>4, <3>5, <3>6
  <2>13. ASSUME NEW j \in Jobs, NEW k \in 0 .. MaxPairs, BuildPending(j, k)
        PROVE  OwnershipInv'
    <3>1. PromotionInv'
      BY <2>13 DEF BuildPending, ActorGoto, TypeOK, PromotionInv, FreshInv, Untouched,
          OneOrchestrator
    <3>2. FreshInv' /\ WatchedInv'
      BY <2>13 DEF BuildPending, ActorGoto, TypeOK, PromotionInv, FreshInv, Untouched, WatchedInv
    <3>3. OneActivePerContest'
      BY <2>13 DEF BuildPending, ActorGoto, TypeOK, PromotionInv, FreshInv, OneActivePerContest,
          Active
    <3>4. OneOrchestrator'
      BY <2>13 DEF BuildPending, ActorGoto, TypeOK, PromotionInv, FreshInv, Untouched,
          OneOrchestrator
    <3>5. RunningIsOwned'
      BY <2>13 DEF BuildPending, ActorGoto, TypeOK, PromotionInv, FreshInv, WatchedInv,
          RunningIsOwned, Owned
    <3> QED
      BY <3>1, <3>2, <3>3, <3>4, <3>5
  <2>14. ASSUME NEW p \in Procs, NEW j \in Jobs, FinishEmpty(p, j)
        PROVE  OwnershipInv'
    <3>1. PromotionInv'
      BY <2>14 DEF FinishEmpty, ActorGoto, Call, TypeOK, PromotionInv, FreshInv, Untouched,
          OneOrchestrator
    <3>2. FreshInv' /\ WatchedInv'
      BY <2>14 DEF FinishEmpty, ActorGoto, Call, TypeOK, PromotionInv, FreshInv, Untouched,
          WatchedInv
    <3>3. OneActivePerContest'
      BY <2>14 DEF FinishEmpty, ActorGoto, Call, TypeOK, PromotionInv, FreshInv,
          OneActivePerContest, Active
    <3>4. OneOrchestrator'
      BY <2>14 DEF FinishEmpty, ActorGoto, Call, TypeOK, PromotionInv, FreshInv, Untouched,
          OneOrchestrator
    <3>5. RunningIsOwned'
      BY <2>14 DEF FinishEmpty, ActorGoto, Call, TypeOK, PromotionInv, FreshInv, WatchedInv,
          RunningIsOwned, Owned
    <3> QED
      BY <3>1, <3>2, <3>3, <3>4, <3>5
  <2>15. ASSUME NEW j \in Jobs, Submit(j)
        PROVE  OwnershipInv'
    <3>1. PromotionInv'
      BY <2>15 DEF Submit, ActorGoto, Active, TypeOK, PromotionInv, FreshInv, Untouched,
          OneOrchestrator
    <3>2. FreshInv' /\ WatchedInv'
      BY <2>15 DEF Submit, ActorGoto, Active, TypeOK, PromotionInv, FreshInv, Untouched,
          WatchedInv
    <3>3. OneActivePerContest'
      BY <2>15 DEF Submit, ActorGoto, Active, TypeOK, PromotionInv, FreshInv, OneActivePerContest
    <3>4. OneOrchestrator'
      BY <2>15 DEF Submit, ActorGoto, Active, TypeOK, PromotionInv, FreshInv, Untouched,
          OneOrchestrator
    <3>5. RunningIsOwned'
      BY <2>15 DEF Submit, ActorGoto, Active, TypeOK, PromotionInv, FreshInv, WatchedInv,
          RunningIsOwned, Owned
    <3> QED
      BY <3>1, <3>2, <3>3, <3>4, <3>5
  <2>16. ASSUME NEW j \in Jobs, StartPair(j)
        PROVE  OwnershipInv'
    <3>1. PromotionInv'
      BY <2>16 DEF StartPair, Active, TypeOK, PromotionInv, FreshInv, Untouched, OneOrchestrator
    <3>2. FreshInv' /\ WatchedInv'
      BY <2>16 DEF StartPair, Active, TypeOK, PromotionInv, FreshInv, Untouched, WatchedInv
    <3>3. OneActivePerContest'
      BY <2>16 DEF StartPair, Active, TypeOK, PromotionInv, FreshInv, OneActivePerContest
    <3>4. OneOrchestrator'
      BY <2>16 DEF StartPair, Active, TypeOK, PromotionInv, FreshInv, Untouched, OneOrchestrator
    <3>5. RunningIsOwned'
      BY <2>16 DEF StartPair, Active, TypeOK, PromotionInv, FreshInv, WatchedInv, RunningIsOwned,
          Owned
    <3> QED
      BY <3>1, <3>2, <3>3, <3>4, <3>5
  <2>17. ASSUME NEW j \in Jobs, NEW ok \in BOOLEAN, CountPair(j, ok)
        PROVE  OwnershipInv'
    <3>1. PromotionInv'
      BY <2>17 DEF CountPair, EndPair, TypeOK, PromotionInv, FreshInv, Untouched, OneOrchestrator
    <3>2. FreshInv' /\ WatchedInv'
      BY <2>17 DEF CountPair, EndPair, TypeOK, PromotionInv, FreshInv, Untouched, WatchedInv
    <3>3. OneActivePerContest'
      BY <2>17 DEF CountPair, EndPair, TypeOK, PromotionInv, FreshInv, OneActivePerContest, Active
    <3>4. OneOrchestrator'
      BY <2>17 DEF CountPair, EndPair, TypeOK, PromotionInv, FreshInv, Untouched, OneOrchestrator
    <3>5. RunningIsOwned'
      BY <2>17 DEF CountPair, EndPair, TypeOK, PromotionInv, FreshInv, WatchedInv, RunningIsOwned,
          Owned
    <3> QED
      BY <3>1, <3>2, <3>3, <3>4, <3>5
  <2>18. ASSUME NEW p \in Procs, NEW j \in Jobs, NEW ok \in BOOLEAN, CountLastPair(p, j, ok)
        PROVE  OwnershipInv'
    <3>1. PromotionInv'
      BY <2>18 DEF CountLastPair, EndPair, Completes, Call, TypeOK, PromotionInv, FreshInv,
          Untouched, OneOrchestrator
    <3>2. FreshInv' /\ WatchedInv'
      BY <2>18 DEF CountLastPair, EndPair, Completes, Call, TypeOK, PromotionInv, FreshInv,
          Untouched, WatchedInv
    <3>3. OneActivePerContest'
      BY <2>18 DEF CountLastPair, EndPair, Completes, Call, TypeOK, PromotionInv, FreshInv,
          OneActivePerContest, Active
    <3>4. OneOrchestrator'
      BY <2>18 DEF CountLastPair, EndPair, Completes, Call, TypeOK, PromotionInv, FreshInv,
          Untouched, OneOrchestrator
    <3>5. RunningIsOwned'
      BY <2>18 DEF CountLastPair, EndPair, Completes, Call, TypeOK, PromotionInv, FreshInv,
          WatchedInv, RunningIsOwned, Owned
    <3> QED
      BY <3>1, <3>2, <3>3, <3>4, <3>5
  <2>19. ASSUME NEW j \in Jobs, LoseCount(j)
        PROVE  OwnershipInv'
    <3>1. PromotionInv'
      BY <2>19 DEF LoseCount, Fault, TypeOK, PromotionInv, FreshInv, Untouched, OneOrchestrator
    <3>2. FreshInv' /\ WatchedInv'
      BY <2>19 DEF LoseCount, Fault, TypeOK, PromotionInv, FreshInv, Untouched, WatchedInv
    <3>3. OneActivePerContest'
      BY <2>19 DEF LoseCount, Fault, TypeOK, PromotionInv, FreshInv, OneActivePerContest, Active
    <3>4. OneOrchestrator'
      BY <2>19 DEF LoseCount, Fault, TypeOK, PromotionInv, FreshInv, Untouched, OneOrchestrator
    <3>5. RunningIsOwned'
      BY <2>19 DEF LoseCount, Fault, TypeOK, PromotionInv, FreshInv, WatchedInv, RunningIsOwned,
          Owned
    <3> QED
      BY <3>1, <3>2, <3>3, <3>4, <3>5
  <2>20. ASSUME NEW j \in Jobs, JoinPool(j)
        PROVE  OwnershipInv'
    <3>1. PromotionInv'
      BY <2>20 DEF JoinPool, Fault, ActorGoto, Drained, TypeOK, PromotionInv, FreshInv, Untouched,
          OneOrchestrator
    <3>2. FreshInv' /\ WatchedInv'
      BY <2>20 DEF JoinPool, Fault, ActorGoto, Drained, TypeOK, PromotionInv, FreshInv, Untouched,
          WatchedInv
    <3>3. OneActivePerContest'
      BY <2>20 DEF JoinPool, Fault, ActorGoto, Drained, TypeOK, PromotionInv, FreshInv,
          OneActivePerContest, Active
    <3>4. OneOrchestrator'
      BY <2>20 DEF JoinPool, Fault, ActorGoto, Drained, TypeOK, PromotionInv, FreshInv, Untouched,
          OneOrchestrator
    <3>5. RunningIsOwned'
      BY <2>20 DEF JoinPool, Fault, ActorGoto, Drained, TypeOK, PromotionInv, FreshInv,
          WatchedInv, RunningIsOwned, Owned
    <3> QED
      BY <3>1, <3>2, <3>3, <3>4, <3>5
  <2>21. ASSUME NEW j \in Jobs, Ack(j)
        PROVE  OwnershipInv'
    <3>1. PromotionInv'
      BY <2>21 DEF Ack, ActorGoto, Drained, TypeOK, PromotionInv, FreshInv, Untouched,
          OneOrchestrator
    <3>2. FreshInv' /\ WatchedInv'
      BY <2>21 DEF Ack, ActorGoto, Drained, TypeOK, PromotionInv, FreshInv, Untouched, WatchedInv
    <3>3. OneActivePerContest'
      BY <2>21 DEF Ack, ActorGoto, Drained, TypeOK, PromotionInv, FreshInv, OneActivePerContest,
          Active
    <3>4. OneOrchestrator'
      BY <2>21 DEF Ack, ActorGoto, Drained, TypeOK, PromotionInv, FreshInv, Untouched,
          OneOrchestrator
    <3>5. RunningIsOwned'
      BY <2>21 DEF Ack, ActorGoto, Drained, TypeOK, PromotionInv, FreshInv, WatchedInv,
          RunningIsOwned, Owned
    <3> QED
      BY <3>1, <3>2, <3>3, <3>4, <3>5
  <2>22. ASSUME NEW j \in Jobs, ActorError(j)
        PROVE  OwnershipInv'
    <3>1. PromotionInv'
      BY <2>22 DEF ActorError, Fault, ActorGoto, TypeOK, PromotionInv, FreshInv, Untouched,
          OneOrchestrator
    <3>2. FreshInv' /\ WatchedInv'
      BY <2>22 DEF ActorError, Fault, ActorGoto, TypeOK, PromotionInv, FreshInv, Untouched,
          WatchedInv
    <3>3. OneActivePerContest'
      BY <2>22 DEF ActorError, Fault, ActorGoto, TypeOK, PromotionInv, FreshInv,
          OneActivePerContest, Active
    <3>4. OneOrchestrator'
      BY <2>22 DEF ActorError, Fault, ActorGoto, TypeOK, PromotionInv, FreshInv, Untouched,
          OneOrchestrator
    <3>5. RunningIsOwned'
      BY <2>22 DEF ActorError, Fault, ActorGoto, TypeOK, PromotionInv, FreshInv, WatchedInv,
          RunningIsOwned, Owned
    <3> QED
      BY <3>1, <3>2, <3>3, <3>4, <3>5
  <2>23. ASSUME NEW p \in Procs, NEW j \in Jobs, FailJob(p, j)
        PROVE  OwnershipInv'
    <3>1. PromotionInv'
      BY <2>23 DEF FailJob, ActorGoto, Call, Drained, TypeOK, PromotionInv, FreshInv, Untouched,
          OneOrchestrator
    <3>2. FreshInv' /\ WatchedInv'
      BY <2>23 DEF FailJob, ActorGoto, Call, Drained, TypeOK, PromotionInv, FreshInv, Untouched,
          WatchedInv
    <3>3. OneActivePerContest'
      BY <2>23 DEF FailJob, ActorGoto, Call, Drained, TypeOK, PromotionInv, FreshInv,
          OneActivePerContest, Active
    <3>4. OneOrchestrator'
      BY <2>23 DEF FailJob, ActorGoto, Call, Drained, TypeOK, PromotionInv, FreshInv, Untouched,
          OneOrchestrator
    <3>5. RunningIsOwned'
      BY <2>23 DEF FailJob, ActorGoto, Call, Drained, TypeOK, PromotionInv, FreshInv, WatchedInv,
          RunningIsOwned, Owned
    <3> QED
      BY <3>1, <3>2, <3>3, <3>4, <3>5
  <2>24. ASSUME NEW j \in Jobs, TimeLimit(j)
        PROVE  OwnershipInv'
    <3>1. PromotionInv'
      BY <2>24 DEF TimeLimit, Fault, ActorGoto, TypeOK, PromotionInv, FreshInv, Untouched,
          OneOrchestrator
    <3>2. FreshInv' /\ WatchedInv'
      BY <2>24 DEF TimeLimit, Fault, ActorGoto, TypeOK, PromotionInv, FreshInv, Untouched,
          WatchedInv
    <3>3. OneActivePerContest'
      BY <2>24 DEF TimeLimit, Fault, ActorGoto, TypeOK, PromotionInv, FreshInv,
          OneActivePerContest, Active
    <3>4. OneOrchestrator'
      BY <2>24 DEF TimeLimit, Fault, ActorGoto, TypeOK, PromotionInv, FreshInv, Untouched,
          OneOrchestrator
    <3>5. RunningIsOwned'
      BY <2>24 DEF TimeLimit, Fault, ActorGoto, TypeOK, PromotionInv, FreshInv, WatchedInv,
          RunningIsOwned, Owned
    <3> QED
      BY <3>1, <3>2, <3>3, <3>4, <3>5
  <2>25. ASSUME NEW j \in Jobs, Crash(j)
        PROVE  OwnershipInv'
    <3>1. PromotionInv'
      BY <2>25 DEF Crash, Fault, ActorGoto, TypeOK, PromotionInv, FreshInv, Untouched,
          OneOrchestrator
    <3>2. FreshInv' /\ WatchedInv'
      BY <2>25 DEF Crash, Fault, ActorGoto, TypeOK, PromotionInv, FreshInv, Untouched, WatchedInv
    <3>3. OneActivePerContest'
      BY <2>25 DEF Crash, Fault, ActorGoto, TypeOK, PromotionInv, FreshInv, OneActivePerContest,
          Active
    <3>4. OneOrchestrator'
      BY <2>25 DEF Crash, Fault, ActorGoto, TypeOK, PromotionInv, FreshInv, Untouched,
          OneOrchestrator
    <3>5. RunningIsOwned'
      BY <2>25 DEF Crash, Fault, ActorGoto, TypeOK, PromotionInv, FreshInv, WatchedInv,
          RunningIsOwned, Owned
    <3> QED
      BY <3>1, <3>2, <3>3, <3>4, <3>5
  <2>26. ASSUME NEW j \in Jobs, ReadStuck(j)
        PROVE  OwnershipInv'
    <3>1. PromotionInv'
      BY <2>26 DEF ReadStuck, Active, TypeOK, PromotionInv, FreshInv, Untouched, OneOrchestrator
    <3>2. FreshInv' /\ WatchedInv'
      BY <2>26 DEF ReadStuck, Active, TypeOK, PromotionInv, FreshInv, Untouched, WatchedInv
    <3>3. OneActivePerContest'
      BY <2>26 DEF ReadStuck, Active, TypeOK, PromotionInv, FreshInv, OneActivePerContest
    <3>4. OneOrchestrator'
      BY <2>26 DEF ReadStuck, Active, TypeOK, PromotionInv, FreshInv, Untouched, OneOrchestrator
    <3>5. RunningIsOwned'
      BY <2>26 DEF ReadStuck, Active, TypeOK, PromotionInv, FreshInv, WatchedInv, RunningIsOwned,
          Owned
    <3> QED
      BY <3>1, <3>2, <3>3, <3>4, <3>5
  <2>27. ASSUME NEW p \in Procs, NEW j \in Jobs, Finalize(p, j)
        PROVE  OwnershipInv'
    <3>1. PromotionInv'
      BY <2>27 DEF Finalize, Active, Call, TypeOK, PromotionInv, FreshInv, Untouched,
          OneOrchestrator
    <3>2. FreshInv' /\ WatchedInv'
      BY <2>27 DEF Finalize, Active, Call, TypeOK, PromotionInv, FreshInv, Untouched, WatchedInv
    <3>3. OneActivePerContest'
      BY <2>27 DEF Finalize, Active, Call, TypeOK, PromotionInv, FreshInv, OneActivePerContest
    <3>4. OneOrchestrator'
      BY <2>27 DEF Finalize, Active, Call, TypeOK, PromotionInv, FreshInv, Untouched,
          OneOrchestrator
    <3>5. RunningIsOwned'
      BY <2>27 DEF Finalize, Active, Call, TypeOK, PromotionInv, FreshInv, WatchedInv,
          RunningIsOwned, Owned
    <3> QED
      BY <3>1, <3>2, <3>3, <3>4, <3>5
  <2>28. ASSUME NEW j \in Jobs, CrashWatchdog(j)
        PROVE  OwnershipInv'
    <3>1. PromotionInv'
      BY <2>28 DEF CrashWatchdog, Fault, TypeOK, PromotionInv, FreshInv, Untouched,
          OneOrchestrator
    <3>2. FreshInv' /\ WatchedInv'
      BY <2>28 DEF CrashWatchdog, Fault, TypeOK, PromotionInv, FreshInv, Untouched, WatchedInv
    <3>3. OneActivePerContest'
      BY <2>28 DEF CrashWatchdog, Fault, TypeOK, PromotionInv, FreshInv, OneActivePerContest,
          Active
    <3>4. OneOrchestrator'
      BY <2>28 DEF CrashWatchdog, Fault, TypeOK, PromotionInv, FreshInv, Untouched,
          OneOrchestrator
    <3>5. RunningIsOwned'
      BY <2>28 DEF CrashWatchdog, Fault, TypeOK, PromotionInv, FreshInv, WatchedInv,
          RunningIsOwned, Owned
    <3> QED
      BY <3>1, <3>2, <3>3, <3>4, <3>5
  <2>29. CASE UNCHANGED vars
    BY <2>29 DEF vars, TypeOK, PromotionInv, FreshInv, Untouched, WatchedInv,
       OneActivePerContest, Active, OneOrchestrator, RunningIsOwned, Owned
  <2> QED
    BY <2>1, <2>2, <2>3, <2>4, <2>5, <2>6, <2>7, <2>8, <2>9, <2>10,
       <2>11, <2>12, <2>13, <2>14, <2>15, <2>16, <2>17, <2>18, <2>19, <2>20,
       <2>21, <2>22, <2>23, <2>24, <2>25, <2>26, <2>27, <2>28, <2>29
    DEF Next, Views, Promote, Actor, ActorEnds, Failure
<1>3. QED
  BY <1>1, <1>2, TypeCorrect, PTL DEF Spec

\* A slot is never held by a job that nobody works on, except after a lost
\* send, actor or watchdog.
THEOREM SlotsAreOwned == Spec => []RunningIsOwned
<1>1. OwnershipInv => RunningIsOwned
  BY DEF OwnershipInv
<1> QED
  BY <1>1, OwnershipInductive, PTL

\* A job never has two orchestrators, whatever crashes and whatever the
\* broker delivers again.
THEOREM SingleOrchestrator == Spec => []OneOrchestrator
<1>1. OwnershipInv => OneOrchestrator
  BY DEF OwnershipInv
<1> QED
  BY <1>1, OwnershipInductive, PTL

\* A contest never has two active jobs, which is what the unique constraint
\* of eval_job says, although run_eval_job sets running unconditionally.
THEOREM SingleActiveJob == Spec => []OneActivePerContest
<1>1. OwnershipInv => OneActivePerContest
  BY DEF OwnershipInv
<1> QED
  BY <1>1, OwnershipInductive, PTL

-----------------------------------------------------------------------------
(* No wakeup is lost.                                                      *)

\* A call that begins is attentive, and it clears unheard.
LEMMA CallIsHeard ==
  ASSUME TypeOK, NEW p \in Procs, NEW from, Call(p, from)
  PROVE  NoLostWakeup'
<1>1. ppc'[p] = "max"
  BY DEF TypeOK, Call
<1> QED
  BY <1>1 DEF NoLostWakeup, Attentive

\* More running jobs leave no more slots free.
LEMMA RunningCount ==
  ASSUME BoundAssumption, Running \subseteq Running'
  PROVE  /\ Cardinality(Running) \in Nat /\ Cardinality(Running') \in Nat
         /\ Cardinality(Running) <= Cardinality(Running')
<1>1. IsFiniteSet(Jobs)
  BY BoundAssumption, FS_Interval DEF Jobs
<1>2. IsFiniteSet(Running) /\ IsFiniteSet(Running')
  BY <1>1, FS_Subset DEF Running
<1>3. Cardinality(Running) <= Cardinality(Running')
  BY <1>2, FS_Subset
<1> QED
  BY <1>2, <1>3, FS_CardinalityType

\* A step keeps the property when it frees no slot, queues nothing, cuts no
\* call short and leaves every attentive call attentive.
LEMMA QuietStep ==
  ASSUME TypeOK, TypeOK', NoLostWakeup,
         Running \subseteq Running', Candidates' \subseteq Candidates,
         UNCHANGED slots, unheard' = {} => unheard = {},
         \A q \in Procs : Attentive(q) => Attentive(q)'
  PROVE  NoLostWakeup'
<1> SUFFICES ASSUME Candidates' # {}, Cardinality(Running') < slots', unheard' = {}
             PROVE  \E q \in Procs : Attentive(q)'
  BY DEF NoLostWakeup
<1>1. slots \in Nat
  BY SlotAssumption DEF TypeOK
<1>2. Cardinality(Running) < slots
  BY <1>1, BoundAssumption, RunningCount
<1>3. \E q \in Procs : Attentive(q)
  BY <1>2 DEF NoLostWakeup
<1> QED
  BY <1>3

\* So does every step that changes neither a status nor a promotion.
LEMMA UnrelatedStep ==
  ASSUME TypeOK, TypeOK', NoLostWakeup, UNCHANGED <<status, slots, promoteVars>>
  PROVE  NoLostWakeup'
<1>1. Running' = Running /\ Candidates' = Candidates
  BY DEF promoteVars, Running, Candidates, Locked
<1>2. \A q \in Procs : Attentive(q) => Attentive(q)'
  BY DEF promoteVars, Attentive
<1> QED
  BY <1>1, <1>2, QuietStep DEF promoteVars

\* A queued job that could run is always seen by some call of
\* promote_next_queued, unless a call was cut short since the last one began.
THEOREM WakeupNotLost == Spec => []NoLostWakeup
<1>1. Init => NoLostWakeup
  BY DEF Init, NoLostWakeup, Candidates
<1>2. OwnershipInv /\ TypeOK' /\ NoLostWakeup /\ [Next]_vars => NoLostWakeup'
  <2> SUFFICES ASSUME TypeOK, PromotionInv, FreshInv, TypeOK', NoLostWakeup, [Next]_vars
               PROVE  NoLostWakeup'
    BY DEF OwnershipInv
  <2>1. ASSUME NEW p \in Procs, NEW c \in Contests, Trigger(p, c)
        PROVE  NoLostWakeup'
    BY <2>1, CallIsHeard DEF Trigger
  <2>2. ASSUME NEW p \in Procs, NEW j \in Jobs, Cancel(p, j)
        PROVE  NoLostWakeup'
    BY <2>2, CallIsHeard DEF Cancel
  <2>3. ASSUME NEW p \in Procs, NEW n \in SlotLimits, SetMax(p, n)
        PROVE  NoLostWakeup'
    BY <2>3, CallIsHeard DEF SetMax
  <2>4. ASSUME NEW p \in Procs, ReadMax(p)
        PROVE  NoLostWakeup'
    <3>1. \A q \in Procs : Attentive(q) => Attentive(q)'
      BY <2>4, SlotAssumption DEF ReadMax, PromoteKeeps, Goto, TypeOK, Attentive
    <3>2. Running \subseteq Running' /\ Candidates' \subseteq Candidates
      BY <2>4 DEF ReadMax, PromoteKeeps, Goto, TypeOK, PromotionInv, Running, Candidates, Locked
    <3> QED
      BY <2>4, <3>1, <3>2, QuietStep DEF ReadMax, PromoteKeeps
  <2>5. ASSUME NEW p \in Procs, CountRunning(p)
        PROVE  NoLostWakeup'
    <3>1. CASE Return(p)
      <4>1. Running' = Running /\ Candidates' = Candidates
        BY <2>5, <3>1 DEF CountRunning, PromoteKeeps, Return, Goto, TypeOK, Running, Candidates,
           Locked
      <4>2. ~ Attentive(p) \/ Cardinality(Running) >= slots
        <5>1. slots \in Nat /\ pmax[p] \in Nat /\ Cardinality(Running) \in Nat
          BY <4>1, BoundAssumption, SlotAssumption, RunningCount DEF TypeOK
        <5> QED
          BY <2>5, <3>1, <5>1 DEF CountRunning, Return, Goto, TypeOK, Attentive
      <4>3. \A q \in Procs \ {p} : Attentive(q) => Attentive(q)'
        BY <2>5, <3>1 DEF CountRunning, PromoteKeeps, Return, Goto, TypeOK, Attentive
      <4>4. UNCHANGED <<slots, unheard>>
        BY <2>5 DEF CountRunning, PromoteKeeps
      <4> QED
        BY <4>1, <4>2, <4>3, <4>4, BoundAssumption, SlotAssumption, RunningCount
        DEF NoLostWakeup, TypeOK
    <3>2. CASE Goto(p, "pick", NoJob) /\ UNCHANGED pmax
      <4>1. \A q \in Procs : Attentive(q) => Attentive(q)'
        BY <2>5, <3>2 DEF CountRunning, PromoteKeeps, Goto, TypeOK, Attentive
      <4>2. Running \subseteq Running' /\ Candidates' \subseteq Candidates
        BY <2>5, <3>2 DEF CountRunning, PromoteKeeps, Goto, TypeOK, Running, Candidates, Locked
      <4> QED
        BY <2>5, <4>1, <4>2, QuietStep DEF CountRunning, PromoteKeeps
    <3> QED
      BY <2>5, <3>1, <3>2 DEF CountRunning
  <2>6. ASSUME NEW p \in Procs, PickQueued(p)
        PROVE  NoLostWakeup'
    <3>1. CASE Candidates = {} /\ Return(p)
      <4>1. Candidates' = {}
        BY <2>6, <3>1 DEF PickQueued, PromoteKeeps, Return, Goto, TypeOK, Candidates, Locked
      <4> QED
        BY <4>1 DEF NoLostWakeup
    <3>2. ASSUME NEW j \in Candidates, Goto(p, "lock", j), UNCHANGED pmax
          PROVE  NoLostWakeup'
      <4>1. \A q \in Procs : Attentive(q) => Attentive(q)'
        BY <2>6, <3>2 DEF PickQueued, PromoteKeeps, Goto, TypeOK, Attentive
      <4>2. Running \subseteq Running' /\ Candidates' \subseteq Candidates
        BY <2>6, <3>2 DEF PickQueued, PromoteKeeps, Goto, TypeOK, Running, Candidates, Locked
      <4> QED
        BY <2>6, <4>1, <4>2, QuietStep DEF PickQueued, PromoteKeeps
    <3> QED
      BY <2>6, <3>1, <3>2 DEF PickQueued
  <2>7. ASSUME NEW p \in Procs, CommitRunning(p)
        PROVE  NoLostWakeup'
    <3>1. \A q \in Procs : Attentive(q) => Attentive(q)'
      BY <2>7 DEF CommitRunning, PromoteKeeps, Goto, TypeOK, Attentive
    <3>2. Running \subseteq Running' /\ Candidates' \subseteq Candidates
      BY <2>7 DEF CommitRunning, PromoteKeeps, Goto, TypeOK, PromotionInv, Running, Candidates,
         Locked
    <3> QED
      BY <2>7, <3>1, <3>2, QuietStep DEF CommitRunning, PromoteKeeps
  <2>8. ASSUME NEW p \in Procs, SendRun(p)
        PROVE  NoLostWakeup'
    <3>1. \A q \in Procs : Attentive(q) => Attentive(q)'
      BY <2>8 DEF SendRun, PromoteKeeps, Goto, TypeOK, Attentive
    <3>2. Running \subseteq Running' /\ Candidates' \subseteq Candidates
      BY <2>8 DEF SendRun, PromoteKeeps, Goto, TypeOK, PromotionInv, Running, Candidates, Locked
    <3> QED
      BY <2>8, <3>1, <3>2, QuietStep DEF SendRun, PromoteKeeps
  <2>9. ASSUME NEW p \in Procs, LoseDispatch(p)
        PROVE  NoLostWakeup'
    <3>1. CASE unheard' = unheard \cup {p}
      BY <3>1 DEF NoLostWakeup
    <3>2. CASE Goto(p, "count", NoJob) /\ UNCHANGED <<pmax, unheard>>
      <4>1. \A q \in Procs : Attentive(q) => Attentive(q)'
        BY <2>9, <3>2 DEF LoseDispatch, PromoteKeeps, Goto, TypeOK, Attentive
      <4>2. Running \subseteq Running' /\ Candidates' \subseteq Candidates
        BY <2>9, <3>2 DEF LoseDispatch, PromoteKeeps, Goto, TypeOK, Running, Candidates, Locked
      <4> QED
        BY <2>9, <3>2, <4>1, <4>2, QuietStep DEF LoseDispatch, PromoteKeeps
    <3> QED
      BY <2>9, <3>1, <3>2 DEF LoseDispatch
  <2>10. ASSUME NEW p \in Procs, PromoteRaises(p)
        PROVE  NoLostWakeup'
    <3>1. CASE unheard' = unheard \cup {p}
      BY <3>1 DEF NoLostWakeup
    <3>2. CASE Goto(p, "max", NoJob)
      BY <3>2 DEF Goto, TypeOK, NoLostWakeup, Attentive
    <3> QED
      BY <2>10, <3>1, <3>2 DEF PromoteRaises
  <2>11. ASSUME NEW j \in Jobs, Deliver(j)
        PROVE  NoLostWakeup'
    BY <2>11, UnrelatedStep DEF Deliver, jobVars, actorVars, watchVars, failVars
  <2>12. ASSUME NEW j \in Jobs, MarkStarted(j)
        PROVE  NoLostWakeup'
    <3>1. \A q \in Procs : Attentive(q) => Attentive(q)'
      BY <2>12 DEF MarkStarted, promoteVars, Attentive
    <3>2. status[j] # "queued"
      BY <2>12 DEF MarkStarted, FreshInv, Untouched
    <3>3. Running \subseteq Running' /\ Candidates' \subseteq Candidates
      BY <2>12, <3>2 DEF MarkStarted, promoteVars, TypeOK, Running, Candidates, Locked
    <3> QED
      BY <2>12, <3>1, <3>3, QuietStep DEF MarkStarted, promoteVars
  <2>13. ASSUME NEW j \in Jobs, NEW k \in 0 .. MaxPairs, BuildPending(j, k)
        PROVE  NoLostWakeup'
    BY <2>13, UnrelatedStep DEF BuildPending, jobVars, actorVars, watchVars, failVars
  <2>14. ASSUME NEW p \in Procs, NEW j \in Jobs, FinishEmpty(p, j)
        PROVE  NoLostWakeup'
    BY <2>14, CallIsHeard DEF FinishEmpty
  <2>15. ASSUME NEW j \in Jobs, Submit(j)
        PROVE  NoLostWakeup'
    BY <2>15, UnrelatedStep DEF Submit, jobVars, actorVars, watchVars, failVars
  <2>16. ASSUME NEW j \in Jobs, StartPair(j)
        PROVE  NoLostWakeup'
    BY <2>16, UnrelatedStep DEF StartPair, jobVars, actorVars, watchVars, failVars
  <2>17. ASSUME NEW j \in Jobs, NEW ok \in BOOLEAN, CountPair(j, ok)
        PROVE  NoLostWakeup'
    BY <2>17, UnrelatedStep DEF CountPair, EndPair
  <2>18. ASSUME NEW p \in Procs, NEW j \in Jobs, NEW ok \in BOOLEAN, CountLastPair(p, j, ok)
        PROVE  NoLostWakeup'
    BY <2>18, CallIsHeard DEF CountLastPair
  <2>19. ASSUME NEW j \in Jobs, LoseCount(j)
        PROVE  NoLostWakeup'
    BY <2>19, UnrelatedStep DEF LoseCount, jobVars, actorVars, watchVars, failVars
  <2>20. ASSUME NEW j \in Jobs, JoinPool(j)
        PROVE  NoLostWakeup'
    BY <2>20, UnrelatedStep DEF JoinPool, jobVars, actorVars, watchVars, failVars
  <2>21. ASSUME NEW j \in Jobs, Ack(j)
        PROVE  NoLostWakeup'
    BY <2>21, UnrelatedStep DEF Ack, jobVars, actorVars, watchVars, failVars
  <2>22. ASSUME NEW j \in Jobs, ActorError(j)
        PROVE  NoLostWakeup'
    BY <2>22, UnrelatedStep DEF ActorError, jobVars, actorVars, watchVars, failVars
  <2>23. ASSUME NEW p \in Procs, NEW j \in Jobs, FailJob(p, j)
        PROVE  NoLostWakeup'
    BY <2>23, CallIsHeard DEF FailJob
  <2>24. ASSUME NEW j \in Jobs, TimeLimit(j)
        PROVE  NoLostWakeup'
    BY <2>24, UnrelatedStep DEF TimeLimit, jobVars, actorVars, watchVars, failVars
  <2>25. ASSUME NEW j \in Jobs, Crash(j)
        PROVE  NoLostWakeup'
    BY <2>25, UnrelatedStep DEF Crash, jobVars, actorVars, watchVars, failVars
  <2>26. ASSUME NEW j \in Jobs, ReadStuck(j)
        PROVE  NoLostWakeup'
    BY <2>26, UnrelatedStep DEF ReadStuck, jobVars, actorVars, watchVars, failVars
  <2>27. ASSUME NEW p \in Procs, NEW j \in Jobs, Finalize(p, j)
        PROVE  NoLostWakeup'
    BY <2>27, CallIsHeard DEF Finalize
  <2>28. ASSUME NEW j \in Jobs, CrashWatchdog(j)
        PROVE  NoLostWakeup'
    BY <2>28, UnrelatedStep DEF CrashWatchdog, jobVars, actorVars, watchVars, failVars
  <2>29. CASE UNCHANGED vars
    BY <2>29, UnrelatedStep DEF vars, jobVars
  <2> QED
    BY <2>1, <2>2, <2>3, <2>4, <2>5, <2>6, <2>7, <2>8, <2>9, <2>10,
       <2>11, <2>12, <2>13, <2>14, <2>15, <2>16, <2>17, <2>18, <2>19, <2>20,
       <2>21, <2>22, <2>23, <2>24, <2>25, <2>26, <2>27, <2>28, <2>29
    DEF Next, Views, Promote, Actor, ActorEnds, Failure
<1>3. QED
  BY <1>1, <1>2, TypeCorrect, OwnershipInductive, PTL DEF Spec

-----------------------------------------------------------------------------
(* The pairs: what the counters of a job and its final status say of them. *)

HIDE DEF ActiveStatus, FinalStatus, ActorPc, PromotePc, NoJob

\* Where the pairs of a job may be while its actor stands at apc[j].
PoolInv(j) ==
  /\ apc[j] \notin {"submit", "wait", "raise", "drain"} =>
       todo[j] = 0 /\ pool[j] = 0 /\ inflight[j] = 0
  /\ apc[j] \in {"wait", "raise", "drain"} => todo[j] = 0

\* Every pair is counted at most once.
CountInv(j) == nDone[j] + nFailed[j] + todo[j] + pool[j] + inflight[j] <= nTotal[j]

\* A watchdog has the job for itself: its actor has left the pool, none comes
\* after it, and so what the watchdog read stays true.
WatchdogInv(j) ==
  /\ j \in watchdogs \/ wpc[j] = "read" =>
       /\ apc[j] \in {"idle", "ack"} /\ j \notin broker
       /\ \A p \in Procs : ppc[p] = "send" => pjob[p] # j
  /\ wpc[j] = "read" => missing[j] = nTotal[j] - (nDone[j] + nFailed[j])

\* A job is done after its pairs, and no actor begins with it.
DoneInv(j) ==
  status[j] = "done" =>
    /\ todo[j] = 0 /\ pool[j] = 0 /\ inflight[j] = 0
    /\ apc[j] \notin {"start", "snapshot", "empty"}

\* A job whose message was delivered again may have two actors one after the
\* other, and pairs of both; for all others this is inductive.
PairsInv ==
  \A j \in Jobs \ redelivered : PoolInv(j) /\ CountInv(j) /\ WatchdogInv(j) /\ DoneInv(j)

\* PairsInv is inductive.
LEMMA PairsInductive == Spec => []PairsInv
<1>1. Init => PairsInv
  BY DEF Init, PairsInv, PoolInv, CountInv, WatchdogInv, DoneInv
<1>2. OwnershipInv /\ PairsInv /\ [Next]_vars => PairsInv'
  <2> SUFFICES ASSUME TypeOK, PromotionInv, FreshInv, OneOrchestrator, PairsInv, [Next]_vars
               PROVE  PairsInv'
    BY DEF OwnershipInv
  <2> USE DEF jobVars, counters, actorVars, watchVars, promoteVars, failVars
  <2>1. ASSUME NEW p \in Procs, NEW c \in Contests, Trigger(p, c)
        PROVE  PairsInv'
    BY <2>1 DEF Trigger, Call, TypeOK, PairsInv, PoolInv, CountInv, WatchdogInv, DoneInv
  <2>2. ASSUME NEW p \in Procs, NEW j \in Jobs, Cancel(p, j)
        PROVE  PairsInv'
    BY <2>2 DEF Cancel, Call, Active, TypeOK, PairsInv, PoolInv, CountInv, WatchdogInv, DoneInv
  <2>3. ASSUME NEW p \in Procs, NEW n \in SlotLimits, SetMax(p, n)
        PROVE  PairsInv'
    BY <2>3 DEF SetMax, Call, TypeOK, PairsInv, PoolInv, CountInv, WatchdogInv, DoneInv
  <2>4. ASSUME NEW p \in Procs, ReadMax(p)
        PROVE  PairsInv'
    BY <2>4 DEF ReadMax, Goto, PromoteKeeps, TypeOK, PairsInv, PoolInv, CountInv,
       WatchdogInv, DoneInv
  <2>5. ASSUME NEW p \in Procs, CountRunning(p)
        PROVE  PairsInv'
    BY <2>5 DEF CountRunning, Goto, Return, PromoteKeeps, TypeOK, PairsInv, PoolInv,
       CountInv, WatchdogInv, DoneInv
  <2>6. ASSUME NEW p \in Procs, PickQueued(p)
        PROVE  PairsInv'
    BY <2>6 DEF PickQueued, Goto, Return, PromoteKeeps, TypeOK, PairsInv, PoolInv, CountInv,
       WatchdogInv, DoneInv
  <2>7. ASSUME NEW p \in Procs, CommitRunning(p)
        PROVE  PairsInv'
    <3> SUFFICES ASSUME NEW k \in Jobs, k \notin redelivered'
                 PROVE  PoolInv(k)' /\ CountInv(k)' /\ WatchdogInv(k)' /\ DoneInv(k)'
      BY DEF PairsInv
    <3>1. PoolInv(k) /\ CountInv(k) /\ WatchdogInv(k) /\ DoneInv(k)
      BY <2>7 DEF PairsInv, CommitRunning, PromoteKeeps
    <3>2. PoolInv(k)'
      BY <2>7, <3>1 DEF CommitRunning, Goto, PromoteKeeps, TypeOK, PoolInv
    <3>3. CountInv(k)'
      BY <2>7, <3>1 DEF CommitRunning, Goto, PromoteKeeps, TypeOK, CountInv
    <3>4. WatchdogInv(k)'
      BY <2>7, <3>1 DEF CommitRunning, Goto, PromoteKeeps, TypeOK, PoolInv, WatchdogInv,
         CountInv, PromotionInv, FreshInv, Untouched, OneOrchestrator
    <3>5. DoneInv(k)'
      BY <2>7, <3>1 DEF CommitRunning, Goto, PromoteKeeps, TypeOK, DoneInv
    <3> QED
      BY <3>2, <3>3, <3>4, <3>5
  <2>8. ASSUME NEW p \in Procs, SendRun(p)
        PROVE  PairsInv'
    BY <2>8 DEF SendRun, Goto, PromoteKeeps, TypeOK, PairsInv, PoolInv, CountInv,
       WatchdogInv, DoneInv
  <2>9. ASSUME NEW p \in Procs, LoseDispatch(p)
        PROVE  PairsInv'
    BY <2>9 DEF LoseDispatch, Goto, Return, Fault, PromoteKeeps, TypeOK, PairsInv, PoolInv,
       CountInv, WatchdogInv, DoneInv
  <2>10. ASSUME NEW p \in Procs, PromoteRaises(p)
        PROVE  PairsInv'
    BY <2>10 DEF PromoteRaises, Goto, Return, Fault, PromoteKeeps, TypeOK, PairsInv, PoolInv,
       CountInv, WatchdogInv, DoneInv
  <2>11. ASSUME NEW j \in Jobs, Deliver(j)
        PROVE  PairsInv'
    <3> SUFFICES ASSUME NEW k \in Jobs, k \notin redelivered'
                 PROVE  PoolInv(k)' /\ CountInv(k)' /\ WatchdogInv(k)' /\ DoneInv(k)'
      BY DEF PairsInv
    <3>1. PoolInv(k) /\ CountInv(k) /\ WatchdogInv(k) /\ DoneInv(k)
      BY <2>11 DEF PairsInv, Deliver
    <3>2. PoolInv(k)'
      BY <2>11, <3>1 DEF Deliver, ActorGoto, Active, TypeOK, PoolInv
    <3>3. CountInv(k)'
      BY <2>11, <3>1 DEF Deliver, ActorGoto, Active, TypeOK, CountInv
    <3>4. WatchdogInv(k)'
      BY <2>11, <3>1 DEF Deliver, ActorGoto, Active, TypeOK, WatchdogInv
    <3>5. DoneInv(k)'
      <4>1. UNCHANGED <<status, todo, pool, inflight>>
        BY <2>11 DEF Deliver
      <4>2. apc'[k] \in {"start", "snapshot", "empty"} => status[k] # "done"
        <5>1. CASE k = j
          BY <2>11, <5>1 DEF Deliver, ActorGoto, Active, ActiveStatus, TypeOK
        <5>2. CASE k # j
          BY <2>11, <3>1, <5>2 DEF Deliver, ActorGoto, TypeOK, DoneInv
        <5> QED
          BY <5>1, <5>2
      <4> QED
        BY <3>1, <4>1, <4>2 DEF DoneInv
    <3> QED
      BY <3>2, <3>3, <3>4, <3>5
  <2>12. ASSUME NEW j \in Jobs, MarkStarted(j)
        PROVE  PairsInv'
    BY <2>12 DEF MarkStarted, ActorGoto, TypeOK, PairsInv, PoolInv, CountInv, WatchdogInv,
       DoneInv
  <2>13. ASSUME NEW j \in Jobs, NEW k \in 0 .. MaxPairs, BuildPending(j, k)
        PROVE  PairsInv'
    BY <2>13 DEF BuildPending, ActorGoto, TypeOK, PairsInv, PoolInv, CountInv, WatchdogInv,
       DoneInv
  <2>14. ASSUME NEW p \in Procs, NEW j \in Jobs, FinishEmpty(p, j)
        PROVE  PairsInv'
    BY <2>14 DEF FinishEmpty, ActorGoto, Call, TypeOK, PairsInv, PoolInv, CountInv,
       WatchdogInv, DoneInv
  <2>15. ASSUME NEW j \in Jobs, Submit(j)
        PROVE  PairsInv'
    BY <2>15 DEF Submit, ActorGoto, Active, TypeOK, PairsInv, PoolInv, CountInv, WatchdogInv,
       DoneInv
  <2>16. ASSUME NEW j \in Jobs, StartPair(j)
        PROVE  PairsInv'
    BY <2>16 DEF StartPair, Active, TypeOK, PairsInv, PoolInv, CountInv, WatchdogInv, DoneInv
  <2>17. ASSUME NEW j \in Jobs, NEW ok \in BOOLEAN, CountPair(j, ok)
        PROVE  PairsInv'
    BY <2>17 DEF CountPair, EndPair, Completes, TypeOK, PairsInv, PoolInv, CountInv,
       WatchdogInv, DoneInv
  <2>18. ASSUME NEW p \in Procs, NEW j \in Jobs, NEW ok \in BOOLEAN, CountLastPair(p, j, ok)
        PROVE  PairsInv'
    <3> SUFFICES ASSUME NEW k \in Jobs, k \notin redelivered'
                 PROVE  PoolInv(k)' /\ CountInv(k)' /\ WatchdogInv(k)' /\ DoneInv(k)'
      BY DEF PairsInv
    <3>1. PoolInv(k) /\ CountInv(k) /\ WatchdogInv(k) /\ DoneInv(k)
      BY <2>18 DEF PairsInv, CountLastPair, EndPair
    <3>2. PoolInv(k)'
      BY <2>18, <3>1 DEF CountLastPair, EndPair, Completes, Call, TypeOK, PoolInv
    <3>3. CountInv(k)'
      BY <2>18, <3>1 DEF CountLastPair, EndPair, Completes, Call, TypeOK, CountInv
    <3>4. WatchdogInv(k)'
      BY <2>18, <3>1 DEF CountLastPair, EndPair, Completes, Call, TypeOK, PoolInv, WatchdogInv
    <3>5. DoneInv(k)'
      <4>1. /\ todo[k] \in Nat /\ pool[k] \in Nat /\ inflight'[k] \in Nat
            /\ nDone'[k] \in Nat /\ nFailed'[k] \in Nat /\ nTotal[k] \in Nat
        BY <2>18 DEF CountLastPair, EndPair, TypeOK
      <4>2. k = j => nDone'[k] + nFailed'[k] >= nTotal[k] /\ apc[k] \notin {"start",
      "snapshot", "empty"}
        BY <2>18, <3>1 DEF CountLastPair, EndPair, Completes, PoolInv
      <4>3. k = j => todo'[k] = 0 /\ pool'[k] = 0 /\ inflight'[k] = 0
        <5>1. UNCHANGED <<nTotal, todo, pool>>
          BY <2>18 DEF CountLastPair, EndPair
        <5>2. nDone'[k] + nFailed'[k] + todo[k] + pool[k] + inflight'[k] <= nTotal[k]
          BY <3>3, <5>1 DEF CountInv
        <5>3. k = j => todo[k] = 0 /\ pool[k] = 0 /\ inflight'[k] = 0
          BY <4>1, <4>2, <5>2
        <5> QED
          BY <5>1, <5>3
      <4>4. k # j => status'[k] = status[k] /\ inflight'[k] = inflight[k]
        BY <2>18 DEF CountLastPair, EndPair, TypeOK
      <4> QED
        BY <2>18, <3>1, <4>2, <4>3, <4>4 DEF CountLastPair, EndPair, DoneInv
    <3> QED
      BY <3>2, <3>3, <3>4, <3>5
  <2>19. ASSUME NEW j \in Jobs, LoseCount(j)
        PROVE  PairsInv'
    BY <2>19 DEF LoseCount, Fault, TypeOK, PairsInv, PoolInv, CountInv, WatchdogInv, DoneInv
  <2>20. ASSUME NEW j \in Jobs, JoinPool(j)
        PROVE  PairsInv'
    <3> SUFFICES ASSUME NEW k \in Jobs, k \notin redelivered'
                 PROVE  PoolInv(k)' /\ CountInv(k)' /\ WatchdogInv(k)' /\ DoneInv(k)'
      BY DEF PairsInv
    <3>1. PoolInv(k) /\ CountInv(k) /\ WatchdogInv(k) /\ DoneInv(k)
      BY <2>20 DEF PairsInv, JoinPool, Fault
    <3>2. PoolInv(k)'
      BY <2>20, <3>1 DEF JoinPool, ActorGoto, Drained, Fault, TypeOK, PoolInv
    <3>3. CountInv(k)'
      BY <2>20, <3>1 DEF JoinPool, ActorGoto, Drained, Fault, TypeOK, CountInv
    <3>4. WatchdogInv(k)'
      BY <2>20, <3>1 DEF JoinPool, ActorGoto, Drained, Fault, TypeOK, PoolInv, WatchdogInv,
         CountInv, PromotionInv, FreshInv, Untouched, OneOrchestrator
    <3>5. DoneInv(k)'
      BY <2>20, <3>1 DEF JoinPool, ActorGoto, Drained, Fault, TypeOK, DoneInv
    <3> QED
      BY <3>2, <3>3, <3>4, <3>5
  <2>21. ASSUME NEW j \in Jobs, Ack(j)
        PROVE  PairsInv'
    BY <2>21 DEF Ack, ActorGoto, Drained, TypeOK, PairsInv, PoolInv, CountInv, WatchdogInv,
       DoneInv
  <2>22. ASSUME NEW j \in Jobs, ActorError(j)
        PROVE  PairsInv'
    BY <2>22 DEF ActorError, ActorGoto, Fault, TypeOK, PairsInv, PoolInv, CountInv,
       WatchdogInv, DoneInv
  <2>23. ASSUME NEW p \in Procs, NEW j \in Jobs, FailJob(p, j)
        PROVE  PairsInv'
    BY <2>23 DEF FailJob, ActorGoto, Drained, Call, TypeOK, PairsInv, PoolInv, CountInv,
       WatchdogInv, DoneInv
  <2>24. ASSUME NEW j \in Jobs, TimeLimit(j)
        PROVE  PairsInv'
    BY <2>24 DEF TimeLimit, ActorGoto, Fault, TypeOK, PairsInv, PoolInv, CountInv,
       WatchdogInv, DoneInv
  <2>25. ASSUME NEW j \in Jobs, Crash(j)
        PROVE  PairsInv'
    BY <2>25 DEF Crash, ActorGoto, Fault, TypeOK, PairsInv, PoolInv, CountInv, WatchdogInv,
       DoneInv
  <2>26. ASSUME NEW j \in Jobs, ReadStuck(j)
        PROVE  PairsInv'
    BY <2>26 DEF ReadStuck, Active, TypeOK, PairsInv, PoolInv, CountInv, WatchdogInv, DoneInv
  <2>27. ASSUME NEW p \in Procs, NEW j \in Jobs, Finalize(p, j)
        PROVE  PairsInv'
    BY <2>27 DEF Finalize, Active, Call, TypeOK, PairsInv, PoolInv, CountInv, WatchdogInv,
       DoneInv
  <2>28. ASSUME NEW j \in Jobs, CrashWatchdog(j)
        PROVE  PairsInv'
    BY <2>28 DEF CrashWatchdog, Fault, TypeOK, PairsInv, PoolInv, CountInv, WatchdogInv, DoneInv
  <2>29. CASE UNCHANGED vars
    BY <2>29 DEF vars, PairsInv, PoolInv, CountInv, WatchdogInv, DoneInv
  <2> QED
    BY <2>1, <2>2, <2>3, <2>4, <2>5, <2>6, <2>7, <2>8, <2>9, <2>10,
       <2>11, <2>12, <2>13, <2>14, <2>15, <2>16, <2>17, <2>18, <2>19, <2>20,
       <2>21, <2>22, <2>23, <2>24, <2>25, <2>26, <2>27, <2>28, <2>29
    DEF Next, Views, Promote, Actor, ActorEnds, Failure
<1>3. QED
  BY <1>1, <1>2, OwnershipInductive, PTL DEF Spec

\* A job reported done has no pair pending or being evaluated, unless its
\* message was delivered again.
THEOREM DoneMeansComplete == Spec => []DoneIsComplete
<1>1. PairsInv => DoneIsComplete
  BY DEF PairsInv, DoneInv, DoneIsComplete
<1> QED
  BY <1>1, PairsInductive, PTL

\* The counters never exceed n_total, nor will they with the pairs to come.
THEOREM CountersStayWithin == Spec => []CountersWithinTotal
<1>1. PairsInv => CountersWithinTotal
  BY DEF PairsInv, CountInv, CountersWithinTotal
<1> QED
  BY <1>1, PairsInductive, PTL

-----------------------------------------------------------------------------
(* Refinement: forgetting the slots, the messages, the threads and the     *)
(* pairs, every step of the queue is one of the steps that the life of a   *)
(* job allows, or none.                                                    *)

\* A call of promote_next_queued lets go of the job whose actor made it, which
\* stays claimed only if another call holds it.
LEMMA CallReleases ==
  ASSUME TypeOK, NEW p \in Procs, pfrom[p] \in Jobs,
         pfrom' = [pfrom EXCEPT ![p] = NoJob], UNCHANGED apc
  PROVE  Claimed' \in {Claimed, Claimed \ {pfrom[p]}}
<1>1. \A k \in Jobs : k # pfrom[p] => (k \in Claimed' <=> k \in Claimed)
  BY DEF Claimed, TypeOK, Jobs, NoJob
<1>2. pfrom[p] \in Claimed
  BY DEF Claimed
<1> QED
  BY <1>1, <1>2 DEF Claimed

\* An actor that ends releases its job: no promotion has been called from it.
LEMMA ActorReleases ==
  ASSUME TypeOK, PromotionInv, NEW j \in Jobs, apc[j] # "idle",
         apc' = [apc EXCEPT ![j] = "idle"], UNCHANGED pfrom
  PROVE  j \in Claimed /\ Claimed' = Claimed \ {j}
<1>1. \A k \in Jobs : k # j => (k \in Claimed' <=> k \in Claimed)
  BY DEF Claimed, TypeOK
<1>2. j \in Claimed /\ j \notin Claimed'
  BY SMTT(60) DEF Claimed, TypeOK, PromotionInv, Jobs, NoJob
<1> QED
  BY <1>1, <1>2 DEF Claimed

\* A call of promote_next_queued that returns releases at most the job whose
\* actor made it.
LEMMA ReturnReleases ==
  ASSUME TypeOK, NEW p \in Procs, Return(p), UNCHANGED <<jobVars, apc>>
  PROVE  [Lifecycle!Next]_(Lifecycle!vars)
<1>1. pfrom' = [pfrom EXCEPT ![p] = NoJob]
  BY DEF Return
<1>2. CASE pfrom[p] = NoJob
  <2>1. Claimed' = Claimed
    BY <1>1, <1>2 DEF Claimed, TypeOK
  <2> QED
    BY <2>1 DEF jobVars, Lifecycle!vars
<1>3. CASE pfrom[p] \in Jobs
  <2>1. Claimed' \in {Claimed, Claimed \ {pfrom[p]}}
    BY <1>1, <1>3, CallReleases
  <2>2. Lifecycle!Release(pfrom[p]) \/ UNCHANGED Lifecycle!vars
    BY <2>1 DEF jobVars, Lifecycle!Release, Lifecycle!vars
  <2> QED
    BY <1>3, <2>2 DEF Lifecycle!Next, Lifecycle!Jobs, Jobs
<1> QED
  BY <1>2, <1>3 DEF TypeOK

\* The queue implements the life of a job that EvalJobs promises.
THEOREM LifecycleImplemented == Spec => ImplementsLifecycle
<1>1. Init => Lifecycle!Init
  <2>1. Init => Claimed = {}
    BY DEF Init, Claimed, Jobs, NoJob
  <2> QED
    BY <2>1 DEF Init, Lifecycle!Init, Lifecycle!Jobs, Jobs
<1>2. OwnershipInv /\ [Next]_vars => [Lifecycle!Next]_(Lifecycle!vars)
  <2> SUFFICES ASSUME TypeOK, PromotionInv, FreshInv, [Next]_vars
               PROVE  [Lifecycle!Next]_(Lifecycle!vars)
    BY DEF OwnershipInv
  <2> USE DEF jobVars, counters, actorVars, watchVars, promoteVars, failVars
  <2>1. ASSUME NEW p \in Procs, NEW c \in Contests, Trigger(p, c)
        PROVE  [Lifecycle!Next]_(Lifecycle!vars)
    <3>1. Claimed' = Claimed
      BY <2>1 DEF Trigger, Call, Claimed, TypeOK, PromotionInv
    <3>2. Lifecycle!Enqueue(c)
      BY <2>1, <3>1 DEF Trigger, Active, ActiveStatus, Jobs, Lifecycle!Enqueue,
         Lifecycle!Active, Lifecycle!ActiveStatus, Lifecycle!Jobs
    <3> QED
      BY <3>2 DEF Lifecycle!Next
  <2>2. ASSUME NEW p \in Procs, NEW j \in Jobs, Cancel(p, j)
        PROVE  [Lifecycle!Next]_(Lifecycle!vars)
    <3>1. Claimed' = Claimed
      BY <2>2 DEF Cancel, Call, Claimed, TypeOK, PromotionInv
    <3>2. Lifecycle!Cancel(j)
      BY <2>2, <3>1 DEF Cancel, Active, ActiveStatus, Lifecycle!Cancel, Lifecycle!Become,
         Lifecycle!Active, Lifecycle!ActiveStatus
    <3> QED
      BY <3>2 DEF Lifecycle!Next, Lifecycle!Jobs, Jobs
  <2>3. ASSUME NEW p \in Procs, NEW n \in SlotLimits, SetMax(p, n)
        PROVE  [Lifecycle!Next]_(Lifecycle!vars)
    <3>1. Claimed' = Claimed
      BY <2>3 DEF SetMax, Call, Claimed, TypeOK, PromotionInv
    <3>2. UNCHANGED jobVars
      BY <2>3 DEF SetMax
    <3> QED
      BY <3>1, <3>2 DEF Lifecycle!vars
  <2>4. ASSUME NEW p \in Procs, ReadMax(p)
        PROVE  [Lifecycle!Next]_(Lifecycle!vars)
    <3>1. Claimed' = Claimed
      BY <2>4 DEF ReadMax, PromoteKeeps, Claimed
    <3>2. UNCHANGED jobVars
      BY <2>4 DEF ReadMax, PromoteKeeps
    <3> QED
      BY <3>1, <3>2 DEF Lifecycle!vars
  <2>5. ASSUME NEW p \in Procs, CountRunning(p)
        PROVE  [Lifecycle!Next]_(Lifecycle!vars)
    <3>1. UNCHANGED jobVars
      BY <2>5 DEF CountRunning, PromoteKeeps
    <3>2. CASE Return(p)
      BY <2>5, <3>1, <3>2, ReturnReleases DEF CountRunning, PromoteKeeps
    <3>3. CASE UNCHANGED pfrom
      BY <2>5, <3>1, <3>3 DEF CountRunning, PromoteKeeps, Claimed, Lifecycle!vars
    <3> QED
      BY <2>5, <3>2, <3>3 DEF CountRunning
  <2>6. ASSUME NEW p \in Procs, PickQueued(p)
        PROVE  [Lifecycle!Next]_(Lifecycle!vars)
    <3>1. UNCHANGED jobVars
      BY <2>6 DEF PickQueued, PromoteKeeps
    <3>2. CASE Return(p)
      BY <2>6, <3>1, <3>2, ReturnReleases DEF PickQueued, PromoteKeeps
    <3>3. CASE UNCHANGED pfrom
      BY <2>6, <3>1, <3>3 DEF PickQueued, PromoteKeeps, Claimed, Lifecycle!vars
    <3> QED
      BY <2>6, <3>2, <3>3 DEF PickQueued
  <2>7. ASSUME NEW p \in Procs, CommitRunning(p)
        PROVE  [Lifecycle!Next]_(Lifecycle!vars)
    <3>1. Claimed' = Claimed
      BY <2>7 DEF CommitRunning, PromoteKeeps, Claimed
    <3>2. Lifecycle!Admit(pjob[p])
      BY <2>7, <3>1 DEF CommitRunning, PromoteKeeps, PromotionInv, Lifecycle!Admit,
         Lifecycle!Become
    <3> QED
      BY <2>7, <3>2 DEF CommitRunning, TypeOK, Lifecycle!Next, Lifecycle!Jobs, Jobs
  <2>8. ASSUME NEW p \in Procs, SendRun(p)
        PROVE  [Lifecycle!Next]_(Lifecycle!vars)
    <3>1. Claimed' = Claimed
      BY <2>8 DEF SendRun, PromoteKeeps, Claimed
    <3>2. UNCHANGED jobVars
      BY <2>8 DEF SendRun, PromoteKeeps
    <3> QED
      BY <3>1, <3>2 DEF Lifecycle!vars
  <2>9. ASSUME NEW p \in Procs, LoseDispatch(p)
        PROVE  [Lifecycle!Next]_(Lifecycle!vars)
    <3>1. UNCHANGED jobVars
      BY <2>9 DEF LoseDispatch, PromoteKeeps
    <3>2. CASE Return(p)
      BY <2>9, <3>1, <3>2, ReturnReleases DEF LoseDispatch, PromoteKeeps
    <3>3. CASE UNCHANGED pfrom
      BY <2>9, <3>1, <3>3 DEF LoseDispatch, PromoteKeeps, Claimed, Lifecycle!vars
    <3> QED
      BY <2>9, <3>2, <3>3 DEF LoseDispatch
  <2>10. ASSUME NEW p \in Procs, PromoteRaises(p)
        PROVE  [Lifecycle!Next]_(Lifecycle!vars)
    <3>1. CASE Return(p) /\ UNCHANGED status
      BY <2>10, <3>1, ReturnReleases DEF PromoteRaises, PromoteKeeps
    <3>2. CASE /\ pfrom[p] # NoJob
               /\ status' = [status EXCEPT ![pfrom[p]] = "failed"]
               /\ pfrom' = [pfrom EXCEPT ![p] = NoJob]
      <4>1. pfrom[p] \in Jobs /\ pfrom[p] \in Claimed
        BY <3>2 DEF TypeOK, Claimed
      <4>2. Claimed' \in {Claimed, Claimed \ {pfrom[p]}}
        BY <2>10, <3>2, <4>1, CallReleases DEF PromoteRaises, PromoteKeeps
      <4>3. Lifecycle!Abort(pfrom[p])
        BY <2>10, <3>2, <4>1, <4>2 DEF PromoteRaises, PromoteKeeps, Lifecycle!Abort,
           Lifecycle!Become
      <4> QED
        BY <4>1, <4>3 DEF Lifecycle!Next, Lifecycle!Jobs, Jobs
    <3> QED
      BY <2>10, <3>1, <3>2 DEF PromoteRaises
  <2>11. ASSUME NEW j \in Jobs, Deliver(j)
        PROVE  [Lifecycle!Next]_(Lifecycle!vars)
    <3>1. CASE Active(j)
      <4>1. status[j] = "running" /\ Claimed' = Claimed \cup {j}
        BY <2>11, <3>1 DEF Deliver, ActorGoto, Active, ActiveStatus, Claimed, TypeOK,
           FreshInv, Untouched
      <4>2. Lifecycle!Claim(j)
        BY <2>11, <4>1 DEF Deliver, Lifecycle!Claim
      <4> QED
        BY <4>2 DEF Lifecycle!Next, Lifecycle!Jobs, Jobs
    <3>2. CASE ~Active(j)
      <4>1. Claimed' = Claimed
        BY <2>11, <3>2 DEF Deliver, ActorGoto, Claimed, TypeOK
      <4> QED
        BY <2>11, <4>1 DEF Deliver, Lifecycle!vars
    <3> QED
      BY <3>1, <3>2
  <2>12. ASSUME NEW j \in Jobs, MarkStarted(j)
        PROVE  [Lifecycle!Next]_(Lifecycle!vars)
    <3>1. CASE ActorGoto(j, "idle") /\ UNCHANGED status
      <4>1. Claimed' = Claimed \ {j}
        BY <2>12, <3>1, ActorReleases DEF MarkStarted, ActorGoto
      <4>2. Lifecycle!Release(j)
        BY <2>12, <3>1, <4>1 DEF MarkStarted, Lifecycle!Release
      <4> QED
        BY <4>2 DEF Lifecycle!Next, Lifecycle!Jobs, Jobs
    <3>2. CASE /\ \A k \in Jobs \ {j} : contest[k] = contest[j] => ~Active(k)
               /\ status' = [status EXCEPT ![j] = "running"]
               /\ ActorGoto(j, "snapshot")
      <4>1. j \in Claimed /\ Claimed' = Claimed
        BY <2>12, <3>2 DEF MarkStarted, ActorGoto, Claimed, TypeOK
      <4>2. Lifecycle!Resume(j)
        BY <2>12, <3>2, <4>1 DEF MarkStarted, Active, ActiveStatus, Jobs, Lifecycle!Resume,
           Lifecycle!Become, Lifecycle!Active, Lifecycle!ActiveStatus, Lifecycle!Jobs
      <4> QED
        BY <4>2 DEF Lifecycle!Next, Lifecycle!Jobs, Jobs
    <3> QED
      BY <2>12, <3>1, <3>2 DEF MarkStarted
  <2>13. ASSUME NEW j \in Jobs, NEW k \in 0 .. MaxPairs, BuildPending(j, k)
        PROVE  [Lifecycle!Next]_(Lifecycle!vars)
    <3>1. Claimed' = Claimed
      BY <2>13 DEF BuildPending, ActorGoto, Claimed, TypeOK
    <3>2. UNCHANGED jobVars
      BY <2>13 DEF BuildPending
    <3> QED
      BY <3>1, <3>2 DEF Lifecycle!vars
  <2>14. ASSUME NEW p \in Procs, NEW j \in Jobs, FinishEmpty(p, j)
        PROVE  [Lifecycle!Next]_(Lifecycle!vars)
    <3>1. Claimed' = Claimed
      <4>1. j \in Claimed /\ j \in Claimed'
        BY <2>14 DEF FinishEmpty, Call, Claimed, TypeOK
      <4>2. \A k \in Jobs \ {j} : k \in Claimed' <=> k \in Claimed
        <5>1. /\ \A k \in Jobs \ {j} : apc'[k] = apc[k]
              /\ pfrom[p] = NoJob /\ pfrom'[p] = j
              /\ \A q \in Procs \ {p} : pfrom'[q] = pfrom[q]
          BY <2>14 DEF FinishEmpty, ActorGoto, Call, TypeOK, PromotionInv
        <5>2. NoJob \notin Jobs
          BY DEF NoJob, Jobs
        <5> QED
          BY <5>1, <5>2 DEF Claimed
      <4> QED
        BY <4>1, <4>2 DEF Claimed
    <3>2. CASE status[j] = "running"
      <4>1. Lifecycle!Settle(j)
        BY <2>14, <3>1, <3>2 DEF FinishEmpty, Lifecycle!Settle, Lifecycle!Become
      <4> QED
        BY <4>1 DEF Lifecycle!Next, Lifecycle!Jobs, Jobs
    <3>3. CASE status[j] # "running"
      BY <2>14, <3>1, <3>3 DEF FinishEmpty, TypeOK, Lifecycle!vars
    <3> QED
      BY <3>2, <3>3
  <2>15. ASSUME NEW j \in Jobs, Submit(j)
        PROVE  [Lifecycle!Next]_(Lifecycle!vars)
    <3>1. Claimed' = Claimed
      BY <2>15 DEF Submit, ActorGoto, Claimed, TypeOK
    <3>2. UNCHANGED jobVars
      BY <2>15 DEF Submit
    <3> QED
      BY <3>1, <3>2 DEF Lifecycle!vars
  <2>16. ASSUME NEW j \in Jobs, StartPair(j)
        PROVE  [Lifecycle!Next]_(Lifecycle!vars)
    <3>1. Claimed' = Claimed
      BY <2>16 DEF StartPair, Claimed
    <3>2. UNCHANGED jobVars
      BY <2>16 DEF StartPair
    <3> QED
      BY <3>1, <3>2 DEF Lifecycle!vars
  <2>17. ASSUME NEW j \in Jobs, NEW ok \in BOOLEAN, CountPair(j, ok)
        PROVE  [Lifecycle!Next]_(Lifecycle!vars)
    <3>1. Claimed' = Claimed
      BY <2>17 DEF CountPair, EndPair, Claimed
    <3>2. UNCHANGED jobVars
      BY <2>17 DEF CountPair, EndPair
    <3> QED
      BY <3>1, <3>2 DEF Lifecycle!vars
  <2>18. ASSUME NEW p \in Procs, NEW j \in Jobs, NEW ok \in BOOLEAN, CountLastPair(p, j, ok)
        PROVE  [Lifecycle!Next]_(Lifecycle!vars)
    <3>1. Claimed' = Claimed
      BY <2>18 DEF CountLastPair, EndPair, Call, Claimed, TypeOK, PromotionInv
    <3>2. Lifecycle!Settle(j)
      BY <2>18, <3>1 DEF CountLastPair, EndPair, Completes, Lifecycle!Settle, Lifecycle!Become
    <3> QED
      BY <3>2 DEF Lifecycle!Next, Lifecycle!Jobs, Jobs
  <2>19. ASSUME NEW j \in Jobs, LoseCount(j)
        PROVE  [Lifecycle!Next]_(Lifecycle!vars)
    <3>1. Claimed' = Claimed
      BY <2>19 DEF LoseCount, Claimed
    <3>2. UNCHANGED jobVars
      BY <2>19 DEF LoseCount
    <3> QED
      BY <3>1, <3>2 DEF Lifecycle!vars
  <2>20. ASSUME NEW j \in Jobs, JoinPool(j)
        PROVE  [Lifecycle!Next]_(Lifecycle!vars)
    <3>1. Claimed' = Claimed
      BY <2>20 DEF JoinPool, ActorGoto, Claimed, TypeOK
    <3>2. UNCHANGED jobVars
      BY <2>20 DEF JoinPool
    <3> QED
      BY <3>1, <3>2 DEF Lifecycle!vars
  <2>21. ASSUME NEW j \in Jobs, Ack(j)
        PROVE  [Lifecycle!Next]_(Lifecycle!vars)
    <3>1. apc[j] # "idle" /\ apc' = [apc EXCEPT ![j] = "idle"] /\ UNCHANGED pfrom
      BY <2>21 DEF Ack, ActorGoto
    <3>2. j \in Claimed /\ Claimed' = Claimed \ {j}
      BY <3>1, ActorReleases
    <3>3. Lifecycle!Release(j)
      BY <2>21, <3>2 DEF Ack, Lifecycle!Release
    <3> QED
      BY <3>3 DEF Lifecycle!Next, Lifecycle!Jobs, Jobs
  <2>22. ASSUME NEW j \in Jobs, ActorError(j)
        PROVE  [Lifecycle!Next]_(Lifecycle!vars)
    <3>1. Claimed' = Claimed
      BY <2>22 DEF ActorError, ActorGoto, Claimed, TypeOK
    <3>2. UNCHANGED jobVars
      BY <2>22 DEF ActorError
    <3> QED
      BY <3>1, <3>2 DEF Lifecycle!vars
  <2>23. ASSUME NEW p \in Procs, NEW j \in Jobs, FailJob(p, j)
        PROVE  [Lifecycle!Next]_(Lifecycle!vars)
    <3>1. apc[j] # "idle" /\ apc' = [apc EXCEPT ![j] = "idle"] /\ UNCHANGED pfrom
      BY <2>23 DEF FailJob, ActorGoto, Call, TypeOK, PromotionInv
    <3>2. j \in Claimed /\ Claimed' = Claimed \ {j}
      BY <3>1, ActorReleases
    <3>3. Lifecycle!Abort(j)
      BY <2>23, <3>2 DEF FailJob, Lifecycle!Abort, Lifecycle!Become
    <3> QED
      BY <3>3 DEF Lifecycle!Next, Lifecycle!Jobs, Jobs
  <2>24. ASSUME NEW j \in Jobs, TimeLimit(j)
        PROVE  [Lifecycle!Next]_(Lifecycle!vars)
    <3>1. Claimed' \in {Claimed, Claimed \ {j}} /\ UNCHANGED jobVars
      BY <2>24 DEF TimeLimit, ActorGoto, Claimed, TypeOK, PromotionInv
    <3>2. Lifecycle!Release(j) \/ UNCHANGED Lifecycle!vars
      BY <3>1 DEF Lifecycle!Release, Lifecycle!vars
    <3> QED
      BY <3>2 DEF Lifecycle!Next, Lifecycle!Jobs, Jobs
  <2>25. ASSUME NEW j \in Jobs, Crash(j)
        PROVE  [Lifecycle!Next]_(Lifecycle!vars)
    <3>1. apc[j] # "idle" /\ apc' = [apc EXCEPT ![j] = "idle"] /\ UNCHANGED pfrom
      BY <2>25 DEF Crash, ActorGoto, Fault
    <3>2. j \in Claimed /\ Claimed' = Claimed \ {j}
      BY <3>1, ActorReleases
    <3>3. Lifecycle!Release(j)
      BY <2>25, <3>2 DEF Crash, Lifecycle!Release
    <3> QED
      BY <3>3 DEF Lifecycle!Next, Lifecycle!Jobs, Jobs
  <2>26. ASSUME NEW j \in Jobs, ReadStuck(j)
        PROVE  [Lifecycle!Next]_(Lifecycle!vars)
    <3>1. Claimed' = Claimed
      BY <2>26 DEF ReadStuck, Claimed
    <3>2. UNCHANGED jobVars
      BY <2>26 DEF ReadStuck
    <3> QED
      BY <3>1, <3>2 DEF Lifecycle!vars
  <2>27. ASSUME NEW p \in Procs, NEW j \in Jobs, Finalize(p, j)
        PROVE  [Lifecycle!Next]_(Lifecycle!vars)
    <3>1. Claimed' = Claimed
      BY <2>27 DEF Finalize, Call, Claimed, TypeOK, PromotionInv
    <3>2. CASE Active(j)
      <4>1. Lifecycle!Settle(j)
        BY <2>27, <3>1, <3>2 DEF Finalize, Active, ActiveStatus, FreshInv, Untouched,
           Lifecycle!Settle, Lifecycle!Become
      <4> QED
        BY <4>1 DEF Lifecycle!Next, Lifecycle!Jobs, Jobs
    <3>3. CASE ~Active(j)
      BY <2>27, <3>1, <3>3 DEF Finalize, Lifecycle!vars
    <3> QED
      BY <3>2, <3>3
  <2>28. ASSUME NEW j \in Jobs, CrashWatchdog(j)
        PROVE  [Lifecycle!Next]_(Lifecycle!vars)
    <3>1. Claimed' = Claimed
      BY <2>28 DEF CrashWatchdog, Claimed
    <3>2. UNCHANGED jobVars
      BY <2>28 DEF CrashWatchdog
    <3> QED
      BY <3>1, <3>2 DEF Lifecycle!vars
  <2>29. CASE UNCHANGED vars
    BY <2>29 DEF vars, Claimed, Lifecycle!vars
  <2> QED
    BY <2>1, <2>2, <2>3, <2>4, <2>5, <2>6, <2>7, <2>8, <2>9, <2>10,
       <2>11, <2>12, <2>13, <2>14, <2>15, <2>16, <2>17, <2>18, <2>19, <2>20,
       <2>21, <2>22, <2>23, <2>24, <2>25, <2>26, <2>27, <2>28, <2>29
    DEF Next, Views, Promote, Actor, ActorEnds, Failure
<1>3. QED
  BY <1>1, <1>2, OwnershipInductive, PTL DEF Spec, ImplementsLifecycle, Lifecycle!Spec
=============================================================================
