------------------------------ MODULE EvalQueue ------------------------------
(***************************************************************************)
(* The queue of qualitative-evaluation jobs (eval/): the trigger and the   *)
(* cancel view, the slot limit, promote_next_queued, the run_eval_job      *)
(* actor with its thread pool of pair evaluations, and the watchdog        *)
(* finalize_stuck_job.                                                     *)
(*                                                                         *)
(* The steps of one thread are its database transactions and its broker    *)
(* calls; threads interleave between them.  Every UPDATE of one EvalJob    *)
(* row is atomic (PostgreSQL row lock, READ COMMITTED), and the row a      *)
(* promoter selected FOR UPDATE stays locked until its transaction ends.   *)
(* A pair is one (student, problem) snapshot; here only their number       *)
(* counts, EvalSnapshot models what an evaluation stores.                  *)
(***************************************************************************)
EXTENDS Integers, FiniteSets

CONSTANTS
  Contests,     \* the contests that can be evaluated
  NoContest,    \* the contest of a job that does not exist yet
  MaxJobs,      \* bound: EvalJob rows ever created
  Procs,        \* bound: calls of promote_next_queued in progress at a time
  SlotLimits,   \* the values an administrator sets max_concurrent_jobs to
  PairWorkers,  \* threads of one job's pool
  MaxPairs,     \* bound: pairs that one job evaluates
  Faults,       \* the kinds of failure that may happen
  MaxFaults     \* bound: how many failures happen

FaultKinds ==
  { "crash",      \* the worker process dies; the broker delivers its message again
    "timelimit",  \* dramatiq raises TimeLimitExceeded in the actor (a BaseException)
    "error",      \* the body of run_eval_job raises an Exception
    "counter",    \* _bump_job_counter raises, the pair is never counted
    "promote",    \* promote_next_queued raises, or its process dies, before it commits
    "dispatch" }  \* a committed promotion, or a watchdog, is never sent

ASSUME ContestAssumption == NoContest \notin Contests
ASSUME BoundAssumption == /\ MaxJobs \in Nat
                          /\ MaxPairs \in Nat
                          /\ MaxFaults \in Nat
                          /\ PairWorkers \in Nat \ {0}
ASSUME SlotAssumption == SlotLimits \subseteq 1 .. 64
ASSUME FaultAssumption == Faults \subseteq FaultKinds

Jobs == 1 .. MaxJobs   \* ids in the order of enqueued_at
NoJob == 0

VARIABLES
  created,    \* number of EvalJob rows
  status,     \* EvalJob.status, "none" before the row exists
  contest,    \* EvalJob.contest
  nTotal, nDone, nFailed,   \* the counters of EvalJob
  slots,      \* eval:max_concurrent_jobs
  broker,     \* jobs with a run_eval_job message waiting in the broker
  apc,        \* where the run_eval_job actor of a job stands
  todo,       \* its pending pairs that are not submitted yet
  pool,       \* pairs submitted to its ThreadPoolExecutor and not started
  inflight,   \* pairs past the pre-check of _evaluate_pair
  watchdogs,  \* jobs with a delayed finalize_stuck_job message
  wpc,        \* where finalize_stuck_job of a job stands
  missing,    \* the number of lost pairs it computed from what it read
  ppc,        \* where a call of promote_next_queued stands
  pmax,       \* the slot limit that call read
  pjob,       \* the job it locked or promoted
  pfrom,      \* the job whose run_eval_job made the call inside its try block
  faults,     \* number of failures so far
  orphaned,   \* history: jobs whose promotion, actor or watchdog was lost
  redelivered,\* history: jobs whose message was delivered again
  unheard     \* history: calls of promote_next_queued cut short while none
              \* has begun since

jobVars == <<created, status, contest>>
counters == <<nTotal, nDone, nFailed>>
actorVars == <<apc, todo, pool, inflight>>
watchVars == <<watchdogs, wpc, missing>>
promoteVars == <<ppc, pmax, pjob, pfrom, unheard>>
failVars == <<faults, orphaned, redelivered>>
vars == <<jobVars, counters, slots, broker, actorVars, watchVars, promoteVars,
          failVars>>

-----------------------------------------------------------------------------

ActiveStatus == {"queued", "running"}
FinalStatus == {"done", "failed", "cancelled"}
ActorPc == {"idle", "start", "snapshot", "empty", "submit", "wait", "ack",
            "raise", "drain"}
PromotePc == {"idle", "max", "count", "pick", "lock", "send"}

Active(j) == status[j] \in ActiveStatus
Running == {j \in Jobs : status[j] = "running"}
Locked(j) == \E p \in Procs : ppc[p] = "lock" /\ pjob[p] = j
Drained(j) == pool[j] = 0 /\ inflight[j] = 0
\* Mutant: no SKIP LOCKED and no row lock.
CandidatesUnlocked == {j \in Jobs : status[j] = "queued"}

Candidates == {j \in Jobs : status[j] = "queued" /\ ~Locked(j)}

\* A thread enters promote_next_queued; from is the job whose actor calls it
\* inside the try block of run_eval_job, NoJob for every other caller.
Call(p, from) ==
  /\ ppc[p] = "idle"
  /\ ppc' = [ppc EXCEPT ![p] = "max"]
  /\ pfrom' = [pfrom EXCEPT ![p] = from]
  /\ unheard' = {}
  /\ UNCHANGED <<pmax, pjob>>

Fault(kind) ==
  /\ kind \in Faults
  /\ faults < MaxFaults
  /\ faults' = faults + 1

Init ==
  /\ created = 0
  /\ status = [j \in Jobs |-> "none"]
  /\ contest = [j \in Jobs |-> NoContest]
  /\ nTotal = [j \in Jobs |-> 0]
  /\ nDone = [j \in Jobs |-> 0]
  /\ nFailed = [j \in Jobs |-> 0]
  /\ slots \in SlotLimits
  /\ broker = {}
  /\ apc = [j \in Jobs |-> "idle"]
  /\ todo = [j \in Jobs |-> 0]
  /\ pool = [j \in Jobs |-> 0]
  /\ inflight = [j \in Jobs |-> 0]
  /\ watchdogs = {}
  /\ wpc = [j \in Jobs |-> "idle"]
  /\ missing = [j \in Jobs |-> 0]
  /\ ppc = [p \in Procs |-> "idle"]
  /\ pmax = [p \in Procs |-> 0]
  /\ pjob = [p \in Procs |-> NoJob]
  /\ pfrom = [p \in Procs |-> NoJob]
  /\ faults = 0
  /\ orphaned = {} /\ redelivered = {}
  /\ unheard = {}

-----------------------------------------------------------------------------
(* The views.                                                              *)

\* QualitativeEvalTriggerView.post: a contest with an active job is joined
\* (no EvalJob changes); otherwise a queued job is created, then promoted.
Trigger(p, c) ==
  /\ created < MaxJobs
  /\ \A j \in Jobs : contest[j] = c => ~Active(j)
  /\ created' = created + 1
  /\ status' = [status EXCEPT ![created'] = "queued"]
  /\ contest' = [contest EXCEPT ![created'] = c]
  /\ Call(p, NoJob)
  /\ UNCHANGED <<counters, slots, broker, actorVars, watchVars, failVars>>

\* Mutant: the UPDATE has no condition on the status.
CancelAnyStatus(p, j) ==
  /\ status[j] # "none" /\ ~Locked(j)
  /\ status' = [status EXCEPT ![j] = "cancelled"]
  /\ Call(p, NoJob)
  /\ UNCHANGED <<created, contest, counters, slots, broker, actorVars,
                 watchVars, failVars>>

\* Mutant: a cancelled job frees its slot and nobody is promoted.
CancelWithoutPromotion(p, j) ==
  /\ Active(j) /\ ~Locked(j)
  /\ status' = [status EXCEPT ![j] = "cancelled"]
  /\ UNCHANGED <<created, contest, counters, slots, broker, actorVars,
                 promoteVars, watchVars, failVars>>

\* JobCancelView.post: a conditional UPDATE, which waits for a row lock.
Cancel(p, j) ==
  /\ Active(j) /\ ~Locked(j)
  /\ status' = [status EXCEPT ![j] = "cancelled"]
  /\ Call(p, NoJob)
  /\ UNCHANGED <<created, contest, counters, slots, broker, actorVars,
                 watchVars, failVars>>

\* EvalQueueConfigAPI.post with max_concurrent_jobs.
SetMax(p, n) ==
  /\ slots' = n
  /\ Call(p, NoJob)
  /\ UNCHANGED <<jobVars, counters, broker, actorVars, watchVars, failVars>>

-----------------------------------------------------------------------------
(* promote_next_queued.                                                    *)

\* The call goes on at pc with job as the row it holds.
Goto(p, pc, job) ==
  /\ ppc' = [ppc EXCEPT ![p] = pc]
  /\ pjob' = [pjob EXCEPT ![p] = job]

\* The call returns.
Return(p) ==
  /\ Goto(p, "idle", NoJob)
  /\ pmax' = [pmax EXCEPT ![p] = 0]
  /\ pfrom' = [pfrom EXCEPT ![p] = NoJob]

PromoteKeeps ==
  UNCHANGED <<created, contest, counters, slots, actorVars, watchVars, redelivered>>

ReadMax(p) ==
  /\ ppc[p] = "max"
  /\ Goto(p, "count", NoJob)
  /\ pmax' = [pmax EXCEPT ![p] = slots]
  /\ PromoteKeeps /\ UNCHANGED <<status, broker, pfrom, faults, orphaned, unheard>>

\* select_for_update().count() takes no row lock: Django drops FOR UPDATE
\* from an aggregate.
CountRunning(p) ==
  /\ ppc[p] = "count"
  /\ \/ Cardinality(Running) >= pmax[p] /\ Return(p)
     \/ /\ Cardinality(Running) < pmax[p]
        /\ Goto(p, "pick", NoJob)
        /\ UNCHANGED <<pmax, pfrom>>
  /\ PromoteKeeps /\ UNCHANGED <<status, broker, faults, orphaned, unheard>>

\* The oldest queued row that no other transaction has locked.
PickQueued(p) ==
  /\ ppc[p] = "pick"
  /\ \/ Candidates = {} /\ Return(p)
     \/ \E j \in Candidates :
          /\ \A k \in Candidates : j <= k
          /\ Goto(p, "lock", j)
          /\ UNCHANGED <<pmax, pfrom>>
  /\ PromoteKeeps /\ UNCHANGED <<status, broker, faults, orphaned, unheard>>

CommitRunning(p) ==
  /\ ppc[p] = "lock"
  /\ status' = [status EXCEPT ![pjob[p]] = "running"]
  /\ Goto(p, "send", pjob[p])
  /\ PromoteKeeps /\ UNCHANGED <<broker, pmax, pfrom, faults, orphaned, unheard>>

SendRun(p) ==
  /\ ppc[p] = "send"
  /\ broker' = broker \cup {pjob[p]}
  /\ Goto(p, "count", NoJob)
  /\ PromoteKeeps /\ UNCHANGED <<status, pmax, pfrom, faults, orphaned, unheard>>

\* The send raises (logged, the loop goes on), the process dies before it,
\* or the message expires in the broker.
LoseDispatch(p) ==
  /\ Fault("dispatch")
  /\ ppc[p] = "send"
  /\ orphaned' = orphaned \cup {pjob[p]}
  /\ \/ Goto(p, "count", NoJob) /\ UNCHANGED <<pmax, pfrom, unheard>>
     \/ Return(p) /\ unheard' = unheard \cup {p}
  /\ PromoteKeeps /\ UNCHANGED <<status, broker>>

\* The call ends before its commit, which rolls the transaction back: its
\* process dies, or an exception that the caller swallows.  The caller inside
\* the try block of run_eval_job does not: its handler marks the job failed
\* and promotes once more.
PromoteRaises(p) ==
  /\ Fault("promote")
  /\ ppc[p] \in {"max", "count", "pick", "lock"}
  /\ \/ /\ Return(p)
        /\ unheard' = unheard \cup {p}
        /\ UNCHANGED status
     \/ /\ pfrom[p] # NoJob
        /\ status' = [status EXCEPT ![pfrom[p]] = "failed"]
        /\ Goto(p, "max", NoJob)
        /\ pmax' = [pmax EXCEPT ![p] = 0]
        /\ pfrom' = [pfrom EXCEPT ![p] = NoJob]
        /\ unheard' = {}
  /\ PromoteKeeps /\ UNCHANGED <<broker, orphaned>>

-----------------------------------------------------------------------------
(* run_eval_job and the pairs of its pool.                                 *)

ActorGoto(j, pc) == apc' = [apc EXCEPT ![j] = pc]

\* The actor starts on a delivered message and skips a job that is not active.
Deliver(j) ==
  /\ j \in broker /\ apc[j] = "idle"
  /\ broker' = broker \ {j}
  /\ ActorGoto(j, IF Active(j) THEN "start" ELSE "idle")
  /\ UNCHANGED <<jobVars, counters, slots, todo, pool, inflight, watchVars,
                 promoteVars, failVars>>

\* The UPDATE to running has no condition on the status.  When the job was
\* finalised meanwhile and its contest has another active job, the unique
\* constraint refuses it and the actor dies with the IntegrityError.
MarkStarted(j) ==
  /\ apc[j] = "start"
  /\ IF \E k \in Jobs \ {j} : contest[k] = contest[j] /\ Active(k)
       THEN ActorGoto(j, "idle") /\ UNCHANGED status
       ELSE /\ status' = [status EXCEPT ![j] = "running"]
            /\ ActorGoto(j, "snapshot")
  /\ UNCHANGED <<created, contest, counters, slots, broker, todo, pool,
                 inflight, watchVars, promoteVars, failVars>>

\* The snapshot stage: n pairs to evaluate, the counters start again.
BuildPending(j, n) ==
  /\ apc[j] = "snapshot"
  /\ todo' = [todo EXCEPT ![j] = n]
  /\ nTotal' = [nTotal EXCEPT ![j] = n]
  /\ nDone' = [nDone EXCEPT ![j] = 0]
  /\ nFailed' = [nFailed EXCEPT ![j] = 0]
  /\ ActorGoto(j, IF n = 0 THEN "empty" ELSE "submit")
  /\ UNCHANGED <<jobVars, slots, broker, pool, inflight, watchVars,
                 promoteVars, failVars>>

FinishEmpty(p, j) ==
  /\ apc[j] = "empty"
  /\ status' = [status EXCEPT ![j] = IF @ = "running" THEN "done" ELSE @]
  /\ ActorGoto(j, "idle")
  /\ Call(p, j)
  /\ UNCHANGED <<created, contest, counters, slots, broker, todo, pool,
                 inflight, watchVars, failVars>>

\* One round of the submit loop: the job is looked up before each submit.
Submit(j) ==
  /\ apc[j] = "submit"
  /\ \/ /\ todo[j] > 0 /\ Active(j)
        /\ todo' = [todo EXCEPT ![j] = @ - 1]
        /\ pool' = [pool EXCEPT ![j] = @ + 1]
        /\ UNCHANGED apc
     \/ /\ todo[j] = 0 \/ ~Active(j)
        /\ todo' = [todo EXCEPT ![j] = 0]
        /\ ActorGoto(j, "wait")
        /\ UNCHANGED pool
  /\ UNCHANGED <<jobVars, counters, slots, broker, inflight, watchVars,
                 promoteVars, failVars>>

\* A pool thread takes a pair; _evaluate_pair drops it when the job is not
\* active, and then counts nothing.
StartPair(j) ==
  /\ pool[j] > 0 /\ inflight[j] < PairWorkers
  /\ pool' = [pool EXCEPT ![j] = @ - 1]
  /\ inflight' = [inflight EXCEPT ![j] = IF Active(j) THEN @ + 1 ELSE @]
  /\ UNCHANGED <<jobVars, counters, slots, broker, apc, todo, watchVars,
                 promoteVars, failVars>>

\* _bump_job_counter: one of the counters goes up, whatever the status is.
EndPair(j, ok) ==
  /\ inflight[j] > 0
  /\ inflight' = [inflight EXCEPT ![j] = @ - 1]
  /\ nDone' = [nDone EXCEPT ![j] = IF ok THEN @ + 1 ELSE @]
  /\ nFailed' = [nFailed EXCEPT ![j] = IF ok THEN @ ELSE @ + 1]
  /\ UNCHANGED <<created, contest, nTotal, slots, broker, apc, todo, pool,
                 watchVars, failVars>>

\* Mutant: off by one.
CompletesEarly(j) == status[j] = "running" /\ nDone'[j] + nFailed'[j] + 1 >= nTotal[j]

Completes(j) == status[j] = "running" /\ nDone'[j] + nFailed'[j] >= nTotal[j]

CountPair(j, ok) ==
  /\ EndPair(j, ok)
  /\ ~Completes(j)
  /\ UNCHANGED <<status, promoteVars>>

CountLastPair(p, j, ok) ==
  /\ EndPair(j, ok)
  /\ Completes(j)
  /\ status' = [status EXCEPT ![j] = "done"]
  /\ Call(p, NoJob)

LoseCount(j) ==
  /\ Fault("counter")
  /\ inflight[j] > 0
  /\ inflight' = [inflight EXCEPT ![j] = @ - 1]
  /\ UNCHANGED <<jobVars, counters, slots, broker, apc, todo, pool, watchVars,
                 promoteVars, orphaned, redelivered>>

\* Mutant: the watchdog is sent while the pool still works.
JoinPoolEarly(j) ==
  /\ apc[j] = "wait"
  /\ ActorGoto(j, "ack")
  /\ watchdogs' = watchdogs \cup {j}
  /\ UNCHANGED <<jobVars, counters, slots, broker, todo, pool, inflight, wpc,
                 missing, promoteVars, failVars>>

\* Mutant: no watchdog.
JoinPoolUnwatched(j) ==
  /\ apc[j] = "wait" /\ Drained(j)
  /\ ActorGoto(j, "ack")
  /\ UNCHANGED <<jobVars, counters, slots, broker, todo, pool, inflight,
                 watchVars, promoteVars, failVars>>

\* All futures are joined; only now is the watchdog sent.
JoinPool(j) ==
  /\ apc[j] = "wait" /\ Drained(j)
  /\ ActorGoto(j, "ack")
  /\ \/ /\ watchdogs' = watchdogs \cup {j}
        /\ UNCHANGED <<faults, orphaned>>
     \/ /\ Fault("dispatch")
        /\ orphaned' = orphaned \cup {j}
        /\ UNCHANGED watchdogs
  /\ UNCHANGED <<jobVars, counters, slots, broker, todo, pool, inflight, wpc,
                 missing, promoteVars, redelivered>>

Ack(j) ==
  /\ \/ apc[j] = "ack"
     \/ apc[j] = "drain" /\ Drained(j)
  /\ ActorGoto(j, "idle")
  /\ UNCHANGED <<jobVars, counters, slots, broker, todo, pool, inflight,
                 watchVars, promoteVars, failVars>>

\* An Exception in the try block; inside the with block the pool is joined
\* before the handler runs.
ActorError(j) ==
  /\ Fault("error")
  /\ apc[j] \in {"snapshot", "empty", "submit"}
  /\ ActorGoto(j, "raise")
  /\ todo' = [todo EXCEPT ![j] = 0]
  /\ UNCHANGED <<jobVars, counters, slots, broker, pool, inflight, watchVars,
                 promoteVars, orphaned, redelivered>>

\* Mutant: the handler only logs the error.
FailJobSilently(p, j) ==
  /\ apc[j] = "raise" /\ Drained(j)
  /\ ActorGoto(j, "idle")
  /\ Call(p, NoJob)
  /\ UNCHANGED <<jobVars, counters, slots, broker, todo, pool, inflight,
                 watchVars, failVars>>

\* The handler marks the job failed with no condition on its status.
FailJob(p, j) ==
  /\ apc[j] = "raise" /\ Drained(j)
  /\ status' = [status EXCEPT ![j] = "failed"]
  /\ ActorGoto(j, "idle")
  /\ Call(p, NoJob)
  /\ UNCHANGED <<created, contest, counters, slots, broker, todo, pool,
                 inflight, watchVars, failVars>>

\* TimeLimitExceeded passes every "except Exception": the pool is joined and
\* the actor ends, with no retry, no watchdog and no change of the job.
TimeLimit(j) ==
  /\ Fault("timelimit")
  /\ apc[j] \in {"start", "snapshot", "empty", "submit", "wait"}
  /\ ActorGoto(j, IF apc[j] \in {"submit", "wait"} THEN "drain" ELSE "idle")
  /\ orphaned' = orphaned \cup {j}
  /\ todo' = [todo EXCEPT ![j] = 0]
  /\ UNCHANGED <<jobVars, counters, slots, broker, pool, inflight, watchVars,
                 promoteVars, redelivered>>

\* The worker process dies: its threads stop, the unacknowledged message is
\* delivered again.
Crash(j) ==
  /\ Fault("crash")
  /\ apc[j] # "idle"
  /\ ActorGoto(j, "idle")
  /\ todo' = [todo EXCEPT ![j] = 0]
  /\ pool' = [pool EXCEPT ![j] = 0]
  /\ inflight' = [inflight EXCEPT ![j] = 0]
  /\ broker' = broker \cup {j}
  /\ redelivered' = redelivered \cup {j}
  /\ UNCHANGED <<jobVars, counters, slots, watchVars, promoteVars, orphaned>>

-----------------------------------------------------------------------------
(* finalize_stuck_job.                                                     *)

ReadStuck(j) ==
  /\ j \in watchdogs /\ wpc[j] = "idle"
  /\ watchdogs' = watchdogs \ {j}
  /\ \/ /\ Active(j)
        /\ wpc' = [wpc EXCEPT ![j] = "read"]
        /\ missing' = [missing EXCEPT ![j] = nTotal[j] - (nDone[j] + nFailed[j])]
     \/ ~Active(j) /\ UNCHANGED <<wpc, missing>>
  /\ UNCHANGED <<jobVars, counters, slots, broker, actorVars, promoteVars, failVars>>

Finalize(p, j) ==
  /\ wpc[j] = "read"
  /\ wpc' = [wpc EXCEPT ![j] = "idle"]
  /\ missing' = [missing EXCEPT ![j] = 0]
  /\ \/ /\ Active(j)
        /\ status' = [status EXCEPT ![j] = IF missing[j] <= 0 THEN "done" ELSE "failed"]
        /\ nFailed' = [nFailed EXCEPT ![j] = IF missing[j] <= 0 THEN @ ELSE @ + missing[j]]
     \/ ~Active(j) /\ UNCHANGED <<status, nFailed>>
  /\ Call(p, NoJob)
  /\ UNCHANGED <<created, contest, nTotal, nDone, slots, broker, actorVars,
                 watchdogs, failVars>>

CrashWatchdog(j) ==
  /\ Fault("crash")
  /\ wpc[j] = "read"
  /\ wpc' = [wpc EXCEPT ![j] = "idle"]
  /\ missing' = [missing EXCEPT ![j] = 0]
  /\ watchdogs' = watchdogs \cup {j}
  /\ UNCHANGED <<jobVars, counters, slots, broker, actorVars, promoteVars,
                 orphaned, redelivered>>

-----------------------------------------------------------------------------

Views(p) ==
  \/ \E c \in Contests : Trigger(p, c)
  \/ \E j \in Jobs : Cancel(p, j)
  \/ \E n \in SlotLimits : SetMax(p, n)

Promote(p) ==
  \/ ReadMax(p) \/ CountRunning(p) \/ PickQueued(p) \/ CommitRunning(p)
  \/ SendRun(p)

\* The steps of an actor that a running system takes by itself.
Actor(j) ==
  \/ Deliver(j) \/ MarkStarted(j) \/ (\E n \in 0 .. MaxPairs : BuildPending(j, n))
  \/ Submit(j) \/ StartPair(j) \/ JoinPool(j) \/ Ack(j)
  \/ \E ok \in BOOLEAN : CountPair(j, ok)

\* Those that end with a call of promote_next_queued.
ActorEnds(p, j) ==
  \/ FinishEmpty(p, j) \/ FailJob(p, j) \/ Finalize(p, j)
  \/ \E ok \in BOOLEAN : CountLastPair(p, j, ok)

Failure ==
  \/ \E p \in Procs : LoseDispatch(p) \/ PromoteRaises(p)
  \/ \E j \in Jobs : \/ LoseCount(j) \/ ActorError(j) \/ TimeLimit(j)
                     \/ Crash(j) \/ CrashWatchdog(j)

Next ==
  \/ \E p \in Procs : Views(p) \/ Promote(p)
  \/ \E j \in Jobs : Actor(j) \/ ReadStuck(j)
  \/ \E p \in Procs, j \in Jobs : ActorEnds(p, j)
  \/ Failure

Spec == Init /\ [][Next]_vars

\* Threads run, the broker delivers, LLM calls return or time out.  Steps that
\* end in a promotion are strongly fair only because the bound Procs can make
\* them wait; in the code the caller's own thread runs the promotion.
Fairness ==
  /\ \A p \in Procs : WF_vars(Promote(p))
  /\ \A j \in Jobs : WF_vars(Actor(j)) /\ WF_vars(ReadStuck(j))
  /\ \A j \in Jobs : SF_vars(\E p \in Procs : ActorEnds(p, j))

FairSpec == Spec /\ Fairness
-----------------------------------------------------------------------------
(* Properties.                                                             *)

\* Every variable has its type.
TypeOK ==
  /\ created \in 0 .. MaxJobs
  /\ status \in [Jobs -> {"none"} \cup ActiveStatus \cup FinalStatus]
  /\ contest \in [Jobs -> Contests \cup {NoContest}]
  /\ nTotal \in [Jobs -> Nat] /\ nDone \in [Jobs -> Nat] /\ nFailed \in [Jobs -> Nat]
  /\ slots \in SlotLimits
  /\ broker \subseteq Jobs
  /\ apc \in [Jobs -> ActorPc]
  /\ todo \in [Jobs -> Nat] /\ pool \in [Jobs -> Nat] /\ inflight \in [Jobs -> Nat]
  /\ watchdogs \subseteq Jobs
  /\ wpc \in [Jobs -> {"idle", "read"}]
  /\ missing \in [Jobs -> Int]
  /\ ppc \in [Procs -> PromotePc]
  /\ pmax \in [Procs -> Nat]
  /\ pjob \in [Procs -> Jobs \cup {NoJob}]
  /\ \A p \in Procs : ppc[p] \in {"lock", "send"} => pjob[p] \in Jobs
  /\ pfrom \in [Procs -> Jobs \cup {NoJob}]
  /\ unheard \subseteq Procs
  /\ faults \in Nat
  /\ orphaned \subseteq Jobs /\ redelivered \subseteq Jobs

\* Somebody will still end the job: its message, its actor, a promotion that
\* has yet to send the message, or its watchdog.
Owned(j) ==
  \/ j \in broker \/ apc[j] # "idle"
  \/ \E p \in Procs : ppc[p] = "send" /\ pjob[p] = j
  \/ j \in watchdogs \/ wpc[j] # "idle"

\* A running job holds a slot (slots.py get_in_flight counts the rows), so it
\* must have an owner that frees it.  The only running jobs without one are
\* those whose send, actor or watchdog was lost: worker crashes, errors in
\* the actor and lost counter updates leak no slot.
RunningIsOwned == \A j \in Jobs : status[j] = "running" => Owned(j) \/ j \in orphaned

\* At most one run_eval_job works on a job: a message is in the broker only
\* while no actor of the job runs and no promotion is about to send another,
\* and no two promotions hold the same job.  Two would reset each other's
\* counters.
OneOrchestrator ==
  /\ \A j \in broker : apc[j] = "idle"
  /\ \A p \in Procs : ppc[p] = "send" => pjob[p] \notin broker /\ apc[pjob[p]] = "idle"
  /\ \A p, q \in Procs :
       ppc[p] \in {"lock", "send"} /\ ppc[q] \in {"lock", "send"} /\ pjob[p] = pjob[q] => p = q

\* A call of promote_next_queued that will count the running jobs again, with
\* a limit that is not below the current one.
Attentive(p) ==
  \/ ppc[p] = "max"
  \/ ppc[p] \in {"count", "pick", "lock", "send"} /\ pmax[p] >= slots

\* No lost wakeup: when a queued job waits although a slot is free, some call
\* of promote_next_queued is going to see it, however many calls, slot
\* changes, cancellations and ends of jobs interleave.
NoLostWakeup ==
  Candidates # {} /\ Cardinality(Running) < slots /\ unheard = {} =>
    \E p \in Procs : Attentive(p)

\* A job is reported done only when no pair of it is pending or being
\* evaluated, unless its message was delivered again after a crash.
DoneIsComplete ==
  \A j \in Jobs : status[j] = "done" =>
    todo[j] + pool[j] + inflight[j] = 0 \/ j \in redelivered

\* The counters never exceed n_total, so the progress that the views show is
\* at most 100 percent, and with the pairs still to come they never will;
\* the watchdog's correction of n_failed cannot count a pair twice.
CountersWithinTotal ==
  \A j \in Jobs :
    nDone[j] + nFailed[j] + todo[j] + pool[j] + inflight[j] <= nTotal[j] \/ j \in redelivered

\* The queue implements EvalJobs: an actor claims its job from the delivery of
\* the message until it returns from its last promotion.
Claimed == {j \in Jobs : apc[j] # "idle" \/ \E p \in Procs : pfrom[p] = j}
Lifecycle == INSTANCE EvalJobs WITH claimed <- Claimed
ImplementsLifecycle == Lifecycle!Spec

\* Every queued job ends, although workers crash, pairs fail and counter
\* updates get lost.
EveryJobEnds == \A j \in Jobs : status[j] = "queued" ~> status[j] \in FinalStatus

-----------------------------------------------------------------------------
(* What the repository says and the code does not do.                      *)

\* "running jobs are counted, beyond the limit a request waits as QUEUED"
\* (slots.py) and "SELECT FOR UPDATE avoids the race" (promote_next_queued):
\* two calls that count before either commits both promote.
SlotLimit == Cardinality(Running) <= slots

\* "QUEUED/RUNNING -> CANCELLED; the pairs skip themselves" (JobCancelView):
\* an actor that read the job before the cancellation makes it run again.
CancelIsFinal == [][\A j \in Jobs : status[j] = "cancelled" => status'[j] = "cancelled"]_vars
=============================================================================
