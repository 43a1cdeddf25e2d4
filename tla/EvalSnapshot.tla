----------------------------- MODULE EvalSnapshot -----------------------------
(***************************************************************************)
(* What the evaluation jobs of one contest store: the frozen final         *)
(* submission of each pair (student, problem) and the two evaluations of   *)
(* it, EvalQualitative and EvalAIUsage.  Students keep submitting, jobs of *)
(* the three modes follow each other, a cancelled job's pairs finish while *)
(* the next job runs, and a worker that dies has its message delivered     *)
(* again.                                                                  *)
(*                                                                         *)
(* EvalQueue models how a job gets its slot and its messages; here a       *)
(* triggered job runs at once.  A code stands for the submissions with     *)
(* that code_hash, an evaluation for the code that the LLM saw.            *)
(***************************************************************************)
EXTENDS Integers, FiniteSets

CONSTANTS
  Pairs,        \* (student, problem)
  Codes,        \* code hashes
  NoCode,       \* no submission, or no snapshot
  MaxJobs,      \* bound: jobs triggered
  PairWorkers,  \* threads of one job's pool
  Retries,      \* EVAL_LLM_RETRIES
  MaxSubmits,   \* bound: judged submissions
  MaxFaults     \* bound: crashes and pairs that raise

ASSUME PairAssumption == IsFiniteSet(Pairs)
ASSUME CodeAssumption ==
  NoCode \notin Codes /\ {"none", "error"} \cap (Codes \cup {NoCode}) = {}
ASSUME BoundAssumption ==
  MaxJobs \in Nat /\ MaxSubmits \in Nat /\ MaxFaults \in Nat
  /\ Retries \in Nat /\ PairWorkers \in Nat \ {0}

Jobs == 1 .. MaxJobs
Modes == {"pending", "all", "failed"}

VARIABLES
  final,     \* code of the latest judged submission of a pair
  snap,      \* EvalSubmissionSnapshot.code of a pair
  qual, ai,  \* the evaluations: "none", "error" or the code evaluated
  status,    \* EvalJob.status, "none" before the row exists
  mode,      \* EvalJob.mode
  opc,       \* where run_eval_job of a job stands
  finals,    \* the final submissions it read
  existing,  \* the snapshots it read
  todo,      \* the pairs it has still to evaluate
  ev,        \* where the evaluation of a pair by a job stands
  code,      \* the snapshot code that evaluation loaded
  tries,     \* calls of the LLM that failed in the current evaluation
  failing,   \* pairs whose evaluation by the job has failed so far
  nTotal,    \* EvalJob.n_total
  done,      \* pairs counted in n_done
  failed,    \* pairs counted in n_failed
  submits, faults,  \* how many so far
  stale,     \* history: pairs refrozen while an evaluation of them ran
  overlap    \* history: jobs triggered while an earlier one was at work

store == <<snap, qual, ai>>
jobVars == <<status, mode>>
readVars == <<finals, existing>>
pairVars == <<todo, ev, code, tries, failing>>
counters == <<nTotal, done, failed>>
bounds == <<submits, faults>>
vars == <<final, store, jobVars, opc, readVars, pairVars, counters, bounds,
          stale, overlap>>

-----------------------------------------------------------------------------

NoCodes == [k \in Pairs |-> NoCode]
Active(j) == status[j] = "running"
Forced(j) == mode[j] # "pending"
Working(j) == {k \in Pairs : ev[j][k] # "idle"}
AtWork(j) == opc[j] # "idle" \/ Working(j) # {}

Init ==
  /\ final = NoCodes /\ snap = NoCodes
  /\ qual = [k \in Pairs |-> "none"] /\ ai = [k \in Pairs |-> "none"]
  /\ status = [j \in Jobs |-> "none"] /\ mode = [j \in Jobs |-> "pending"]
  /\ opc = [j \in Jobs |-> "idle"]
  /\ finals = [j \in Jobs |-> NoCodes] /\ existing = [j \in Jobs |-> NoCodes]
  /\ todo = [j \in Jobs |-> {}]
  /\ ev = [j \in Jobs |-> [k \in Pairs |-> "idle"]]
  /\ code = [j \in Jobs |-> NoCodes]
  /\ tries = [j \in Jobs |-> [k \in Pairs |-> 0]]
  /\ failing = [j \in Jobs |-> {}]
  /\ nTotal = [j \in Jobs |-> 0]
  /\ done = [j \in Jobs |-> {}] /\ failed = [j \in Jobs |-> {}]
  /\ submits = 0 /\ faults = 0
  /\ stale = {} /\ overlap = {}

Fault == faults < MaxFaults /\ faults' = faults + 1 /\ UNCHANGED submits

-----------------------------------------------------------------------------
(* Students, and the views.                                                *)

\* A submission is judged; list_final_submissions takes the latest one.
Submit(k, c) ==
  /\ submits < MaxSubmits /\ submits' = submits + 1
  /\ final' = [final EXCEPT ![k] = c]
  /\ UNCHANGED <<store, jobVars, opc, readVars, pairVars, counters, faults, stale, overlap>>

\* One active job per contest.
Trigger(j, m) ==
  /\ status[j] = "none" /\ \A i \in Jobs : ~Active(i) /\ (i < j => status[i] # "none")
  /\ status' = [status EXCEPT ![j] = "running"]
  /\ mode' = [mode EXCEPT ![j] = m]
  /\ opc' = [opc EXCEPT ![j] = "start"]
  /\ overlap' = IF \E i \in Jobs : AtWork(i) THEN overlap \cup {j} ELSE overlap
  /\ UNCHANGED <<final, store, readVars, pairVars, counters, bounds, stale>>

Cancel(j) ==
  /\ Active(j)
  /\ status' = [status EXCEPT ![j] = "cancelled"]
  /\ UNCHANGED <<final, store, mode, opc, readVars, pairVars, counters, bounds, stale, overlap>>

-----------------------------------------------------------------------------
(* run_eval_job: the snapshot stage.                                       *)

Goto(j, pc) == opc' = [opc EXCEPT ![j] = pc]

\* An actor that finds its job inactive returns; snapshot_submissions reads
\* the final submissions and the existing snapshots.  Mode failed skips it.
Begin(j) ==
  /\ opc[j] = "start"
  /\ \/ ~Active(j) /\ Goto(j, "idle") /\ UNCHANGED readVars
     \/ Active(j) /\ mode[j] = "failed" /\ Goto(j, "pending") /\ UNCHANGED readVars
     \/ /\ Active(j) /\ mode[j] # "failed"
        /\ finals' = [finals EXCEPT ![j] = final]
        /\ existing' = [existing EXCEPT ![j] = snap]
        /\ Goto(j, "freeze")
  /\ UNCHANGED <<final, store, jobVars, pairVars, counters, bounds, stale, overlap>>

\* The pairs to freeze: no snapshot was there, its code changed, or mode all.
Refresh(j) ==
  {k \in Pairs : finals[j][k] # NoCode /\ (mode[j] = "all" \/ existing[j][k] # finals[j][k])}

\* A snapshot that was absent when it was read and is there now.
Conflict(j) == \E k \in Refresh(j) : existing[j][k] = NoCode /\ snap[k] # NoCode

Reread(j) ==
  /\ finals' = [finals EXCEPT ![j] = NoCodes]
  /\ existing' = [existing EXCEPT ![j] = NoCodes]

\* Mutant: the snapshot gets its new code and keeps its evaluations.
FreezeKeepsRows(j) ==
  /\ opc[j] = "freeze" /\ ~Conflict(j)
  /\ snap' = [k \in Pairs |-> IF k \in Refresh(j) THEN finals[j][k] ELSE snap[k]]
  /\ todo' = [todo EXCEPT ![j] = Refresh(j)]
  /\ stale' = stale \cup {k \in Refresh(j) : \E i \in Jobs : ev[i][k] \in {"qual", "ai"}}
  /\ Reread(j) /\ Goto(j, "pending")
  /\ UNCHANGED <<final, qual, ai, jobVars, ev, code, tries, failing, counters, bounds, overlap>>

\* The transaction of snapshot_submissions: the evaluations of a refreshed
\* snapshot are deleted and its code is replaced.
Freeze(j) ==
  /\ opc[j] = "freeze" /\ ~Conflict(j)
  /\ snap' = [k \in Pairs |-> IF k \in Refresh(j) THEN finals[j][k] ELSE snap[k]]
  /\ qual' = [k \in Pairs |-> IF k \in Refresh(j) THEN "none" ELSE qual[k]]
  /\ ai' = [k \in Pairs |-> IF k \in Refresh(j) THEN "none" ELSE ai[k]]
  /\ todo' = [todo EXCEPT ![j] = Refresh(j)]
  /\ stale' = stale \cup {k \in Refresh(j) : \E i \in Jobs : ev[i][k] \in {"qual", "ai"}}
  /\ Reread(j) /\ Goto(j, "pending")
  /\ UNCHANGED <<final, jobVars, ev, code, tries, failing, counters, bounds, overlap>>

\* Two overlapping actors create the same snapshot: the unique constraint
\* rolls the transaction back and the handler marks the job failed.
FreezeConflict(j) ==
  /\ opc[j] = "freeze" /\ Conflict(j)
  /\ status' = [status EXCEPT ![j] = "failed"]
  /\ Reread(j) /\ Goto(j, "idle")
  /\ UNCHANGED <<final, store, mode, pairVars, counters, bounds, stale, overlap>>

\* Mutant: failed_qual & failed_ai.
PendingBothFailed(j) ==
  CASE mode[j] = "all"     -> todo[j]
    [] mode[j] = "pending" -> {k \in todo[j] : qual[k] = "none" \/ ai[k] = "none"}
    [] mode[j] = "failed"  -> {k \in Pairs : snap[k] # NoCode /\ qual[k] = "error" /\ ai[k] = "error"}

\* The pairs that the job evaluates.
Pending(j) ==
  CASE mode[j] = "all"     -> todo[j]
    [] mode[j] = "pending" -> {k \in todo[j] : qual[k] = "none" \/ ai[k] = "none"}
    [] mode[j] = "failed"  -> {k \in Pairs : snap[k] # NoCode /\ (qual[k] = "error" \/ ai[k] = "error")}

BuildPending(j) ==
  /\ opc[j] = "pending"
  /\ todo' = [todo EXCEPT ![j] = Pending(j)]
  /\ nTotal' = [nTotal EXCEPT ![j] = Cardinality(Pending(j))]
  /\ done' = [done EXCEPT ![j] = {}]
  /\ failed' = [failed EXCEPT ![j] = {}]
  /\ status' = [status EXCEPT ![j] = IF Pending(j) = {} /\ @ = "running" THEN "done" ELSE @]
  /\ Goto(j, IF Pending(j) = {} THEN "idle" ELSE "work")
  /\ UNCHANGED <<final, store, mode, readVars, ev, code, tries, failing, bounds, stale, overlap>>

-----------------------------------------------------------------------------
(* _evaluate_pair in the pool of run_eval_job.                             *)

Step(j, k, pc) == ev' = [ev EXCEPT ![j][k] = pc]

\* A thread takes a pair; the pre-check drops it when the job is not active.
StartPair(j, k) ==
  /\ opc[j] = "work" /\ k \in todo[j] /\ Cardinality(Working(j)) < PairWorkers
  /\ todo' = [todo EXCEPT ![j] = @ \ {k}]
  /\ Step(j, k, IF Active(j) THEN "load" ELSE "idle")
  /\ UNCHANGED <<final, store, jobVars, opc, readVars, code, tries, failing, counters,
                 bounds, stale, overlap>>

\* The snapshot is loaded; a pair with both rows counts as done unless forced.
LoadPair(j, k) ==
  /\ ev[j][k] = "load"
  /\ code' = [code EXCEPT ![j][k] = snap[k]]
  /\ Step(j, k, IF qual[k] # "none" /\ ai[k] # "none" /\ ~Forced(j) THEN "count" ELSE "qual")
  /\ UNCHANGED <<final, store, jobVars, opc, readVars, todo, tries, failing, counters,
                 bounds, stale, overlap>>

\* What the gateway may answer: nothing, another status, no choice in it; a
\* choice without text, a text without the object that is asked for, or one
\* with it.
Replies == {"unreachable", "status", "shapeless", "null", "prose", "object"}

\* LLMClient.complete: the text of the answer, or its error.
complete(reply) ==
  IF reply \in {"unreachable", "status", "shapeless"} THEN "client error" ELSE reply

\* The two parse_response; one that is given no text raises a TypeError.
parse_response(text) ==
  CASE text = "object" -> "parsed"
    [] text = "null"   -> "raises"
    [] text = "prose"  -> "response error"
    [] OTHER           -> text

Errors == {"client error", "response error"}

Call(j, k, reply, outcomes) ==
  /\ ev[j][k] \in {"qual", "ai"}
  /\ parse_response(complete(reply)) \in outcomes

\* call_with_retry: after either error it waits and calls again.
CallAgain(j, k, reply) ==
  /\ Call(j, k, reply, Errors)
  /\ tries[j][k] < Retries
  /\ tries' = [tries EXCEPT ![j][k] = @ + 1]
  /\ UNCHANGED <<final, store, jobVars, opc, readVars, todo, ev, code, failing, counters,
                 bounds, stale, overlap>>

\* The row that the last call leaves: a result for the code it saw, or an error.
Outcome(j, k, ok) == IF ok THEN code[j][k] ELSE "error"

\* Mutant: had_error is not set.
JudgedSilently(j, k, ok) ==
  /\ tries' = [tries EXCEPT ![j][k] = 0]
  /\ UNCHANGED <<final, snap, jobVars, opc, readVars, todo, code, failing, counters,
                 bounds, stale, overlap>>

Judged(j, k, ok) ==
  /\ tries' = [tries EXCEPT ![j][k] = 0]
  /\ failing' = [failing EXCEPT ![j] = IF ok THEN @ ELSE @ \cup {k}]
  /\ UNCHANGED <<final, snap, jobVars, opc, readVars, todo, code, counters, bounds, stale, overlap>>

Evaluated(j, k, reply, ok) ==
  IF ok THEN Call(j, k, reply, {"parsed"})
        ELSE Call(j, k, reply, Errors) /\ tries[j][k] = Retries

WriteQual(j, k, reply, ok) ==
  /\ ev[j][k] = "qual" /\ Evaluated(j, k, reply, ok)
  /\ qual' = [qual EXCEPT ![k] = Outcome(j, k, ok)]
  /\ Step(j, k, "ai") /\ Judged(j, k, ok) /\ UNCHANGED ai

WriteAI(j, k, reply, ok) ==
  /\ ev[j][k] = "ai" /\ Evaluated(j, k, reply, ok)
  /\ ai' = [ai EXCEPT ![k] = Outcome(j, k, ok)]
  /\ Step(j, k, "count") /\ Judged(j, k, ok) /\ UNCHANGED qual

Raised(j, k) ==
  /\ Step(j, k, "count")
  /\ tries' = [tries EXCEPT ![j][k] = 0]
  /\ failing' = [failing EXCEPT ![j] = @ \cup {k}]
  /\ UNCHANGED <<final, store, jobVars, opc, readVars, todo, code, counters, stale, overlap>>

\* Any other exception ends the evaluation as a failure, with the rows as
\* they are: that of the parser, the time limit, the database.
ParserRaises(j, k, reply) ==
  /\ Call(j, k, reply, {"raises"})
  /\ Fault
  /\ Raised(j, k)

PairRaises(j, k) ==
  /\ ev[j][k] \in {"load", "qual", "ai"}
  /\ Fault
  /\ Raised(j, k)

\* _bump_job_counter, and the end of the job when every pair is counted.
CountPair(j, k) ==
  /\ ev[j][k] = "count"
  /\ Step(j, k, "idle")
  /\ done' = [done EXCEPT ![j] = IF k \in failing[j] THEN @ ELSE @ \cup {k}]
  /\ failed' = [failed EXCEPT ![j] = IF k \in failing[j] THEN @ \cup {k} ELSE @]
  /\ status' = [status EXCEPT ![j] =
       IF @ = "running" /\ Cardinality(done'[j]) + Cardinality(failed'[j]) >= nTotal[j]
         THEN "done" ELSE @]
  /\ code' = [code EXCEPT ![j][k] = NoCode]
  /\ failing' = [failing EXCEPT ![j] = @ \ {k}]
  /\ UNCHANGED <<final, store, mode, opc, readVars, todo, tries, nTotal, bounds, stale, overlap>>

\* The pool is joined.
Return(j) ==
  /\ opc[j] = "work" /\ todo[j] = {} /\ Working(j) = {}
  /\ Goto(j, "idle")
  /\ UNCHANGED <<final, store, jobVars, readVars, pairVars, counters, bounds, stale, overlap>>

\* The worker dies and the broker delivers the message again.
Crash(j) ==
  /\ opc[j] # "idle"
  /\ Fault
  /\ Goto(j, "start") /\ Reread(j)
  /\ todo' = [todo EXCEPT ![j] = {}]
  /\ ev' = [ev EXCEPT ![j] = [k \in Pairs |-> "idle"]]
  /\ code' = [code EXCEPT ![j] = NoCodes]
  /\ tries' = [tries EXCEPT ![j] = [k \in Pairs |-> 0]]
  /\ failing' = [failing EXCEPT ![j] = {}]
  /\ UNCHANGED <<final, store, jobVars, counters, stale, overlap>>

-----------------------------------------------------------------------------

Next ==
  \/ \E k \in Pairs, c \in Codes : Submit(k, c)
  \/ \E j \in Jobs : \/ \E m \in Modes : Trigger(j, m)
                     \/ Cancel(j) \/ Begin(j) \/ Freeze(j) \/ FreezeConflict(j)
                     \/ BuildPending(j) \/ Return(j) \/ Crash(j)
  \/ \E j \in Jobs, k \in Pairs :
       \/ StartPair(j, k) \/ LoadPair(j, k) \/ PairRaises(j, k) \/ CountPair(j, k)
       \/ \E reply \in Replies :
            \/ CallAgain(j, k, reply) \/ ParserRaises(j, k, reply)
            \/ \E ok \in BOOLEAN : WriteQual(j, k, reply, ok) \/ WriteAI(j, k, reply, ok)

Spec == Init /\ [][Next]_vars

-----------------------------------------------------------------------------
(* Properties.                                                             *)

Matches(k) == qual[k] \in {"none", "error", snap[k]} /\ ai[k] \in {"none", "error", snap[k]}

\* An evaluation is of the code that its snapshot shows, through resubmissions,
\* cancellations, forced jobs and crashes.  The only exception is a pair that
\* was frozen again while an older evaluation of it was waiting for the LLM.
EvaluationMatches == \A k \in Pairs : Matches(k) \/ k \in stale

\* The job triggered last.
Last(j) == status[j] # "none" /\ \A i \in Jobs : i > j => status[i] = "none"

\* When a forced job (all, failed) is done, the only pairs left with an error
\* row are those it counts in n_failed, also after a redelivery.
ErrorsAreReported ==
  \A j \in Jobs \ overlap : Last(j) /\ status[j] = "done" /\ Forced(j) =>
    \A k \in Pairs : qual[k] = "error" \/ ai[k] = "error" => k \in failed[j]

\* A pair that the last job counts as evaluated has both evaluations, of the
\* code of its snapshot and without an error.
CountedIsStored ==
  \A j \in Jobs \ overlap : Last(j) /\ (opc[j] = "work" \/ status[j] = "done") =>
    \A k \in done[j] : qual[k] = snap[k] /\ ai[k] = snap[k]
=============================================================================
