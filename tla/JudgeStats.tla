----------------------------- MODULE JudgeStats -----------------------------
(***************************************************************************)
(* What a judgement adds to the counters of problems, to the profile of    *)
(* the author and to the ranks of a contest (judge/dispatcher.py), and the *)
(* log of pasting that a submission writes into the same profile           *)
(* (submission/views/oj.py).                                               *)
(*                                                                         *)
(* A thread is a web request or a worker.  The statistics of a judgement   *)
(* are one transaction: its row locks are steps, its writes become visible *)
(* at its commit.  The profile is read under the lock of the User row but  *)
(* is not locked itself; the log reads and saves it without any lock.      *)
(* One ACM and one OI contest; submission numbers, which nothing reads,    *)
(* are kept for problems only.                                             *)
(***************************************************************************)
EXTENDS Sequences, Totals, TLC

CONSTANTS
  Users, Threads,
  Problems,
  Acm,          \* problems with rule ACM, the others have rule OI
  Contest,      \* problems of the contest of their rule
  None,
  Loads         \* bounds: what a behaviour may consist of

ASSUME ProblemAssumption ==
  IsFiniteSet(Problems) /\ Acm \subseteq Problems /\ Contest \subseteq Problems
ASSUME NoneAssumption == None \notin Problems \cup Users
ASSUME LoadAssumption ==
  Loads \subseteq [users : SUBSET Users, problems : SUBSET Problems,
                  subs : Nat, rejudges : Nat, faults : Nat]

Results == {"AC", "PA", "WA", "CE"}   \* accepted, partially, any error, compile error
ResultsOf(p) == IF p \in Acm THEN Results \ {"PA"} ELSE Results
Score(r) == CASE r = "AC" -> 2 [] r = "PA" -> 1 [] OTHER -> 0
Penalty == 20 * 60

VARIABLES
  submissions, \* the rows in the order of create_time: user, problem, result, info
  problem,     \* Problem rows: submission_number, accepted_number, statistic_info
  profile,     \* UserProfile rows: accepted_number, total_score, the problems' status
  acmRank,     \* ACMContestRank rows
  oiRank,      \* OIContestRank rows
  held,        \* the rows that a thread's transaction has locked
  pc,          \* where a thread stands
  task,        \* its user, problem and submission (0 before there is one)
  seen,        \* the profile it has read
  row,         \* the problem it has read
  last,        \* last_result of its dispatcher
  answer,      \* the result it has got
  messages,    \* submissions to be judged again: rejudges, redelivered messages
  load,        \* the bounds of the behaviour: users and problems that occur, and
               \* numbers of submissions, rejudges, and faults (crashes, failed
               \* calls, refused submissions)
  rejudges, faults,  \* how many so far
  counted,     \* history: submissions whose statistics were committed
  torn         \* history: users with a profile saved while a judgement held another

ranks == <<acmRank, oiRank>>
locals == <<task, seen, row, last, answer>>
bounds == <<load, rejudges, faults>>
history == <<counted, torn>>
vars == <<submissions, problem, profile, ranks, held, pc, locals, messages, bounds, history>>

-----------------------------------------------------------------------------

NoProfile == [accepted |-> 0, total |-> 0,
              status |-> [p \in Problems |-> "none"],
              score |-> [p \in Problems \ Acm |-> 0]]
NoInfo == [ac |-> FALSE, time |-> 0, errors |-> 0, first |-> FALSE]
NoCounts == [number |-> 0, accepted |-> 0, info |-> <<>>]
NoTask == [user |-> None, problem |-> None, sub |-> 0]

Init ==
  /\ submissions = <<>>
  /\ problem = [p \in Problems |-> NoCounts]
  /\ profile = [u \in Users |-> NoProfile]
  /\ acmRank = [u \in Users |-> [accepted |-> 0, time |-> 0,
                                 info |-> [p \in Contest \cap Acm |-> NoInfo]]]
  /\ oiRank = [u \in Users |-> [total |-> 0, info |-> [p \in Contest \ Acm |-> 0]]]
  /\ held = [t \in Threads |-> {}]
  /\ pc = [t \in Threads |-> "idle"] /\ task = [t \in Threads |-> NoTask]
  /\ seen = [t \in Threads |-> NoProfile] /\ row = [t \in Threads |-> NoCounts]
  /\ last = [t \in Threads |-> None] /\ answer = [t \in Threads |-> None]
  /\ messages = {}
  /\ load \in Loads /\ rejudges = 0 /\ faults = 0 /\ counted = {} /\ torn = {}

Goto(t, p) == pc' = [pc EXCEPT ![t] = p]

End(t) ==
  /\ Goto(t, "idle")
  /\ task' = [task EXCEPT ![t] = NoTask]
  /\ seen' = [seen EXCEPT ![t] = NoProfile] /\ row' = [row EXCEPT ![t] = NoCounts]
  /\ last' = [last EXCEPT ![t] = None] /\ answer' = [answer EXCEPT ![t] = None]

Fault == faults < load.faults /\ faults' = faults + 1

-----------------------------------------------------------------------------
(* Submitting and judging.                                                 *)

\* SubmissionAPI.post reads the profile for the log of pasting, ...
ReadProfile(t, u, p) ==
  /\ u \in load.users /\ p \in load.problems
  /\ pc[t] = "idle" /\ Len(submissions) < load.subs
  /\ task' = [task EXCEPT ![t] = [user |-> u, problem |-> p, sub |-> 0]]
  /\ seen' = [seen EXCEPT ![t] = profile[u]]
  /\ Goto(t, "log")
  /\ UNCHANGED <<submissions, problem, profile, ranks, held, row, last, answer, messages,
                 bounds, history>>

\* Threads between the read and the write of a profile in a judgement.
Judging(u) == {t \in Threads : task[t].user = u /\ pc[t] \in {"problem", "rank", "first", "commit"}}

\* ... makes an entry for the problem and saves every column; then the submission
\* is refused, or stored and judged.
SaveProfile(t) ==
  LET u == task[t].user
      p == task[t].problem
  IN  /\ pc[t] = "log"
      /\ profile' = [profile EXCEPT ![u] =
           [seen[t] EXCEPT !.status[p] = IF @ = "none" THEN "logged" ELSE @]]
      /\ torn' = IF \E x \in Judging(u) : seen[x] # seen[t] THEN torn \cup {u} ELSE torn
      /\ \/ Fault /\ End(t) /\ UNCHANGED submissions
         \/ /\ Len(submissions) < load.subs
            /\ submissions' = Append(submissions,
                 [user |-> u, problem |-> p, result |-> "pending", info |-> FALSE])
            /\ task' = [task EXCEPT ![t].sub = Len(submissions) + 1]
            /\ seen' = [seen EXCEPT ![t] = NoProfile]
            /\ Goto(t, "request")
            /\ UNCHANGED <<row, last, answer, faults>>
      /\ UNCHANGED <<problem, ranks, held, messages, load, rejudges, counted>>

\* SubmissionRejudgeAPI, for submissions outside contests.
Rejudge(s) ==
  /\ rejudges < load.rejudges /\ rejudges' = rejudges + 1
  /\ submissions[s].problem \notin Contest
  /\ messages' = messages \cup {s}
  /\ UNCHANGED <<submissions, problem, profile, ranks, held, pc, locals, load, faults, history>>

\* JudgeDispatcher.__init__ in a worker: last_result is the result of a row that
\* has an info.
Deliver(t, s) ==
  LET sub == submissions[s]
  IN  /\ pc[t] = "idle" /\ s \in messages
      /\ messages' = messages \ {s}
      /\ task' = [task EXCEPT ![t] = [user |-> sub.user, problem |-> sub.problem, sub |-> s]]
      /\ last' = [last EXCEPT ![t] = IF sub.info THEN sub.result ELSE None]
      /\ Goto(t, "request")
      /\ UNCHANGED <<submissions, problem, profile, ranks, held, seen, row, answer, bounds, history>>

\* The call of the judge server failed: no statistics.
SystemError(t) ==
  /\ Fault
  /\ pc[t] = "request"
  /\ submissions' = [submissions EXCEPT ![task[t].sub].result = "SE"]
  /\ End(t)
  /\ UNCHANGED <<problem, profile, ranks, held, messages, load, rejudges, history>>

\* The result is saved; a compile error leaves the info that was loaded.  In a
\* contest that is not underway, and for its staff, there are no statistics.
Answer(t, r) ==
  LET s == task[t].sub
  IN  /\ pc[t] = "request" /\ r \in ResultsOf(task[t].problem)
      /\ submissions' = [submissions EXCEPT ![s].result = r,
                           ![s].info = (r # "CE" \/ last[t] # None)]
      /\ \/ /\ answer' = [answer EXCEPT ![t] = r]
            /\ Goto(t, IF task[t].problem \in Contest THEN "user" ELSE "count")
            /\ UNCHANGED <<task, seen, row, last>>
         \/ task[t].problem \in Contest /\ End(t)
      /\ UNCHANGED <<problem, profile, ranks, held, messages, bounds, history>>

-----------------------------------------------------------------------------
(* The transaction of the statistics.                                      *)

Lock(t, r) ==
  /\ \A x \in Threads \ {t} : r \notin held[x]
  /\ held' = [held EXCEPT ![t] = @ \cup {r}]

UserRow(t) == <<"user", task[t].user>>
ProblemRow(t) == <<"problem", task[t].problem>>
RankRow(t) == <<"rank", task[t].user, task[t].problem \in Acm>>

ReadRow(t) == row' = [row EXCEPT ![t] = problem[task[t].problem]]

locking == <<submissions, problem, profile, ranks, task, last, answer, messages, bounds, history>>

\* Outside contests the problem is locked first, ...
LockCounters(t) ==
  /\ pc[t] = "count" /\ Lock(t, ProblemRow(t)) /\ ReadRow(t) /\ Goto(t, "owner")
  /\ UNCHANGED <<locking, seen>>

\* Mutant: The user is not locked.
LockOwnerFree(t) ==
  /\ pc[t] = "owner" /\ Goto(t, "commit")
  /\ seen' = [seen EXCEPT ![t] = profile[task[t].user]]
  /\ UNCHANGED <<locking, row, held>>

\* ... then the user, whose profile is read.
LockOwner(t) ==
  /\ pc[t] = "owner" /\ Lock(t, UserRow(t)) /\ Goto(t, "commit")
  /\ seen' = [seen EXCEPT ![t] = profile[task[t].user]]
  /\ UNCHANGED <<locking, row>>

\* In an ACM contest an accepted problem is not counted again.
Skipped(t, user) == task[t].problem \in Contest \cap Acm /\ user.status[task[t].problem] = "AC"

\* Mutant: The user is not locked.
LockUserFree(t) ==
  /\ pc[t] = "user"
  /\ seen' = [seen EXCEPT ![t] = profile[task[t].user]]
  /\ Goto(t, IF Skipped(t, profile[task[t].user]) THEN "rank" ELSE "problem")
  /\ UNCHANGED <<locking, row, held>>

\* Mutant: The status is committed before the rank.
LockUserCommits(t) ==
  /\ pc[t] = "user" /\ Lock(t, UserRow(t))
  /\ seen' = [seen EXCEPT ![t] = profile[task[t].user]]
  /\ profile' = [profile EXCEPT ![task[t].user].status[task[t].problem] = answer[t]]
  /\ Goto(t, IF Skipped(t, profile[task[t].user]) THEN "rank" ELSE "problem")
  /\ UNCHANGED <<submissions, problem, ranks, task, row, last, answer, messages, bounds, history>>

\* update_contest_problem_status: the user, ...
LockUser(t) ==
  /\ pc[t] = "user" /\ Lock(t, UserRow(t))
  /\ seen' = [seen EXCEPT ![t] = profile[task[t].user]]
  /\ Goto(t, IF Skipped(t, profile[task[t].user]) THEN "rank" ELSE "problem")
  /\ UNCHANGED <<locking, row>>

\* Mutant: The problem is read without select_for_update.
LockProblemFree(t) ==
  /\ pc[t] = "problem" /\ ReadRow(t) /\ Goto(t, "rank")
  /\ UNCHANGED <<locking, seen, held>>

\* ... then the problem.
LockProblem(t) ==
  /\ pc[t] = "problem" /\ Lock(t, ProblemRow(t)) /\ ReadRow(t) /\ Goto(t, "rank")
  /\ UNCHANGED <<locking, seen>>

\* update_contest_rank: the rank, created when it is missing, ...
LockRank(t) ==
  /\ pc[t] = "rank" /\ Lock(t, RankRow(t))
  /\ Goto(t, IF task[t].problem \in Acm THEN "first" ELSE "commit")
  /\ UNCHANGED <<locking, seen, row>>

\* ... and in an ACM contest the problem once more: it is locked already, unless
\* it was skipped.
LockFirst(t) ==
  /\ pc[t] = "first" /\ Lock(t, ProblemRow(t)) /\ Goto(t, "commit")
  /\ UNCHANGED <<locking, seen, row>>

-----------------------------------------------------------------------------
(* What is written.                                                        *)

\* statistic_info has the results as keys.
Bump(info, r) ==
  [k \in DOMAIN info \cup {r} |-> (IF k \in DOMAIN info THEN info[k] ELSE 0) + (IF k = r THEN 1 ELSE 0)]

\* A rejudge looks the last result up as a number while the keys are strings: it
\* finds nothing and stores 0 under the number.  Of two equal keys of the JSON
\* text PostgreSQL keeps the later one.
BumpRejudged(info, before, r) ==
  IF before = r THEN [k \in DOMAIN info \cup {r} |->
                     IF k # r THEN info[k] ELSE IF r \in DOMAIN info THEN 0 ELSE 1]
             ELSE Bump([k \in DOMAIN info \cup {before} |-> IF k = before THEN 0 ELSE info[k]], r)

\* Mutant: submission_number is not raised.
CountedOnce(old, r) ==
  [number |-> old.number, accepted |-> old.accepted + (IF r = "AC" THEN 1 ELSE 0),
   info |-> Bump(old.info, r)]

Counted(old, r) ==
  [number |-> old.number + 1, accepted |-> old.accepted + (IF r = "AC" THEN 1 ELSE 0),
   info |-> Bump(old.info, r)]

\* update_problem_status_rejudge, when there is a last result and it is not 0,
\* the number of ACCEPTED.
IsRejudge(t) == last[t] \notin {None, "AC"}

Rejudged(old, before, r) ==
  [number |-> old.number, accepted |-> old.accepted + (IF r = "AC" THEN 1 ELSE 0),
   info |-> BumpRejudged(old.info, before, r)]

\* The profile after a judgement outside contests.  With rule ACM the number of
\* accepted problems and the ACM column are saved, with rule OI the OI column
\* instead; add_score saves every column that was read, and total_score relative
\* to the stored one.
ProfileAfter(now, old, p, r) ==
  LET open == old.status[p] # "AC"
      ac == old.accepted + (IF open /\ r = "AC" THEN 1 ELSE 0)
      new == IF open THEN [old.status EXCEPT ![p] = r] ELSE old.status
  IN  IF p \in Acm
        THEN [now EXCEPT !.accepted = ac,
                !.status = [q \in Problems |-> IF q \in Acm THEN new[q] ELSE now.status[q]]]
        ELSE IF open
        THEN [accepted |-> ac, total |-> now.total - old.score[p] + Score(r),
              status |-> new, score |-> [old.score EXCEPT ![p] = Score(r)]]
        ELSE [now EXCEPT !.accepted = ac, !.score = old.score,
                !.status = [q \in Problems |-> IF q \in Acm THEN now.status[q] ELSE new[q]]]

\* ... and in a contest: only the column of its rule.
ContestProfileAfter(now, old, p, r) ==
  [now EXCEPT
     !.status = [q \in Problems |->
                   IF q = p THEN r ELSE IF (q \in Acm) = (p \in Acm) THEN old.status[q] ELSE now.status[q]],
     !.score = IF p \in Acm THEN now.score ELSE [old.score EXCEPT ![p] = Score(r)]]

\* Mutant: An accepted problem is counted again.
AcmRankAgain(rank, p, r, time, n) ==
  LET info == rank.info[p]
  IN  IF r = "AC"
        THEN [accepted |-> rank.accepted + 1,
              time |-> rank.time + time + info.errors * Penalty,
              info |-> [rank.info EXCEPT ![p] =
                          [ac |-> TRUE, time |-> time, errors |-> info.errors, first |-> n = 1]]]
        ELSE [rank EXCEPT !.info[p].errors = @ + (IF r = "CE" THEN 0 ELSE 1)]

\* _update_acm_contest_rank; n is the problem's accepted_number.
AcmRankAfter(rank, p, r, time, n) ==
  LET info == rank.info[p]
  IN  CASE info.ac -> rank
        [] ~info.ac /\ r = "AC" ->
             [accepted |-> rank.accepted + 1,
              time |-> rank.time + time + info.errors * Penalty,
              info |-> [rank.info EXCEPT ![p] =
                          [ac |-> TRUE, time |-> time, errors |-> info.errors, first |-> n = 1]]]
        [] ~info.ac /\ r # "AC" ->
             [rank EXCEPT !.info[p].errors = @ + (IF r = "CE" THEN 0 ELSE 1)]

\* _update_oi_contest_rank
OiRankAfter(rank, p, r) ==
  [total |-> rank.total - rank.info[p] + Score(r), info |-> [rank.info EXCEPT ![p] = Score(r)]]

Release(t) == held' = [held EXCEPT ![t] = {}] /\ End(t)

\* A rejudge whose problem has no entry in the profile raises a KeyError, and the
\* transaction is rolled back.
CommitCounters(t) ==
  LET u == task[t].user
      p == task[t].problem
      missing == IsRejudge(t) /\ seen[t].status[p] = "none"
  IN  /\ pc[t] = "commit" /\ p \notin Contest
      /\ Release(t)
      /\ \/ missing /\ UNCHANGED <<problem, profile, counted>>
         \/ /\ ~missing
            /\ problem' = [problem EXCEPT ![p] = IF IsRejudge(t)
                                                       THEN Rejudged(row[t], last[t], answer[t])
                                                       ELSE Counted(row[t], answer[t])]
            /\ profile' = [profile EXCEPT ![u] = ProfileAfter(@, seen[t], p, answer[t])]
            /\ counted' = counted \cup {task[t].sub}
      /\ UNCHANGED <<submissions, ranks, messages, bounds, torn>>

CommitContest(t) ==
  LET u == task[t].user
      p == task[t].problem
  IN  /\ pc[t] = "commit" /\ p \in Contest
      /\ Release(t)
      /\ IF Skipped(t, seen[t])
           THEN UNCHANGED <<problem, profile>>
           ELSE /\ problem' = [problem EXCEPT ![p] = Counted(row[t], answer[t])]
                /\ profile' = [profile EXCEPT ![u] = ContestProfileAfter(@, seen[t], p, answer[t])]
      /\ IF p \in Acm
           THEN /\ acmRank' = [acmRank EXCEPT ![u] =
                     AcmRankAfter(@, p, answer[t], task[t].sub, problem'[p].accepted)]
                /\ UNCHANGED oiRank
           ELSE oiRank' = [oiRank EXCEPT ![u] = OiRankAfter(@, p, answer[t])] /\ UNCHANGED acmRank
      /\ counted' = counted \cup {task[t].sub}
      /\ UNCHANGED <<submissions, messages, bounds, torn>>

\* The process dies after it saved the result: its transaction is rolled back, and
\* the message of a worker is delivered again.  A death before that changes nothing.
Crash(t) ==
  /\ Fault
  /\ pc[t] \notin {"idle", "log", "request"} /\ End(t)
  /\ held' = [held EXCEPT ![t] = {}]
  /\ \/ UNCHANGED messages
     \/ messages' = messages \cup {task[t].sub}
  /\ UNCHANGED <<submissions, problem, profile, ranks, load, rejudges, history>>

\* A worker dies between its commit and the acknowledgement of its message.
Redeliver(s) ==
  /\ Fault
  /\ s \in counted /\ messages' = messages \cup {s}
  /\ UNCHANGED <<submissions, problem, profile, ranks, held, pc, locals, load, rejudges, history>>

-----------------------------------------------------------------------------

Step(t) ==
  \/ SaveProfile(t) \/ SystemError(t)
  \/ (\E r \in Results : Answer(t, r))
  \/ LockCounters(t) \/ LockOwner(t) \/ CommitCounters(t)
  \/ LockUser(t) \/ LockProblem(t) \/ LockRank(t) \/ LockFirst(t) \/ CommitContest(t)
  \/ Crash(t)

Next ==
  \/ \E t \in Threads : Step(t)
  \/ \E t \in Threads, u \in Users, p \in Problems : ReadProfile(t, u, p)
  \/ \E t \in Threads, s \in DOMAIN submissions : Deliver(t, s)
  \/ \E s \in DOMAIN submissions : Rejudge(s) \/ Redeliver(s)

Spec == Init /\ [][Next]_vars

-----------------------------------------------------------------------------
(* Properties.                                                             *)

Solved(rank) == {p \in Contest \cap Acm : rank.info[p].ac}
Gains(rank) == [p \in Contest \cap Acm |-> rank.info[p].time + Penalty * rank.info[p].errors]

\* The rank of an ACM contest is what its submission_info says: the number of
\* accepted problems, and their times with 20 minutes for each error before.  That
\* of an OI contest is the sum of the last scores.
RankAddsUp ==
  \A u \in Users :
    /\ acmRank[u].accepted = Cardinality(Solved(acmRank[u]))
    /\ acmRank[u].time = Total(Gains(acmRank[u]), Solved(acmRank[u]))
    /\ oiRank[u].total = Total(oiRank[u].info, Contest \ Acm)

\* When a problem of an ACM contest is solved, exactly one author is the first.
OneFirstAccepted ==
  \A p \in Contest \cap Acm :
    Cardinality({u \in Users : acmRank[u].info[p].first}) =
      IF \E u \in Users : acmRank[u].info[p].ac THEN 1 ELSE 0

\* A problem that the profile shows as accepted in an ACM contest is accepted in
\* the rank too, whatever old profile a submission writes back.
AcceptedIsRanked ==
  \A u \in Users, p \in Contest \cap Acm :
    profile[u].status[p] = "AC" => acmRank[u].info[p].ac

\* accepted_number is the count of ACCEPTED in statistic_info, and in contests the
\* counts add up to submission_number.
CountersAgree ==
  \A p \in Problems :
    LET info == problem[p].info
    IN  /\ problem[p].accepted = IF "AC" \in DOMAIN info THEN info["AC"] ELSE 0
        /\ p \in Contest => problem[p].number = Total(info, DOMAIN info)

AddsUp(user) ==
  LET public == Problems \ Contest
  IN  /\ user.accepted = Cardinality({p \in public : user.status[p] = "AC"})
      /\ user.total = Total(user.score, public \ Acm)

\* The numbers of a profile are those of the problems it lists, unless a
\* submission wrote an old profile between the read and the write of a judgement.
ProfileAddsUp ==
  \A u \in Users \ torn : AddsUp(profile[u])

\* No judgements wait for each other in a circle.
NextRow(t) ==
  CASE pc[t] \in {"count", "problem", "first"} -> {ProblemRow(t)}
    [] pc[t] \in {"owner", "user"} -> {UserRow(t)}
    [] pc[t] = "rank" -> {RankRow(t)}
    [] OTHER -> {}
NoDeadlock ==
  \A S \in (SUBSET Threads) \ {{}} :
    \E t \in S : \A x \in S \ {t} : NextRow(t) \cap held[x] = {}

\* statistic_info counts the submissions.
StatisticCounts ==
  \A p \in Problems :
    LET info == problem[p].info
    IN  Total(info, DOMAIN info) = Cardinality({s \in counted : submissions[s].problem = p})
=============================================================================
