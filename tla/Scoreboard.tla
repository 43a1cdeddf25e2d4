---- MODULE Scoreboard ----
(***************************************************************************)
(* The scoreboard of a contest (eval/services/scoreboard.py): the latest   *)
(* judged submission of every student and problem beside its evaluation,   *)
(* put together from several queries while students submit, submissions    *)
(* are judged again, evaluations come and go and problems change.          *)
(*                                                                         *)
(* An evaluation is what parse_response makes of the model's answer: the   *)
(* two numbers are computed from the scores on the four axes.              *)
(***************************************************************************)
EXTENDS Requests, Integers, FiniteSetsExt

CONSTANTS
  Users,
  Contests,     \* the contests of the lecture
  ContestOf,    \* problem -> contest
  Whole,        \* problem -> total_score
  Answers,      \* what the model may answer: axis -> score, or None for no such object
  Typings,      \* contest -> lecture_contest_type, as Init may choose them
  Beginnings    \* the sets of problems there may be at first

Problems == DOMAIN ContestOf

VARIABLES
  typeOf,     \* the chosen typing
  problems,   \* the problems there are
  roster,     \* users with a signup_class row of the lecture
  subs,       \* submissions
  evals       \* EvalQualitative of a pair's snapshot, None without one

tables == <<typeOf, problems, roster, subs, evals>>

NewSubmission(id, k, score) == [id |-> id, user |-> k[1], problem |-> k[2], score |-> score]

TablesInit ==
  /\ RequestsInit
  /\ typeOf \in Typings
  /\ problems \in Beginnings
  /\ roster = Users
  /\ \/ subs = {}
     \/ subs = {NewSubmission(0, k, Whole[k[2]]) : k \in Users \X problems}
  /\ evals = [k \in Users \X Problems |-> None]

Doing(t, kind) == Busy(t) /\ job[t].kind = kind

-----------------------------------------------------------------------------
(* The numbers of an evaluation.                                           *)

Axes == {"correctness", "algorithm", "readability", "problem_understanding"}

\* round(n / d): the nearest integer, a half goes to the even one.
Round(n, d) ==
  LET q == n \div d  r == n % d
  IN  IF 2 * r > d \/ (2 * r = d /\ q % 2 = 1) THEN q + 1 ELSE q

Clamp(n, low, high) == IF n < low THEN low ELSE IF n > high THEN high ELSE n

\* The double 23 / 40 * 100 is below 57.5; every other sum rounds as its fraction.
overall_score(scores) ==
  LET total == MapThenSumSet(LAMBDA a : scores[a], Axes)
  IN  IF total = 23 THEN 57 ELSE Round(total * 100, 40)

partial_score(whole, scores) ==
  IF whole <= 0 THEN 0
  ELSE Clamp(Round(whole * (scores["correctness"] + scores["problem_understanding"]), 20), 0, whole)

\* The row that an answer leaves: its scores are cut to 0 .. 10; one without
\* them leaves an error.
Parsed(whole, answer) ==
  IF answer = None THEN [overall |-> None, partial |-> None]
  ELSE LET scores == [a \in Axes |-> Clamp(answer[a], 0, 10)]
       IN  [overall |-> overall_score(scores), partial |-> partial_score(whole, scores)]

-----------------------------------------------------------------------------
(* What changes the tables.                                                *)

Submit(u, p) ==
  LET earlier == {s \in subs : s.user = u /\ s.problem = p} IN
  /\ p \in problems
  /\ AtOnce
  /\ subs' = subs \cup {NewSubmission(Cardinality(earlier), <<u, p>>, None)}
  /\ UNCHANGED <<typeOf, problems, roster, evals>>

\* A judgement ends; one that is delivered again has the submission judged
\* again.  A submission judged without a score has 0 here: every comparison and
\* every sum takes it so.
SetScore(s, score) ==
  /\ AtOnce
  /\ subs' = (subs \ {s}) \cup {[s EXCEPT !.score = score]}
  /\ UNCHANGED <<typeOf, problems, roster, evals>>

Evaluate(s, answer) ==
  /\ s.score # None
  /\ AtOnce
  /\ evals' = [evals EXCEPT ![<<s.user, s.problem>>] = Parsed(Whole[s.problem], answer)]
  /\ UNCHANGED <<typeOf, problems, roster, subs>>

\* The pair is frozen again.
DropEvaluation(k) ==
  /\ evals[k] # None
  /\ AtOnce
  /\ evals' = [evals EXCEPT ![k] = None]
  /\ UNCHANGED <<typeOf, problems, roster, subs>>

Leave(u) ==
  /\ u \in roster
  /\ AtOnce
  /\ roster' = roster \ {u}
  /\ UNCHANGED <<typeOf, problems, subs, evals>>

AddProblem(p) ==
  /\ p \notin problems
  /\ AtOnce
  /\ problems' = problems \cup {p}
  /\ UNCHANGED <<typeOf, roster, subs, evals>>

\* Submissions, snapshots and evaluations go with their problem.
DeleteProblem(p) ==
  /\ p \in problems
  /\ AtOnce
  /\ problems' = problems \ {p}
  /\ subs' = {s \in subs : s.problem # p}
  /\ evals' = [k \in DOMAIN evals |-> IF k[2] = p THEN None ELSE evals[k]]
  /\ UNCHANGED <<typeOf, roster>>

Change ==
  \/ \E u \in Users, p \in Problems : Submit(u, p)
  \/ \E s \in subs : \E score \in {None, 0, Whole[s.problem]} \ {s.score} : SetScore(s, score)
  \/ \E s \in subs, answer \in Answers : Evaluate(s, answer)
  \/ \E k \in DOMAIN evals : DropEvaluation(k)
  \/ \E u \in Users : Leave(u)
  \/ \E p \in Problems : AddProblem(p) \/ DeleteProblem(p)

-----------------------------------------------------------------------------
(* build_scoreboard.                                                       *)

list_students == roster

list_contest_problems(c) == {p \in problems : ContestOf[p] = c}

\* The latest submission of each pair that is not being judged.
list_final_submissions(c) ==
  LET judged == {s \in subs : s.score # None /\ ContestOf[s.problem] = c}
  IN  {s \in judged : \A r \in judged :
         r.user = s.user /\ r.problem = s.problem => r.id <= s.id}

\* by_problem: a submission to a problem that was not there when the problems
\* were read.
Unknown(finals, known) == \E s \in finals : s.problem \notin known

\* A student is on the board by the roster or by a submission; a cell holds
\* the score of the submission and the evaluation, None without.
Board(known, listed, finals) ==
  LET users == listed \cup {s.user : s \in finals}
  IN  [problems |-> known, users |-> users,
       score |-> [k \in users \X known |->
         IF \E s \in finals : s.user = k[1] /\ s.problem = k[2]
         THEN (CHOOSE s \in finals : s.user = k[1] /\ s.problem = k[2]).score
         ELSE None],
       eval |-> [k \in users \X known |-> evals[k]]]
====
