---- MODULE LectureScores ----
(***************************************************************************)
(* The score tree of one student in one lecture: signup_class.score, a     *)
(* JSON document with one Info record for the lecture, for each type of    *)
(* contest, for each contest and for each problem.  It is a cache of the   *)
(* rows of contests, problems and submissions.  Every change of those rows *)
(* reads the whole tree, changes it in memory (LectureAnalysis.py) and     *)
(* writes it back, without a lock.  The contests of a lecture follow the   *)
(* OI rule: the result of an ACM judgement has no scores to add up.        *)
(***************************************************************************)
EXTENDS Functions, Totals

CONSTANTS
  Threads,     \* requests and judgements in progress
  Types,       \* practice, assignment, contest
  Contests,
  Problems,
  Home,        \* the contest of each problem
  Points,      \* total scores of problems
  MaxSubs,     \* bound on submissions
  MaxOps,      \* bound on operations
  MaxRaces,    \* only the first so many may overlap another
  None

ASSUME HomeAssumption == Home \in [Problems -> Contests]
ASSUME PointsAssumption == Points \subseteq Nat
\* There are finitely many rows; None stands for what is missing, also for the
\* kind of task of an idle thread.
ASSUME RowsAssumption == IsFiniteSet(Types) /\ IsFiniteSet(Contests) /\ IsFiniteSet(Problems)
ASSUME NoneAssumption ==
  None \notin Types \cup Nat \cup
    {"copy", "createProblem", "editProblem", "deleteProblem", "editContest", "deleteContest",
     "judge", "approve", "rebuild", "batch"}

VARIABLES
  contest,     \* the row of each contest
  problem,     \* the row of each problem
  subs,        \* the student's submissions
  enrolled,    \* signup_class.isallow
  score,       \* signup_class.score
  pc, task,    \* what each thread does
  next,        \* the tree a thread has computed and not saved
  ops,         \* operations begun
  drift        \* history: why the tree may differ from a rebuilt one

vars == <<contest, problem, subs, enrolled, score, pc, task, next, ops, drift>>

-----------------------------------------------------------------------------
(* The tree and its arithmetic.                                            *)

\* A cleaned Information record (average and progress are left out).
NewInfo == [visible |-> FALSE, point |-> 0, problems |-> 0, contents |-> 0,
            score |-> 0, submitted |-> FALSE, subContents |-> 0, subProblems |-> 0,
            passed |-> FALSE, solvedContents |-> 0, solvedProblems |-> 0]

NewTree ==
  [info |-> NewInfo,
   types |-> [ty \in Types |->
                [info |-> [NewInfo EXCEPT !.visible = TRUE], contests |-> <<>>]]]

NewContest(row) ==
  [info |-> [NewInfo EXCEPT !.visible = row.visible], problems |-> <<>>]

\* The sums that reCalInfo takes over the visible children.
ReCalInfo(info, kids, migrate, associate) ==
  LET shown == {k \in DOMAIN kids : kids[k].visible}
      Sum(field) == Total([k \in shown |-> kids[k][field]], shown)
      Count(field) == Cardinality({k \in shown : kids[k][field]})
      migrated == [info EXCEPT !.point = Sum("point"),
                               !.problems = Sum("problems"),
                               !.contents = Cardinality(shown)]
      base == IF migrate THEN migrated ELSE info
  IN IF ~associate THEN base
     ELSE [base EXCEPT !.score = Sum("score"),
                       !.subProblems = Sum("subProblems"),
                       !.solvedProblems = Sum("solvedProblems"),
                       !.subContents = Count("submitted"),
                       !.submitted = \E k \in shown : kids[k].submitted,
                       !.solvedContents = Count("passed"),
                       !.passed = \A k \in shown : kids[k].passed]

\* f without the key k, and with the key k.
Without(f, k) == Restrict(f, {x \in DOMAIN f : x # k})
With(f, k, v) == IF k \in DOMAIN f THEN [f EXCEPT ![k] = v]
                 ELSE [x \in DOMAIN f \cup {k} |-> IF x = k THEN v ELSE f[x]]

Infos(nodes) == [k \in DOMAIN nodes |-> nodes[k].info]

\* A type's sums, then the lecture's.
ReCalType(tree, ty, migrate, associate) ==
  LET types == [tree.types EXCEPT ![ty].info =
                  ReCalInfo(@, Infos(tree.types[ty].contests), migrate, associate)]
  IN [info |-> ReCalInfo(tree.info, Infos(types), migrate, associate), types |-> types]

\* A contest's sums, then those of the type that "owner" names; nothing at
\* all when the contest is hidden.
ReCalContest(tree, ty, owner, c, migrate, associate) ==
  LET node == tree.types[ty].contests[c] IN
  IF ~node.info.visible THEN tree
  ELSE ReCalType([tree EXCEPT !.types[ty].contests[c].info =
                    ReCalInfo(@, node.problems, migrate, associate)],
                 owner, migrate, associate)

Listed(tree, ty, c) == c \in DOMAIN tree.types[ty].contests

\* migrateProblem: the contest's node is created when it is missing; a hidden
\* problem changes nothing else, and leaves its node as it was.
MigrateProblem(tree, row, c, p, prob) ==
  LET ty == row.type
      base == IF Listed(tree, ty, c) THEN tree
              ELSE [tree EXCEPT !.types[ty].contests = With(@, c, NewContest(row))]
      old == base.types[ty].contests[c].problems
      info == IF p \in DOMAIN old THEN old[p] ELSE NewInfo
  IN IF ~prob.visible THEN base
     ELSE ReCalContest(
            [base EXCEPT !.types[ty].contests[c].problems =
               With(@, p, [info EXCEPT !.point = prob.point, !.visible = TRUE,
                                       !.contents = 1, !.problems = 1])],
            ty, ty, c, TRUE, FALSE)

\* deleteProblem.
RemoveProblem(tree, row, c, p) ==
  IF Listed(tree, row.type, c) /\ p \in DOMAIN tree.types[row.type].contests[c].problems
  THEN ReCalContest([tree EXCEPT !.types[row.type].contests[c].problems = Without(@, p)],
                    row.type, row.type, c, TRUE, TRUE)
  ELSE tree

\* ResContest.migrateContest.  A node that was moved still points to the type
\* it comes from.
UpdateContest(tree, row, owner, c) ==
  ReCalContest([tree EXCEPT !.types[row.type].contests[c].info.visible = row.visible],
               row.type, owner, c, TRUE, FALSE)

\* Mutant: the source keeps the contest.
MoveContestCopies(tree, row, from, c) ==
  ReCalType([tree EXCEPT !.types[row.type].contests = With(@, c, tree.types[from].contests[c])],
            row.type, TRUE, TRUE)

\* moveContest.
MoveContest(tree, row, from, c) ==
  ReCalType([tree EXCEPT !.types[row.type].contests = With(@, c, tree.types[from].contests[c]),
                         !.types[from].contests = Without(@, c)],
            row.type, TRUE, TRUE)

MigrateContest(tree, row, c) ==
  LET others == {ty \in Types : Listed(tree, ty, c)} IN
  CASE row.type \in others -> UpdateContest(tree, row, row.type, c)
    [] others = {} -> tree
    [] OTHER -> LET from == CHOOSE ty \in others : TRUE
                IN UpdateContest(MoveContest(tree, row, from, c), row, from, c)

\* Mutant: no sums are taken after the contest is gone.
RemoveContestOnly(tree, row, c) ==
  IF Listed(tree, row.type, c)
  THEN [tree EXCEPT !.types[row.type].contests = Without(@, c)]
  ELSE tree

\* deleteContest.
RemoveContest(tree, row, c) ==
  IF Listed(tree, row.type, c)
  THEN ReCalType([tree EXCEPT !.types[row.type].contests = Without(@, c)],
                 row.type, TRUE, TRUE)
  ELSE tree

\* Mutant: a submission that fails leaves the score of an earlier one.
OutcomeKeepsScore(info, sub) ==
  LET ok == sub.result = "passed" IN
  [info EXCEPT !.score = IF ok THEN sub.score ELSE @, !.passed = ok,
               !.solvedContents = IF ok THEN 1 ELSE 0, !.solvedProblems = IF ok THEN 1 ELSE 0,
               !.subProblems = 1, !.subContents = 1, !.submitted = TRUE]

\* A judged submission in the Info of its problem; one that is pending counts
\* as failed.
Outcome(info, sub) ==
  LET ok == sub.result = "passed" IN
  [info EXCEPT !.score = IF ok THEN sub.score ELSE 0, !.passed = ok,
               !.solvedContents = IF ok THEN 1 ELSE 0, !.solvedProblems = IF ok THEN 1 ELSE 0,
               !.subProblems = 1, !.subContents = 1, !.submitted = TRUE]

\* associateSubmission, for a contest that is listed under ty.
Associate(tree, ty, c, sub) ==
  IF sub.problem \notin DOMAIN tree.types[ty].contests[c].problems THEN tree
  ELSE ReCalContest([tree EXCEPT !.types[ty].contests[c].problems[sub.problem] = Outcome(@, sub)],
                    ty, ty, c, FALSE, TRUE)

\* cleanDataForScorebard: everything but the structure and the points.
CleanInfo(info) ==
  [NewInfo EXCEPT !.visible = info.visible, !.point = info.point,
                  !.problems = info.problems, !.contents = info.contents]

Clean(tree) ==
  [info |-> CleanInfo(tree.info),
   types |-> [ty \in Types |->
     [info |-> CleanInfo(tree.types[ty].info),
      contests |-> [c \in DOMAIN tree.types[ty].contests |->
        LET node == tree.types[ty].contests[c]
        IN [info |-> CleanInfo(node.info),
            problems |-> [p \in DOMAIN node.problems |-> CleanInfo(node.problems[p])]]]]]]

-----------------------------------------------------------------------------
(* Trees made from the rows.                                               *)

Existing == {p \in Problems : problem[p].there}

\* buildLecture: every problem of the lecture is migrated into the tree.
Built(tree) ==
  FoldSet(LAMBDA p, tr : MigrateProblem(tr, contest[Home[p]], Home[p], p, problem[p]),
          tree, Existing)

SubsOf(p) == {s \in subs : s.problem = p}
Latest == {s \in subs : \A r \in SubsOf(s.problem) : r.id <= s.id}
\* Those with the greatest primary keys, which are random strings.
Greatest == {s \in subs : \A r \in SubsOf(s.problem) : r.key <= s.key}

\* A new tree with one submission for each problem that has any.
Rebuilt(chosen) ==
  FoldSet(LAMBDA s, tr : Associate(tr, contest[Home[s.problem]].type, Home[s.problem], s),
          Clean(Built(NewTree)), chosen)

-----------------------------------------------------------------------------
(* Threads.                                                                *)

\* What a thread has read: the contest's row, the problem's, the submission.
Job(kind) == [kind |-> kind, contest |-> None, row |-> None, todo |-> {},
              problem |-> None, prob |-> None, sub |-> None, since |-> None]
Idle == Job(None)
Busy(t) == pc[t] # "idle"
Quiet == \A t \in Threads : ~Busy(t)
Judging(t) == task[t].kind = "judge"

\* Two judgements wait for each other (ReadForJudgement); any other two tasks
\* overlap.
Overlaps(kind) == \E u \in Threads : Busy(u) /\ ~(kind = "judge" /\ Judging(u))

Begin(t, at, job, why) ==
  /\ ~Busy(t) /\ ops < MaxOps
  /\ Overlaps(job.kind) => ops < MaxRaces
  /\ ops' = ops + 1
  /\ pc' = [pc EXCEPT ![t] = at]
  /\ task' = [task EXCEPT ![t] = job]
  /\ drift' = drift \cup why \cup IF Overlaps(job.kind) THEN {"overlap"} ELSE {}
  /\ UNCHANGED next

\* An operation of one step, which changes no tree.
Quick(why) ==
  /\ ops < MaxOps /\ ops' = ops + 1
  /\ drift' = drift \cup why
  /\ UNCHANGED <<score, pc, task, next>>

End(t) == /\ pc' = [pc EXCEPT ![t] = "idle"]
          /\ task' = [task EXCEPT ![t] = Idle]
          /\ next' = [next EXCEPT ![t] = None]

GoTo(t, at) == pc' = [pc EXCEPT ![t] = at] /\ UNCHANGED <<task, next>>

Rows == [there : {TRUE}, type : Types, visible : BOOLEAN]
NoContest == [there |-> FALSE, type |-> None, visible |-> FALSE]
NoProblem == [there |-> FALSE, visible |-> FALSE, point |-> 0]

\* A lecture with some visible contests and problems; a student that has just
\* asked to attend, or has a tree just built.
Init ==
  /\ contest \in [Contests -> {NoContest} \cup {row \in Rows : row.visible}]
  /\ problem \in [Problems -> {NoProblem} \cup [there : {TRUE}, visible : {TRUE}, point : Points]]
  /\ \A p \in Problems : problem[p].there => contest[Home[p]].there
  /\ subs = {} /\ enrolled \in BOOLEAN
  /\ score = IF enrolled THEN Built(NewTree) ELSE NewTree
  /\ pc = [t \in Threads |-> "idle"]
  /\ task = [t \in Threads |-> Idle]
  /\ next = [t \in Threads |-> None]
  /\ ops = 0 /\ drift = {}

-----------------------------------------------------------------------------
(* Contests.                                                               *)

\* A new contest has no problems and is in no tree.
CreateContest(c, row) ==
  /\ ~contest[c].there
  /\ contest' = [contest EXCEPT ![c] = row]
  /\ Quick({})
  /\ UNCHANGED <<problem, subs, enrolled>>

\* A contest is copied into the lecture, then its problems one by one.
CopyContest(t, c, row, todo) ==
  /\ ~contest[c].there
  /\ contest' = [contest EXCEPT ![c] = row]
  /\ Begin(t, "copy", [Job("copy") EXCEPT !.contest = c, !.row = row, !.todo = todo], {})
  /\ UNCHANGED <<problem, subs, enrolled, score>>

\* The next problem of a copy.  Its files may be missing: the request fails.
CopyProblem(t, p, point) ==
  LET copied == [there |-> TRUE, visible |-> TRUE, point |-> point] IN
  /\ pc[t] = "copy" /\ p \in task[t].todo /\ contest[task[t].contest].there
  /\ problem' = [problem EXCEPT ![p] = copied]
  /\ pc' = [pc EXCEPT ![t] = "tree"]
  /\ task' = [task EXCEPT ![t].todo = @ \ {p}, ![t].problem = p, ![t].prob = copied]
  /\ UNCHANGED <<contest, subs, enrolled, score, next, ops, drift>>

CopyEnds(t) ==
  /\ pc[t] = "copy"
  /\ End(t)
  /\ UNCHANGED <<contest, problem, subs, enrolled, score, ops, drift>>

\* The row is read, every tree is changed, and then the row is saved.
EditContest(t, c, row) ==
  /\ contest[c].there
  /\ Begin(t, "tree", [Job("editContest") EXCEPT !.contest = c, !.row = row], {})
  /\ UNCHANGED <<contest, problem, subs, enrolled, score>>

DeleteContest(t, c) ==
  /\ contest[c].there
  /\ Begin(t, "tree", [Job("deleteContest") EXCEPT !.contest = c, !.row = contest[c]], {})
  /\ UNCHANGED <<contest, problem, subs, enrolled, score>>

\* contest.save(), an INSERT when the row has gone meanwhile, or the deletion
\* with everything that refers to the contest.
ContestRow(t) ==
  LET c == task[t].contest
      lost == {p \in Problems : Home[p] = c}
  IN
  /\ pc[t] = "row" /\ task[t].kind \in {"editContest", "deleteContest"}
  /\ \/ /\ task[t].kind = "editContest"
        /\ contest' = [contest EXCEPT ![c] = task[t].row]
        /\ UNCHANGED <<problem, subs>>
     \/ /\ task[t].kind = "deleteContest"
        /\ contest' = [contest EXCEPT ![c] = NoContest]
        /\ problem' = [p \in Problems |-> IF p \in lost THEN NoProblem ELSE problem[p]]
        /\ subs' = {s \in subs : s.problem \notin lost}
  /\ End(t)
  /\ UNCHANGED <<enrolled, score, ops, drift>>

-----------------------------------------------------------------------------
(* Problems.                                                               *)

\* The row of a problem is saved and then migrated into the trees.
SaveProblem(t, kind, p, prob, causes) ==
  /\ contest[Home[p]].there
  /\ problem' = [problem EXCEPT ![p] = prob]
  /\ Begin(t, "tree", [Job(kind) EXCEPT !.contest = Home[p], !.row = contest[Home[p]],
                                      !.problem = p, !.prob = prob], causes)
  /\ UNCHANGED <<contest, subs, enrolled, score>>

\* A problem is created in a contest or added to it.
CreateProblem(t, p, prob) ==
  ~problem[p].there /\ SaveProblem(t, "createProblem", p, prob, {})

\* A problem that is hidden keeps its node, in a tree that is not made anew; one
\* that is shown gets a node without its submissions.
EditProblem(t, p, prob) ==
  LET hidden == problem[p].visible # prob.visible
                /\ IF prob.visible THEN SubsOf(p) # {} ELSE enrolled IN
  /\ problem[p].there
  /\ SaveProblem(t, "editProblem", p, prob, IF hidden THEN {"hidden"} ELSE {})

\* The first deletion of a problem with submissions deletes only those.
DeleteSubmissions(p) ==
  /\ problem[p].there /\ SubsOf(p) # {}
  /\ subs' = subs \ SubsOf(p)
  /\ Quick({"unsubmitted"})
  /\ UNCHANGED <<contest, problem, enrolled>>

DeleteProblem(t, p) ==
  /\ problem[p].there /\ SubsOf(p) = {}
  /\ Begin(t, "tree", [Job("deleteProblem") EXCEPT !.contest = Home[p], !.row = contest[Home[p]],
                                                 !.problem = p], {})
  /\ UNCHANGED <<contest, problem, subs, enrolled, score>>

ProblemRow(t) ==
  /\ pc[t] = "row" /\ task[t].kind = "deleteProblem"
  /\ problem' = [problem EXCEPT ![task[t].problem] = NoProblem]
  /\ subs' = subs \ SubsOf(task[t].problem)
  /\ End(t)
  /\ UNCHANGED <<contest, enrolled, score, ops, drift>>

-----------------------------------------------------------------------------
(* The score tree is read, changed and saved (LectureBuilder.doTask).      *)

\* problem.contest is looked up when an edited problem is migrated.
RowFor(t) == IF task[t].kind = "editProblem" THEN contest[task[t].contest] ELSE task[t].row

Changed(t) ==
  LET job == task[t] IN
  CASE job.kind \in {"copy", "createProblem", "editProblem"}
         -> MigrateProblem(score, RowFor(t), job.contest, job.problem, job.prob)
    [] job.kind = "deleteProblem" -> RemoveProblem(score, job.row, job.contest, job.problem)
    [] job.kind = "editContest" -> MigrateContest(score, job.row, job.contest)
    [] job.kind = "deleteContest" -> RemoveContest(score, job.row, job.contest)

\* Where a task goes on when the trees are done.
AfterTree(t) ==
  CASE task[t].kind \in {"createProblem", "editProblem"} -> End(t)
    [] task[t].kind = "copy" -> GoTo(t, "copy")
    [] OTHER -> GoTo(t, "row")

\* Hiding a listed contest, moving one that was hidden, and moving or showing
\* one that has submissions leave sums that nothing takes again.
Disturbs(row, c) ==
  \E ty \in Types :
    /\ Listed(score, ty, c)
    /\ LET node == score.types[ty].contests[c]
           moved == row.type # ty
           toggled == row.visible # node.info.visible
       IN \/ (moved \/ toggled) /\ (~row.visible \/ \E p \in DOMAIN node.problems :
                                                      node.problems[p].submitted)
          \/ moved /\ toggled

\* doTask looks for the students that are enrolled, here one or none.
ReadTree(t) ==
  /\ pc[t] = "tree"
  /\ IF ~enrolled \/ (task[t].kind = "editProblem" /\ ~contest[task[t].contest].there)
     THEN AfterTree(t) /\ UNCHANGED drift
     ELSE /\ next' = [next EXCEPT ![t] = Changed(t)]
          /\ pc' = [pc EXCEPT ![t] = "save"]
          /\ drift' = drift \cup IF task[t].kind = "editContest" /\ Disturbs(task[t].row, task[t].contest)
                                 THEN {"edited"} ELSE {}
          /\ UNCHANGED task
  /\ UNCHANGED <<contest, problem, subs, enrolled, score, ops>>

SaveTree(t) ==
  /\ pc[t] = "save" /\ task[t].kind \notin {"judge", "approve", "rebuild", "batch"}
  /\ score' = next[t]
  /\ AfterTree(t)
  /\ UNCHANGED <<contest, problem, subs, enrolled, ops, drift>>

-----------------------------------------------------------------------------
(* Submissions.                                                            *)

Submit(p, key) ==
  /\ problem[p].there /\ problem[p].visible /\ contest[Home[p]].visible
  /\ Cardinality(subs) < MaxSubs
  /\ key \in 1..MaxSubs /\ \A s \in subs : s.key # key
  /\ subs' = subs \cup {[id |-> 1 + Max({s.id : s \in subs} \cup {0}), key |-> key,
                         problem |-> p, result |-> "pending", score |-> 0]}
  /\ Quick({})
  /\ UNCHANGED <<contest, problem, enrolled>>

\* JudgeDispatcher.judge stores the result of a submission, at first or again.
\* A judgement after the end of the contest goes no further.
Judge(t, s, result, late) ==
  LET judged == [s EXCEPT !.result = result, !.score = IF result = "passed" THEN 1 ELSE 0]
      why == IF enrolled THEN {} ELSE {"unapproved"}
  IN
  /\ ~\E u \in Threads : Judging(u) /\ task[u].sub.id = s.id
  /\ subs' = (subs \ {s}) \cup {judged}
  /\ \/ late /\ Quick({"late"})
     \/ /\ ~late
        /\ Begin(t, "judgement", [Job("judge") EXCEPT !.sub = judged], why)
        /\ UNCHANGED score
  /\ UNCHANGED <<contest, problem, enrolled>>

\* LectureSubmit, in the transaction that holds the student's user row: two
\* judgements of one student come one after the other.  A contest without a
\* node raises a KeyError and nothing is saved.
ReadForJudgement(t) ==
  LET sub == task[t].sub
      c == Home[sub.problem]
      ty == contest[c].type
  IN
  /\ pc[t] = "judgement"
  /\ ~\E u \in Threads : Judging(u) /\ pc[u] = "save"
  /\ IF enrolled /\ contest[c].there /\ Listed(score, ty, c)
     THEN /\ next' = [next EXCEPT ![t] = Associate(score, ty, c, sub)]
          /\ pc' = [pc EXCEPT ![t] = "save"]
          /\ UNCHANGED task
     ELSE End(t)
  /\ UNCHANGED <<contest, problem, subs, enrolled, score, ops, drift>>

\* lec.save() and the commit.  The tree shows the submission judged last, also
\* when a later one was judged before it.
SaveJudgement(t) ==
  LET later(r) == /\ r.id > task[t].sub.id /\ r.result # "pending"
                  /\ ~\E u \in Threads : Judging(u) /\ task[u].sub.id = r.id
  IN
  /\ pc[t] = "save" /\ Judging(t)
  /\ score' = next[t]
  /\ drift' = drift \cup IF \E r \in SubsOf(task[t].sub.problem) : later(r)
                         THEN {"reordered"} ELSE {}
  /\ End(t)
  /\ UNCHANGED <<contest, problem, subs, enrolled, ops>>

-----------------------------------------------------------------------------
(* The student's enrolment, and trees made anew.                           *)

\* A request to attend is approved: isallow is saved, then the tree is built.
Approve(t) ==
  /\ ~enrolled /\ enrolled' = TRUE
  /\ Begin(t, "build", Job("approve"), {})
  /\ UNCHANGED <<contest, problem, subs, score>>

\* Enrolment by a list, or by an application that meets one: no tree is built.
EnrolByList ==
  /\ ~enrolled /\ enrolled' = TRUE
  /\ Quick({"unbuilt"})
  /\ UNCHANGED <<contest, problem, subs>>

\* A new tree from all rows, by an administrator: for one lecture (the latest
\* submissions) or in the batch (those with the greatest keys).
Recompute(t, kind) ==
  /\ enrolled /\ kind \in {"rebuild", "batch"}
  /\ Begin(t, "build", Job(kind), {})
  /\ UNCHANGED <<contest, problem, subs, enrolled, score>>

ReadRows(t) ==
  /\ pc[t] = "build"
  /\ next' = [next EXCEPT ![t] = CASE task[t].kind = "approve" -> Built(score)
                                   [] task[t].kind = "rebuild" -> Rebuilt(Latest)
                                   [] OTHER -> Rebuilt(Greatest)]
  /\ pc' = [pc EXCEPT ![t] = "save"]
  /\ task' = [task EXCEPT ![t].since = IF \A u \in Threads \ {t} : ~Busy(u) THEN ops ELSE None]
  /\ UNCHANGED <<contest, problem, subs, enrolled, score, ops, drift>>

\* A tree made anew makes up for all that was lost, when nothing else
\* happened meanwhile.
SaveRows(t) ==
  LET anew == task[t].kind # "approve" /\ task[t].since = ops
      other == task[t].kind = "batch" /\ (~anew \/ Greatest # Latest)
  IN
  /\ pc[t] = "save" /\ task[t].kind \in {"approve", "rebuild", "batch"}
  /\ score' = next[t]
  /\ drift' = (IF anew THEN {} ELSE drift) \cup (IF other THEN {"batch"} ELSE {})
  /\ End(t)
  /\ UNCHANGED <<contest, problem, subs, enrolled, ops>>

-----------------------------------------------------------------------------
Rewards == [there : {TRUE}, visible : BOOLEAN, point : Points]

Requests(t) ==
  \/ \E c \in Contests, row \in Rows : EditContest(t, c, row)
  \/ \E c \in Contests, row \in Rows : CopyContest(t, c, row, {p \in Problems : Home[p] = c})
  \/ \E c \in Contests : DeleteContest(t, c)
  \/ \E p \in Problems, prob \in Rewards : CreateProblem(t, p, prob) \/ EditProblem(t, p, prob)
  \/ \E p \in Problems : DeleteProblem(t, p)
  \/ \E s \in subs, result \in {"passed", "failed"}, late \in BOOLEAN : Judge(t, s, result, late)
  \/ Approve(t)
  \/ \E kind \in {"rebuild", "batch"} : Recompute(t, kind)

Steps(t) ==
  \/ \E p \in Problems, point \in Points : CopyProblem(t, p, point)
  \/ CopyEnds(t) \/ ContestRow(t) \/ ProblemRow(t) \/ ReadTree(t) \/ SaveTree(t)
  \/ ReadForJudgement(t) \/ SaveJudgement(t) \/ ReadRows(t) \/ SaveRows(t)

Next ==
  \/ \E t \in Threads : Requests(t) \/ Steps(t)
  \/ \E c \in Contests, row \in Rows : CreateContest(c, row)
  \/ \E p \in Problems, key \in 1..MaxSubs : Submit(p, key)
  \/ \E p \in Problems : DeleteSubmissions(p)
  \/ EnrolByList

Spec == Init /\ [][Next]_vars

-----------------------------------------------------------------------------
(* Properties.                                                             *)

Nodes(tree) == {n \in Types \X Contests : Listed(tree, n[1], n[2])}
Node(tree, n) == tree.types[n[1]].contests[n[2]]

\* What students and teachers see of a tree: its visible problems and the
\* totals of the lecture and of the types.
Lines(tree) ==
  UNION {{<<n[1], n[2], p>> : p \in {q \in DOMAIN Node(tree, n).problems :
                                       Node(tree, n).problems[q].visible}}
         : n \in {m \in Nodes(tree) : Node(tree, m).info.visible}}

Totals(info) == <<info.point, info.problems, info.score, info.subProblems, info.solvedProblems>>

View(tree) ==
  [lines |-> [l \in Lines(tree) |->
     LET info == Node(tree, l).problems[l[3]]
     IN <<info.point, info.score, info.submitted, info.passed>>],
   types |-> [ty \in Types |-> Totals(tree.types[ty].info)],
   lecture |-> Totals(tree.info)]

\* The incremental changes add up: when nothing runs and none of the causes
\* in drift has occurred, the stored tree shows what a tree made anew from
\* the rows of contests, problems and latest submissions would show.
UpToDate ==
  (drift = {} /\ enrolled /\ Quiet /\ \A s \in subs : s.result # "pending")
    => View(score) = View(Rebuilt(Latest))

\* The totals of the lecture and of a type are those of the visible nodes
\* below, whatever overlaps and whatever was lost, unless a contest was
\* hidden or moved.
TotalsAddUp ==
  "edited" \notin drift =>
    \A total \in {"point", "problems", "score", "subProblems", "solvedProblems"} :
      /\ score.info[total] = Total([ty \in Types |-> score.types[ty].info[total]], Types)
      /\ \A ty \in Types :
           LET nodes == score.types[ty].contests
               shown == {c \in DOMAIN nodes : nodes[c].info.visible}
           IN score.types[ty].info[total] =
                Total([c \in shown |-> nodes[c].info[total]], shown)

\* A contest is listed under one type, unless two tasks overlap: its row is
\* saved after the trees, and a problem that is migrated in between goes by
\* the old type.
ListedOnce ==
  "overlap" \notin drift => \A n, m \in Nodes(score) : n[2] = m[2] => n = m
====
