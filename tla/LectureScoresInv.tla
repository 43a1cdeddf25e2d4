---- MODULE LectureScoresInv ----
(***************************************************************************)
(* The invariant of the score tree that is inductive, in four parts: the   *)
(* types of the state, where contests are listed (with which ListedOnce    *)
(* is proved), which sums hold (TotalsAddUp), and what the stored tree and *)
(* the computed ones show at each step of each task (UpToDate).            *)
(***************************************************************************)
EXTENDS LectureScores

-----------------------------------------------------------------------------
(* Trees.                                                                  *)

\* The records of a tree: an Info for a problem, a contest with its problems,
\* a type with its contests, the lecture.
Info == [visible : BOOLEAN, point : Nat, problems : Nat, contents : Nat,
         score : Nat, submitted : BOOLEAN, subContents : Nat, subProblems : Nat,
         passed : BOOLEAN, solvedContents : Nat, solvedProblems : Nat]
Partial(A, B) == UNION {[D -> B] : D \in SUBSET A}
NodeType == [info : Info, problems : Partial(Problems, Info)]
Branch == [info : Info, contests : Partial(Contests, NodeType)]
Trees == [info : Info, types : [Types -> Branch]]

\* The contests of a tree are listed under the types that "of" gives them.
In(tree, of) == \A ty \in Types, c \in Contests : Listed(tree, ty, c) => of[c] = ty

-----------------------------------------------------------------------------
(* Types of the state.                                                     *)

Tasks == {"copy", "createProblem", "editProblem", "deleteProblem", "editContest", "deleteContest"}
Makers == {"approve", "rebuild", "batch"}

IsSub(s) ==
  /\ s = [id |-> s.id, key |-> s.key, problem |-> s.problem, result |-> s.result,
          score |-> s.score]
  /\ s.problem \in Problems /\ s.score \in Nat

IsJob(j) ==
  j = [kind |-> j.kind, contest |-> j.contest, row |-> j.row, todo |-> j.todo,
       problem |-> j.problem, prob |-> j.prob, sub |-> j.sub, since |-> j.since]

\* What a task knows.
JobOK(j) ==
  /\ IsJob(j)
  /\ j.kind \in Tasks => j.contest \in Contests /\ j.row \in Rows
  /\ j.kind = "copy" => \A p \in j.todo : p \in Problems /\ Home[p] = j.contest
  /\ j.kind \in {"createProblem", "editProblem", "deleteProblem"} =>
       j.problem \in Problems /\ Home[j.problem] = j.contest
  /\ j.kind \in {"createProblem", "editProblem"} => j.prob \in Rewards
  /\ j.kind = "judge" => IsSub(j.sub)

\* What it does at each step; on: the student is enrolled, n: operations begun.
StepOK(at, j, tree, on, n) ==
  /\ at = "copy" => j.kind = "copy"
  /\ at = "tree" => j.kind \in Tasks
  /\ at = "tree" /\ j.kind = "copy" =>
       j.problem \in Problems /\ Home[j.problem] = j.contest /\ j.prob \in Rewards
  /\ at = "row" => j.kind \in {"editContest", "deleteContest", "deleteProblem"}
  /\ at = "judgement" => j.kind = "judge"
  /\ at = "build" => j.kind \in Makers /\ on
  /\ at = "save" => j.kind \in Tasks \cup Makers \cup {"judge"} /\ on /\ tree \in Trees
  /\ at = "save" /\ j.kind \in Makers => j.since = None \/ (j.since \in Nat /\ j.since <= n)

\* The rows that trees are built from.
RowsInv ==
  /\ contest \in [Contests -> {NoContest} \cup Rows]
  /\ problem \in [Problems -> {NoProblem} \cup Rewards]
  /\ \A p \in Problems : problem[p].there => contest[Home[p]].there

SubsInv == IsFiniteSet(subs) /\ \A s \in subs : IsSub(s) /\ problem[s.problem].there

TreeInv == enrolled \in BOOLEAN /\ score \in Trees /\ (~enrolled => score = NewTree)

ThreadsInv ==
  /\ pc \in [Threads -> {"idle", "copy", "tree", "row", "judgement", "build", "save"}]
  /\ task = [t \in Threads |-> task[t]] /\ next = [t \in Threads |-> next[t]]
  /\ \A t \in Threads : JobOK(task[t]) /\ StepOK(pc[t], task[t], next[t], enrolled, ops)

TypeInv == RowsInv /\ SubsInv /\ TreeInv /\ ThreadsInv /\ ops \in Nat

-----------------------------------------------------------------------------
(* Where contests are listed.                                              *)

Expected == [c \in Contests |-> contest[c].type]

\* The same when a task is done.
After(t) ==
  [c \in Contests |->
     IF c = task[t].contest /\ task[t].kind = "editContest" THEN task[t].row.type
     ELSE IF c = task[t].contest /\ task[t].kind = "deleteContest" THEN None
     ELSE contest[c].type]

\* A tree made anew while nothing else happens.
Anew(t) == pc[t] = "save" /\ task[t].kind \in {"rebuild", "batch"} /\ task[t].since = ops

\* Tasks that do not overlap: one at a time, or judgements.
Apart ==
  /\ \A t, u \in Threads : Busy(t) /\ Busy(u) /\ t # u => Judging(t) /\ Judging(u)
  /\ \A t \in Threads : Busy(t) /\ task[t].kind \in Tasks =>
       IF task[t].kind = "editContest" THEN contest[task[t].contest].there
       ELSE contest[task[t].contest] = task[t].row
  /\ \A t \in Threads : pc[t] = "row" => In(score, After(t))
  /\ (\A t \in Threads : pc[t] # "row") => In(score, Expected)
  /\ \A t \in Threads : pc[t] = "save" => In(next[t], After(t))

ListInv ==
  /\ "overlap" \notin drift => Apart
  /\ \A t \in Threads : Anew(t) =>
       In(next[t], Expected) /\ \A u \in Threads \ {t} : ~Busy(u)
-----------------------------------------------------------------------------
(* Sums.                                                                   *)

Offered == {"point", "problems"}
Earned == {"score", "subProblems", "solvedProblems"}
Fields == Offered \cup Earned

Shown(infos) == {k \in DOMAIN infos : infos[k].visible}
SumOf(infos, field) == Total([k \in Shown(infos) |-> infos[k][field]], Shown(infos))

NodeGood(node) ==
  /\ \A p \in DOMAIN node.problems :
       /\ node.problems[p].visible
       /\ ~node.problems[p].submitted => \A f \in Earned : node.problems[p][f] = 0
  /\ node.info.visible => \A f \in Fields : node.info[f] = SumOf(node.problems, f)
  /\ ~node.info.visible => \A f \in Earned : node.info[f] = 0

BranchAdds(tree, ty, f) == tree.types[ty].info[f] = SumOf(Infos(tree.types[ty].contests), f)
TreeAdds(tree, f) == tree.info[f] = SumOf(Infos(tree.types), f)

Good(tree) ==
  /\ \A f \in Fields : TreeAdds(tree, f)
  /\ \A ty \in Types :
       /\ tree.types[ty].info.visible
       /\ \A f \in Fields : BranchAdds(tree, ty, f)
       /\ \A c \in DOMAIN tree.types[ty].contests : NodeGood(tree.types[ty].contests[c])

SumInv ==
  /\ "edited" \notin drift =>
       Good(score) /\ \A t \in Threads : pc[t] = "save" => Good(next[t])
  /\ \A t \in Threads : Anew(t) => Good(next[t])

-----------------------------------------------------------------------------
(* What a tree shows.                                                      *)

Vis(tree, ty, c) == tree.types[ty].contests[c].info.visible
Page(tree, ty, c) == tree.types[ty].contests[c].problems
Holds(tree, ty, c, p) == Listed(tree, ty, c) /\ p \in DOMAIN Page(tree, ty, c)
Line(tree, ty, c, p) == Page(tree, ty, c)[p]

\* Lines that have earned the same; a line that offers what its problem does.
Alike(i, j) == i.submitted = j.submitted /\ i.passed = j.passed /\ \A f \in Earned : i[f] = j[f]
Offers(info, prob) == info.visible /\ info.point = prob.point /\ info.problems = 1

\* A tree lists contests where the rows in con say, with the visible problems in
\* prob, and their lines tell what truth allows.
Right(tree, con, prob, truth) ==
  /\ \A ty \in Types, c \in Contests : Listed(tree, ty, c) =>
       con[c].there /\ con[c].type = ty /\ Vis(tree, ty, c) = con[c].visible
  /\ \A ty \in Types, c \in Contests, p \in Problems :
       Holds(tree, ty, c, p) <=> prob[p].visible /\ c = Home[p] /\ ty = con[c].type
  /\ \A ty \in Types, c \in Contests, p \in Problems : Holds(tree, ty, c, p) =>
       Offers(Line(tree, ty, c, p), prob[p]) /\ Line(tree, ty, c, p) \in truth[p]

\* The same before a problem is added or changed.
Nearly(tree, con, prob, truth, p) ==
  \E old \in {NoProblem} \cup Rewards :
    /\ Right(tree, con, [prob EXCEPT ![p] = old], truth)
    /\ old.visible => prob[p].visible
    /\ prob[p].visible /\ ~old.visible => NewInfo \in truth[p]

\* A submission that is still to be judged, or to be told.
Awaited(s) == s.result = "pending" \/ \E u \in Threads : Judging(u) /\ task[u].sub.id = s.id

\* A line tells of the latest submission, or will when one is judged.
Told(info, p) ==
  \/ SubsOf(p) = {} /\ Alike(info, NewInfo)
  \/ \E s \in SubsOf(p) : s \in Latest /\ Alike(info, Outcome(NewInfo, s))
  \/ \E s \in SubsOf(p) : Awaited(s)
Truth == [p \in Problems |-> {info \in Info : Told(info, p)}]

\* The same when a judgement is told.
Telling(truth, sub) ==
  [truth EXCEPT ![sub.problem] = {info \in Info : Alike(info, Outcome(NewInfo, sub))}]

\* The rows when a task is done.
RowsAfter(t) ==
  CASE task[t].kind = "editContest" -> [contest EXCEPT ![task[t].contest] = task[t].row]
    [] task[t].kind = "deleteContest" -> [contest EXCEPT ![task[t].contest] = NoContest]
    [] OTHER -> contest
ProblemsAfter(t) ==
  CASE task[t].kind = "deleteContest" ->
         [p \in Problems |-> IF Home[p] = task[t].contest THEN NoProblem ELSE problem[p]]
    [] task[t].kind = "deleteProblem" -> [problem EXCEPT ![task[t].problem] = NoProblem]
    [] OTHER -> problem

Adders == {"copy", "createProblem", "editProblem"}

\* Tasks before which, or in which, the stored tree is not what the rows say.
Astray(t) ==
  \/ pc[t] = "row"
  \/ pc[t] \in {"tree", "save"} /\ task[t].kind \in Adders
  \/ pc[t] # "idle" /\ task[t].kind = "approve"

AllPending == \A s \in subs : s.result = "pending"

\* The tree of a student that is enrolled, between tasks and at each step of one.
Calm == (\A t \in Threads : ~Astray(t)) => Right(score, contest, problem, Truth)
ThreadShows(t) ==
  /\ pc[t] = "row" => Right(score, RowsAfter(t), ProblemsAfter(t), Truth)
  /\ pc[t] = "tree" /\ task[t].kind \in Adders =>
       Nearly(score, contest, problem, Truth, task[t].problem)
  /\ pc[t] = "save" /\ task[t].kind \in Tasks \cup {"approve", "rebuild"} =>
       Right(next[t], RowsAfter(t), ProblemsAfter(t), Truth)
  /\ pc[t] = "save" /\ Judging(t) =>
       Right(next[t], contest, problem, Telling(Truth, task[t].sub))
  /\ pc[t] # "idle" /\ task[t].kind = "approve" => score = NewTree /\ AllPending
Showing == IF enrolled THEN Calm /\ \A t \in Threads : ThreadShows(t) ELSE AllPending

\* Submissions are told apart by their numbers.
Numbered == (\A s \in subs : s.id \in Nat) /\ \A r, s \in subs : r.id = s.id => r = s

\* An idle thread has no task, and one judgement at a time changes the tree.
Lone ==
  /\ \A t \in Threads : pc[t] = "idle" => task[t].kind = None
  /\ \A t, u \in Threads :
       Judging(t) /\ Judging(u) /\ pc[t] = "save" /\ pc[u] = "save" => t = u

\* What a task knows is still so.
TaskKnown(t) ==
  /\ Judging(t) => task[t].sub \in subs
  /\ task[t].kind = "copy" => \A p \in task[t].todo : ~problem[p].there
  /\ pc[t] = "tree" /\ task[t].kind \in Adders => task[t].prob = problem[task[t].problem]

\* A tree made anew, when nothing else happened meanwhile.
MadeAnew(t) ==
  Anew(t) => next[t] = Rebuilt(IF task[t].kind = "rebuild" THEN Latest ELSE Greatest)

ShowInv ==
  /\ Numbered /\ Lone /\ \A t \in Threads : MadeAnew(t)
  /\ drift = {} => Showing /\ \A t \in Threads : TaskKnown(t)
====
