---- MODULE ScorePages ----
(***************************************************************************)
(* The pages that show score trees: the list of a lecture's students       *)
(* (UserAdminAPI.get), the lists of a contest's students                   *)
(* (contest/views/oj.py) and the start page of a student (UserProgress).   *)
(* Every list loads the trees, one student after the other, into one       *)
(* lecDispatcher, and fromDict leaves that as it is when a student has no  *)
(* tree.                                                                   *)
(*                                                                         *)
(* A tree (LectureScores) is here what the pages tell apart: the problems  *)
(* that were migrated into it and those that are solved, a point each.     *)
(* Problems are visible; a student has one submission of a problem, which  *)
(* may be judged again.  The time decides which contests are running.      *)
(***************************************************************************)
EXTENDS Requests, Sequences, SequencesExt

CONSTANTS
  Roll,      \* the students in the order of their names
  Home       \* problem -> contest

Enlisted == ToSet(Roll)
HeldContests == {Home[p] : p \in DOMAIN Home}

VARIABLES
  rows,      \* signup_class: None, or [linked, allowed, tree]
  problems,  \* the problems there are
  passed,    \* <<student, problem>>: the submission is accepted
  attended,  \* <<student, contest>> -> ContestUser: None, "in", "left"
  copied,    \* <<student, problem>>: copying was reported
  unsure     \* history: students who were allowed or judged past their tree

pageVars == <<rows, problems, passed, attended, copied, unsure>>

Init ==
  /\ RequestsInit
  /\ rows = [s \in Enlisted |-> None]
  /\ problems \in {{}, DOMAIN Home}
  /\ passed = {} /\ copied = {} /\ unsure = {}
  /\ attended = [a \in Enlisted \X HeldContests |-> None]

NewTree == [problems |-> {}, solved |-> {}]

\* Mutant: a dispatcher that has a tree keeps it.
FromDictOnce(tree, stored) == IF stored = None \/ tree # NewTree THEN tree ELSE stored

\* A tree that was never saved is {}.
FromDict(tree, stored) == IF stored = None THEN tree ELSE stored

Migrate(tree, new) == [tree EXCEPT !.problems = @ \cup new]

\* A problem that the tree does not know is passed over.
Associate(tree, p, accepted) ==
  [tree EXCEPT !.solved = IF p \notin tree.problems THEN @
                          ELSE IF accepted THEN @ \cup {p} ELSE @ \ {p}]

Enrolled(s) == rows[s] # None
Attends(s) == Enrolled(s) /\ rows[s].linked /\ rows[s].allowed

-----------------------------------------------------------------------------
(* The rows.                                                               *)

\* A list names the student, who has an account or not.  What should build
\* the tree raises.
EnrolByList(s, known) ==
  /\ Enrolled(s) => rows[s].linked /\ known
  /\ AtOnce
  /\ rows' = [rows EXCEPT ![s] =
                IF Enrolled(s) THEN [@ EXCEPT !.allowed = TRUE]
                ELSE [linked |-> known, allowed |-> known, tree |-> None]]
  /\ unsure' = IF known /\ ~Attends(s) THEN unsure \cup {s} ELSE unsure
  /\ UNCHANGED <<problems, passed, attended, copied>>

\* The student applies.  One whom a list named is allowed at once.
Apply(s) ==
  /\ AtOnce
  /\ rows' = [rows EXCEPT ![s] =
                IF Enrolled(s) THEN [@ EXCEPT !.linked = TRUE, !.allowed = TRUE]
                ELSE [linked |-> TRUE, allowed |-> FALSE, tree |-> None]]
  /\ unsure' = IF Enrolled(s) /\ ~Attends(s) THEN unsure \cup {s} ELSE unsure
  /\ UNCHANGED <<problems, passed, attended, copied>>

Approve(s) ==
  /\ Enrolled(s) /\ rows[s].linked
  /\ AtOnce
  /\ rows' = [rows EXCEPT ![s].allowed = TRUE,
                          ![s].tree = Migrate(FromDict(NewTree, @), problems)]
  /\ UNCHANGED <<problems, passed, attended, copied, unsure>>

AddProblem(p) ==
  /\ p \notin problems
  /\ AtOnce
  /\ problems' = problems \cup {p}
  /\ rows' = [s \in Enlisted |->
                IF Attends(s) THEN [rows[s] EXCEPT !.tree = Migrate(FromDict(NewTree, @), {p})]
                ELSE rows[s]]
  /\ UNCHANGED <<passed, attended, copied, unsure>>

\* A submission is judged, at first or again.  A contest without a node
\* raises, and the tree stays.
Judge(s, p, accepted) ==
  /\ p \in problems /\ Enrolled(s) /\ rows[s].linked
  /\ AtOnce
  /\ passed' = IF accepted THEN passed \cup {<<s, p>>} ELSE passed \ {<<s, p>>}
  /\ IF rows[s].allowed
     THEN /\ rows' = [rows EXCEPT ![s].tree =
                        IF \E r \in FromDict(NewTree, @).problems : Home[r] = Home[p]
                        THEN Associate(FromDict(NewTree, @), p, accepted) ELSE @]
          /\ UNCHANGED unsure
     ELSE unsure' = unsure \cup {s} /\ UNCHANGED rows
  /\ UNCHANGED <<problems, attended, copied>>

\* All trees of the lecture are made anew.
Recompute ==
  /\ AtOnce
  /\ rows' = [s \in Enlisted |->
                IF Attends(s)
                THEN [rows[s] EXCEPT !.tree =
                        [problems |-> problems, solved |-> {p \in problems : <<s, p>> \in passed}]]
                ELSE rows[s]]
  /\ unsure' = {s \in unsure : ~Attends(s)}
  /\ UNCHANGED <<problems, passed, attended, copied>>

CheckIn(s, c) ==
  /\ attended[<<s, c>>] = None
  /\ AtOnce
  /\ attended' = [attended EXCEPT ![<<s, c>>] = "in"]
  /\ UNCHANGED <<rows, problems, passed, copied, unsure>>

Exit(s, c) ==
  /\ attended[<<s, c>>] # None
  /\ AtOnce
  /\ attended' = [attended EXCEPT ![<<s, c>>] = "left"]
  /\ UNCHANGED <<rows, problems, passed, copied, unsure>>

\* The browser reports that code was copied.
Report(s, p) ==
  /\ p \in problems
  /\ AtOnce
  /\ copied' = copied \cup {<<s, p>>}
  /\ UNCHANGED <<rows, problems, passed, attended, unsure>>

Next ==
  \/ \E s \in Enlisted :
       \/ \E known \in BOOLEAN : EnrolByList(s, known)
       \/ Apply(s) \/ Approve(s)
       \/ \E p \in DOMAIN Home, accepted \in BOOLEAN : Judge(s, p, accepted)
       \/ \E c \in HeldContests : CheckIn(s, c) \/ Exit(s, c)
       \/ \E p \in DOMAIN Home : Report(s, p)
  \/ \E p \in DOMAIN Home : AddProblem(p)
  \/ Recompute

vars == <<job, requests, overlapped, rows, problems, passed, attended, copied, unsure>>

Spec == Init /\ [][Next]_vars

-----------------------------------------------------------------------------
(* The pages.                                                              *)

\* One dispatcher for all students; the totals are also those of a student
\* who does not attend yet.
LectureList ==
  LET Show(done, s) ==
        LET tree == IF Attends(s) THEN FromDict(done.tree, rows[s].tree) ELSE done.tree
            line == [student |-> s, total |-> Cardinality(tree.problems),
                     score |-> IF Attends(s) THEN Cardinality(tree.solved) ELSE 0]
        IN  IF Enrolled(s) THEN [tree |-> tree, page |-> Append(done.page, line)] ELSE done
  IN FoldLeft(Show, [tree |-> NewTree, page |-> <<>>], Roll).page

Allowed == {s \in Enlisted : Attends(s)}

\* The attendance of a contest, which fails for a student who was never there.
ContestLectureUsers(c) ==
  IF \E s \in Allowed : attended[<<s, c>>] = None THEN None
  ELSE {s \in Allowed : attended[<<s, c>>] = "left"}

\* Who has left a contest, and what each student has copied in it.
ContestUsers(c) ==
  [s \in Allowed |-> [left |-> attended[<<s, c>>] = "left",
                      log |-> {p \in problems : Home[p] = c /\ <<s, p>> \in copied}]]

InContest(tree, c) == {p \in tree.problems : Home[p] = c}

\* The start page: the score and the running contests with something left to
\* do.  A contest without a node fails.
UserProgress(s, running) ==
  LET tree == FromDict(NewTree, rows[s].tree) IN
  IF \E c \in running : InContest(tree, c) = {} THEN None
  ELSE [score |-> Cardinality(tree.solved),
        contests |-> {c \in running : ~(InContest(tree, c) \subseteq tree.solved)}]

Solved(s) == {p \in problems : <<s, p>> \in passed}

\* Every page shows a student's own results, unless the student was allowed
\* by a list or judged before the approval and no trees were made anew since:
\* the list has the score and the points of the lecture, and nobody who does
\* not attend has a score; the start page appears as long as the running
\* contests have problems, and names those that are not solved; the two pages
\* of a contest agree on who has left.
PagesAreTrue ==
  /\ \A i \in DOMAIN LectureList :
       LET line == LectureList[i] IN
       /\ ~Attends(line.student) => line.score = 0
       /\ Attends(line.student) /\ line.student \notin unsure =>
            line.score = Cardinality(Solved(line.student)) /\ line.total = Cardinality(problems)
  /\ \A s \in Allowed \ unsure, running \in SUBSET {Home[p] : p \in problems} :
       UserProgress(s, running) =
         [score |-> Cardinality(Solved(s)),
          contests |-> {c \in running : \E p \in problems \ Solved(s) : Home[p] = c}]
  /\ \A c \in HeldContests : ContestLectureUsers(c) # None =>
       ContestLectureUsers(c) = {s \in Allowed : ContestUsers(c)[s].left}

Trees == [problems : SUBSET DOMAIN Home, solved : SUBSET DOMAIN Home]
Signups == [linked : BOOLEAN, allowed : BOOLEAN, tree : {None} \cup Trees]

\* The trees of those who attend are those that would be made anew, and nobody
\* has a tree or a result before; only the unsure may differ.
PageInv ==
  /\ rows \in [Enlisted -> {None} \cup Signups]
  /\ problems \subseteq DOMAIN Home /\ passed \subseteq Enlisted \X problems
  /\ \A s \in Enlisted \ unsure :
       IF Attends(s) THEN rows[s].tree = [problems |-> problems, solved |-> Solved(s)]
       ELSE Solved(s) = {} /\ (Enrolled(s) => rows[s].tree = None)
====
