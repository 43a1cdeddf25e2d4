---- MODULE Export ----
(***************************************************************************)
(* The export of the scores of a contest or of a lecture                   *)
(* (eval/services/export.py): the scoreboards are read one after the       *)
(* other, an evaluation may take the place of a score, and the sheets of   *)
(* the workbook are computed from the boards.  Names, order and layout are *)
(* left out.                                                               *)
(***************************************************************************)
EXTENDS Scoreboard, Totals

CONSTANTS
  Requested,  \* the requests: [contests, qual: group -> what was asked]
  Weights,    \* contest -> maximum of its converted score, as it was asked
  Scales      \* group -> maximum of its converted score, as it was asked

VARIABLE
  file        \* the boards the last export was made of; None without one

vars == <<job, requests, overlapped, tables, file>>

Init == TablesInit /\ file = None

Groups == {"exam", "lab", "assignment", "other"}

Classify(type) ==
  CASE type \in {"contest", "exam"} -> "exam"
    [] type = "practice" -> "lab"
    [] type = "homework" -> "assignment"
    [] OTHER -> "other"

\* "true" is what older pages send; whatever else is off.
norm_use_qual(asked) ==
  [g \in Groups |->
     CASE g \notin DOMAIN asked -> "off"
       [] asked[g] = "true" -> "max"
       [] asked[g] \in {"max", "only"} -> asked[g]
       [] OTHER -> "off"]

-----------------------------------------------------------------------------
(* Reading the boards.                                                     *)

\* The score of a cell with a submission when its evaluation counts.
Overridden(mode, score, eval) ==
  LET partial == IF eval = None THEN None ELSE eval.partial
  IN  CASE score = None -> None
        [] mode = "max" /\ partial # None /\ partial > score -> partial
        [] mode = "only" -> IF partial = None THEN 0 ELSE partial
        [] OTHER -> score

apply_qual_override(board, mode) ==
  [board EXCEPT !.score = [k \in DOMAIN @ |-> Overridden(mode, @[k], board.eval[k])]]

build_export(t, request) ==
  /\ Begin(t, [kind |-> "problems", left |-> request.contests, read |-> None,
               use |-> norm_use_qual(request.qual)])
  /\ UNCHANGED <<tables, file>>

\* The problems, and the roster that is read after them and that nothing of
\* a problem changes.  A contest without problems has no board.
ReadProblems(t, c) ==
  LET known == list_contest_problems(c) IN
  /\ Doing(t, "problems") /\ c \in job[t].left
  /\ IF known # {}
     THEN Continue(t, [kind |-> "finals", left |-> job[t].left \ {c}, read |-> job[t].read,
                       use |-> job[t].use, contest |-> c, known |-> known,
                       listed |-> list_students])
     ELSE Continue(t, [job[t] EXCEPT !.left = @ \ {c}])
  /\ UNCHANGED <<tables, file>>

\* The request fails when a submission's problem is unknown.
ReadFinals(t) ==
  LET now == job[t]
      finals == list_final_submissions(now.contest)
  IN
  /\ Doing(t, "finals")
  /\ IF Unknown(finals, now.known) THEN Respond(t)
     ELSE Continue(t, [kind |-> "evals", left |-> now.left, read |-> now.read, use |-> now.use,
                       contest |-> now.contest, known |-> now.known, listed |-> now.listed,
                       finals |-> finals])
  /\ UNCHANGED <<tables, file>>

ReadEvaluations(t) ==
  LET now == job[t]
      board == apply_qual_override(Board(now.known, now.listed, now.finals),
                                   now.use[Classify(typeOf[now.contest])])
      before == IF now.read = None THEN {} ELSE DOMAIN now.read
  IN
  /\ Doing(t, "evals")
  /\ Continue(t, [kind |-> "problems", left |-> now.left, use |-> now.use,
                  read |-> [c \in before \cup {now.contest} |->
                              IF c = now.contest THEN board ELSE now.read[c]]])
  /\ UNCHANGED <<tables, file>>

Write(t) ==
  /\ Doing(t, "problems") /\ job[t].left = {}
  /\ file' = job[t].read
  /\ Respond(t)
  /\ UNCHANGED tables

Next ==
  \/ Change /\ UNCHANGED file
  \/ \E t \in Threads :
       \/ \E request \in Requested : build_export(t, request)
       \/ \E c \in Contests : ReadProblems(t, c)
       \/ ReadFinals(t) \/ ReadEvaluations(t) \/ Write(t)

-----------------------------------------------------------------------------
(* The sheets.                                                             *)

Cell(score) == IF score = None THEN 0 ELSE score

Points(rows) == Total([r \in rows |-> r.score], rows)

\* The rows of the CSV files.
flat_rows(board, c) ==
  {[contest |-> c, user |-> k[1], problem |-> k[2], score |-> Cell(board.score[k])] :
     k \in board.users \X board.problems}

\* The sheet of all rows, each with its group.
raw_sheet(boards) ==
  {[group |-> Classify(typeOf[r.contest]), contest |-> r.contest, user |-> r.user,
    problem |-> r.problem, score |-> r.score] :
     r \in UNION {flat_rows(boards[c], c) : c \in DOMAIN boards}}

\* round(.., 1) of a fraction, in tenths; 0 when there is nothing to divide by.
Tenths(n, d) == IF d = 0 THEN 0 ELSE Round(10 * n, d)

\* Of a contest: a student's points, the points there are and the average of
\* the evaluations.
student_totals(board, u) ==
  LET judged == {p \in board.problems : board.eval[<<u, p>>] # None /\ board.eval[<<u, p>>].overall # None}
  IN  [auto_total |-> Total([p \in board.problems |-> Cell(board.score[<<u, p>>])], board.problems),
       auto_max |-> Total(Whole, board.problems),
       qual_avg |-> IF judged = {} THEN None
                    ELSE Tenths(Total([p \in judged |-> board.eval[<<u, p>>].overall], judged),
                                Cardinality(judged))]

\* The sheet of a contest alone converts whatever its group.
contest_sheet(board, u, weight) ==
  LET t == student_totals(board, u)
  IN  [totals |-> t, converted |-> Tenths(t.auto_total * weight, t.auto_max)]

\* A lecture: the contests of a group, a student's points in a contest (0
\* when absent), in a group and in all.
InGroup(boards, g) == {c \in DOMAIN boards : Classify(typeOf[c]) = g}

Listed(boards) == UNION {boards[c].users : c \in DOMAIN boards}

contest_max(boards, c) == Total(Whole, boards[c].problems)

by_contest(boards, u, c) ==
  IF u \in boards[c].users
  THEN Total([p \in boards[c].problems |-> Cell(boards[c].score[<<u, p>>])], boards[c].problems)
  ELSE 0

\* Mutant: the contests of a group take each other's place.
by_group_last(boards, u, g) ==
  IF InGroup(boards, g) = {} THEN 0
  ELSE by_contest(boards, u, CHOOSE c \in InGroup(boards, g) : TRUE)

by_group(boards, u, g) ==
  Total([c \in InGroup(boards, g) |-> by_contest(boards, u, c)], InGroup(boards, g))

group_max(boards, g) ==
  Total([c \in InGroup(boards, g) |-> contest_max(boards, c)], InGroup(boards, g))

\* Only positive weights and scales are kept of what was asked.
weighted(boards) == {c \in InGroup(boards, "exam") : c \in DOMAIN Weights /\ Weights[c] > 0}

scaled == {g \in Groups \ {"exam"} : g \in DOMAIN Scales /\ Scales[g] > 0}

\* All exams: the fractions are added before the sum is rounded.
exam_total_conv(boards, u) ==
  LET Add(c, f) == <<f[1] * contest_max(boards, c) + by_contest(boards, u, c) * Weights[c] * f[2],
                     f[2] * contest_max(boards, c)>>
      sum == FoldSet(Add, <<0, 1>>, {c \in weighted(boards) : contest_max(boards, c) # 0})
  IN  Tenths(sum[1], sum[2])

group_conv(boards, u, g) ==
  IF g \in scaled THEN Tenths(by_group(boards, u, g) * Scales[g], group_max(boards, g)) ELSE 0

\* The first sheet: a student's total, the groups that have points, and the
\* converted columns.
summary(boards, u) ==
  LET with == {g \in Groups : group_max(boards, g) > 0} IN
  [total |-> Total([c \in DOMAIN boards |-> by_contest(boards, u, c)], DOMAIN boards),
   groups |-> [g \in with |-> by_group(boards, u, g)],
   exams |-> [c \in weighted(boards) |->
                Tenths(by_contest(boards, u, c) * Weights[c], contest_max(boards, c))],
   exam_total |-> exam_total_conv(boards, u),
   converted |-> [g \in with \cap scaled |-> group_conv(boards, u, g)]]

\* The sheet of a group: the points of its contests, those of the group, and
\* these converted.
group_sheet(boards, u, g) ==
  [contests |-> [c \in InGroup(boards, g) |-> by_contest(boards, u, c)],
   subtotal |-> by_group(boards, u, g),
   converted |-> IF g = "exam" THEN exam_total_conv(boards, u) ELSE group_conv(boards, u, g)]

-----------------------------------------------------------------------------
\* The sheets of one workbook agree, whatever changed between its boards.  A
\* student's total is that of the groups, and of the groups' sheets; a
\* group's points are those of its raw rows and of its contests; an exam
\* counts as on its own sheet; the total of the exams differs from their
\* columns by rounding alone; and points within the maximum convert to no
\* more than was asked for.
SheetsAgree ==
  file # None =>
    \A u \in Listed(file) :
      LET first == summary(file, u)
          rows == {r \in raw_sheet(file) : r.user = u}
          exams == DOMAIN first.exams
          gap == first.exam_total - Total(first.exams, exams)
      IN
      /\ first.total = Total(first.groups, DOMAIN first.groups)
      /\ \A g \in Groups : LET sheet == group_sheet(file, u, g) IN
           /\ sheet.subtotal = Points({r \in rows : r.group = g})
           /\ sheet.subtotal = Total(sheet.contests, DOMAIN sheet.contests)
           /\ g \in scaled /\ sheet.subtotal <= group_max(file, g) => sheet.converted <= 10 * Scales[g]
      /\ \A c \in exams : u \in file[c].users =>
           first.exams[c] = contest_sheet(file[c], u, Weights[c]).converted
      /\ 2 * gap \in -(Cardinality(exams) + 1) .. Cardinality(exams) + 1

\* What a cell may hold.
Scores(p) == {None} \cup 0..Whole[p]

Finals(found) ==
  \A s \in found : /\ s = [id |-> s.id, user |-> s.user, problem |-> s.problem, score |-> s.score]
                   /\ s.user \in Users /\ s.problem \in Problems /\ s.score \in Scores(s.problem)

Boards(boards) ==
  /\ DOMAIN boards \subseteq Contests
  /\ \A c \in DOMAIN boards :
       /\ boards[c].problems \subseteq Problems
       /\ \A u \in boards[c].users, p \in boards[c].problems : boards[c].score[<<u, p>>] \in Scores(p)

Reading(work) ==
  /\ work.read = None \/ Boards(work.read)
  /\ work.kind # "problems" => /\ work.contest \in Contests /\ work.known \subseteq Problems
                               /\ work.listed \subseteq Users
  /\ work.kind = "evals" => Finals(work.finals)

\* No score and no part of an evaluation is above its problem's whole score, in
\* the tables, in what is being read and in the file.
ExportInv ==
  /\ JobTable /\ problems \subseteq Problems /\ roster \subseteq Users /\ Finals(subs)
  /\ evals = [k \in Users \X Problems |-> evals[k]]
  /\ \A u \in Users, p \in Problems :
       evals[<<u, p>>] = None \/ evals[<<u, p>>].partial \in Scores(p)
  /\ file = None \/ Boards(file)
  /\ \A t \in Threads : Busy(t) => Reading(job[t])
====
