---- MODULE Questions ----
(***************************************************************************)
(* A question of a student and its comments (qna/views/oj.py).  The flag   *)
(* "proceeding" says whose turn it is: a question that waits for an answer *)
(* is pushed to the teachers of its lecture, one that has an answer to its *)
(* author, until it is marked as solved.  Every request saves all fields   *)
(* of the row it has read.                                                 *)
(***************************************************************************)
EXTENDS Requests, Sequences

VARIABLES
  question,  \* the row, None before and after its life
  comments,  \* who wrote each comment, in the order of their dates
  mixed      \* history: a comment went with another request, or was deleted

questionVars == <<question, comments, mixed>>
vars == <<job, requests, overlapped, question, comments, mixed>>

Init ==
  /\ RequestsInit
  /\ question = None /\ comments = <<>>
  /\ mixed = FALSE

Doing(t, kind) == Busy(t) /\ job[t].kind = kind
There == question # None

\* Of the requests that write the row, a comment must not overlap another.
Writes(t, kind, who, row) ==
  /\ There
  /\ Begin(t, [kind |-> kind, who |-> who, row |-> row])
  /\ mixed' = (mixed \/ \E u \in Threads : Busy(u) /\ ({who, job[u].who} # {None}))
  /\ UNCHANGED <<question, comments>>

\* About a submission to a contest's problem, which is private, or about
\* anything else.
Ask(private) ==
  /\ ~There /\ requests = 0
  /\ AtOnce
  /\ question' = [proceeding |-> TRUE, solved |-> FALSE, private |-> private]
  /\ UNCHANGED <<comments, mixed>>

\* The comment is stored in a statement of its own.
PostComment(t, who) == Writes(t, "comment", who, question)

\* Mutant: every comment is taken for an answer.
TurnIsOver(who) == FALSE

\* A comment of the author asks again, anybody else's answers.
Turn(who) == who = "author"

CreateComment(t) ==
  /\ Doing(t, "comment")
  /\ IF There
     THEN /\ comments' = Append(comments, job[t].who)
          /\ Continue(t, [job[t] EXCEPT !.kind = "save", !.row.proceeding = Turn(job[t].who)])
     ELSE Respond(t) /\ UNCHANGED comments
  /\ UNCHANGED <<question, mixed>>

ToggleSolved(t) == Writes(t, "save", None, [question EXCEPT !.solved = ~@])

OpenQnA(t, open) == Writes(t, "save", None, [question EXCEPT !.private = ~open])

\* question.save() inserts the row again when it has gone meanwhile.
SaveQuestion(t) ==
  /\ Doing(t, "save")
  /\ question' = job[t].row
  /\ Respond(t)
  /\ UNCHANGED <<comments, mixed>>

\* The flag stays when a comment goes.
DeleteComment(i) ==
  /\ i \in DOMAIN comments
  /\ AtOnce
  /\ comments' = SubSeq(comments, 1, i - 1) \o SubSeq(comments, i + 1, Len(comments))
  /\ mixed' = TRUE
  /\ UNCHANGED question

DeleteQuestion ==
  /\ There
  /\ AtOnce
  /\ question' = None /\ comments' = <<>>
  /\ mixed' = (mixed \/ ~Quiet)

Next ==
  \/ \E private \in BOOLEAN : Ask(private)
  \/ \E t \in Threads :
       \/ \E who \in {"author", "teacher"} : PostComment(t, who)
       \/ CreateComment(t) \/ ToggleSolved(t) \/ SaveQuestion(t)
       \/ \E open \in BOOLEAN : OpenQnA(t, open)
  \/ \E i \in DOMAIN comments : DeleteComment(i)
  \/ DeleteQuestion

Spec == Init /\ [][Next]_vars

\* Who is shown the question as something to do.
PushedTo ==
  IF ~There \/ question.solved THEN {}
  ELSE {IF question.proceeding THEN "teacher" ELSE "author"}

\* An open question is pushed to the one who did not write last, also when
\* requests that are no comments overlapped; not when a comment did, or was
\* deleted.
TurnIsRight ==
  (There /\ ~mixed /\ ~question.solved /\ \A t \in Threads : Busy(t) => job[t].who = None) =>
    PushedTo = {IF comments = <<>> \/ comments[Len(comments)] = "author"
                THEN "teacher" ELSE "author"}
-----------------------------------------------------------------------------
(* What makes the property inductive.                                      *)

QuestionRows == [proceeding : BOOLEAN, solved : BOOLEAN, private : BOOLEAN]
LastIsAuthor == comments = <<>> \/ comments[Len(comments)] = "author"

Works == [kind : {"comment"}, who : {"author", "teacher"}, row : QuestionRows]
         \cup [kind : {"save"}, who : {None, "author", "teacher"}, row : QuestionRows]

\* What a request holds about whose turn it is.
WorkOK(work) ==
  /\ work.who = None => work.row.proceeding = question.proceeding
  /\ work.who # None /\ work.kind = "save" =>
       /\ comments # <<>> /\ comments[Len(comments)] = work.who
       /\ work.row.proceeding = Turn(work.who)

TypesOK ==
  /\ JobTable /\ \A t \in Threads : Busy(t) => job[t] \in Works
  /\ question \in QuestionRows \cup {None}
  /\ comments \in Seq({"author", "teacher"})

\* As long as comments keep to themselves: one that is stored and has not saved
\* the row yet is the only request in progress.
TurnInv ==
  /\ TypesOK
  /\ ~mixed =>
       /\ ~There => comments = <<>> /\ Quiet
       /\ \A t, u \in Threads : Busy(t) /\ Busy(u) /\ t # u => job[t].who = None
       /\ \A t \in Threads : Busy(t) => WorkOK(job[t])
       /\ There /\ (\A t \in Threads : Doing(t, "save") => job[t].who = None)
            => (question.proceeding <=> LastIsAuthor)
====
