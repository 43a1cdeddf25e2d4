---- MODULE Attendance ----
(***************************************************************************)
(* The attendance of one student in one contest: rows of contest_user with *)
(* a time of entry and a time of leaving.  Every view looks for the one    *)
(* row and creates it when it is missing; nothing makes it unique.  Times  *)
(* are one bit each.                                                       *)
(***************************************************************************)
EXTENDS Requests

VARIABLES
  rows,     \* ContestUser rows of the student and the contest
  ended     \* the contest's end has passed

attendanceVars == <<rows, ended>>
vars == <<job, requests, overlapped, rows, ended>>

Init == RequestsInit /\ rows = {} /\ ended = FALSE

NewRow(t, entered, left) == [id |-> <<t, requests>>, entered |-> entered, left |-> left]
Doing(t, kind) == Busy(t) /\ job[t].kind = kind

\* ContestUser.objects.get(): exactly one row, anything else raises.
Get(row) == rows = {row}
GetRaises == Cardinality(rows) # 1

\* save() writes every field; a row that was deleted is inserted again.
Saved(row) == {r \in rows : r.id # row.id} \cup {row}

Ended(some) == {[r EXCEPT !.left = TRUE] : r \in some}

-----------------------------------------------------------------------------
(* The student.                                                            *)

\* The page of the contest asks for the row; only a missing one is created.
Open(t) ==
  /\ Cardinality(rows) <= 1
  /\ IF rows = {}
     THEN Begin(t, [kind |-> "create", entered |-> FALSE, left |-> FALSE])
     ELSE ~Busy(t) /\ AtOnce
  /\ UNCHANGED attendanceVars

\* Mutant: entering again begins a new attendance.
EnteredAnew(row) == [row EXCEPT !.entered = TRUE, !.left = FALSE]

\* The time of entry is set once.
Entered(row) == [row EXCEPT !.entered = TRUE]

CheckIn(t) ==
  /\ \/ \E row \in rows : Get(row) /\ Begin(t, [kind |-> "save", row |-> Entered(row)])
     \/ GetRaises /\ Begin(t, [kind |-> "create", entered |-> TRUE, left |-> FALSE])
  /\ UNCHANGED attendanceVars

Save(t) ==
  /\ Doing(t, "save") \/ Doing(t, "toggle")
  /\ rows' = Saved(job[t].row)
  /\ Respond(t)
  /\ UNCHANGED ended

Create(t) ==
  /\ Doing(t, "create")
  /\ rows' = rows \cup {NewRow(t, job[t].entered, job[t].left)}
  /\ Respond(t)
  /\ UNCHANGED ended

Found(row) == Get(row)

\* Leaving: a missing row is created as left and read again, which raises
\* when there are several; a row that is open ends with all others.
Exit(t) ==
  /\ \/ \E row \in rows : Found(row) /\ Begin(t, [kind |-> "end", open |-> ~row.left])
     \/ (\A row \in rows : ~Found(row))
        /\ Begin(t, [kind |-> "create", entered |-> FALSE, left |-> TRUE])
  /\ UNCHANGED attendanceVars

End(t) ==
  /\ Doing(t, "end")
  /\ rows' = IF job[t].open THEN Ended(rows) ELSE rows
  /\ Respond(t)
  /\ UNCHANGED ended

\* The page leaves by itself when the contest is over.
TimeOverExit(t) ==
  /\ ended
  /\ \E row \in rows : Get(row) /\ Begin(t, [kind |-> "end", open |-> ~row.left])
  /\ UNCHANGED attendanceVars

\* One statement; it asks nothing about the contest.
Logout ==
  /\ AtOnce
  /\ rows' = {r \in rows : ~r.entered} \cup Ended({r \in rows : r.entered})
  /\ UNCHANGED ended

-----------------------------------------------------------------------------
(* The teacher.                                                            *)

\* Leaving for a student is taken back by the same button; a missing row is
\* created as left.
Toggle(t) ==
  /\ \/ \E row \in rows : Get(row) /\ Begin(t, [kind |-> "toggle", row |-> [row EXCEPT !.left = ~@]])
     \/ GetRaises /\ Begin(t, [kind |-> "create", entered |-> FALSE, left |-> TRUE])
  /\ UNCHANGED attendanceVars

\* The same for all students, where nothing is taken back.
ExitAll(t) ==
  /\ \/ \E row \in rows :
          /\ Get(row)
          /\ IF row.left THEN ~Busy(t) /\ AtOnce
                         ELSE Begin(t, [kind |-> "save", row |-> [row EXCEPT !.left = TRUE]])
     \/ GetRaises /\ Begin(t, [kind |-> "create", entered |-> FALSE, left |-> TRUE])
  /\ UNCHANGED attendanceVars

\* The student's application for the contest is deleted.
Expel == AtOnce /\ rows' = {} /\ UNCHANGED ended

Time == ended' = TRUE /\ UNCHANGED <<job, requests, overlapped, rows>>

Next ==
  \/ \E t \in Threads :
       \/ Open(t) \/ CheckIn(t) \/ Exit(t) \/ TimeOverExit(t) \/ Toggle(t) \/ ExitAll(t)
       \/ Save(t) \/ Create(t) \/ End(t)
  \/ Logout \/ Expel \/ Time

Spec == Init /\ [][Next]_vars

-----------------------------------------------------------------------------
Left == \E row \in rows : row.left

\* Who has left, by the button, by logging out or when time was over, is not
\* admitted again by entering, but by the teacher alone, as long as requests
\* do not overlap.
LeftStaysLeftStep ==
  Left /\ ~overlapped => Left' \/ rows' = {} \/ \E t \in Threads : Doing(t, "toggle")

LeftStaysLeft == [][LeftStaysLeftStep]_vars
-----------------------------------------------------------------------------
(* What makes the property inductive.                                      *)

IsRow(row) == row \in [id : {row.id}, entered : BOOLEAN, left : BOOLEAN]

\* A row that is saved, but for the teacher's button, has left when there is one
\* that has.
LeftInv ==
  /\ JobTable /\ \A row \in rows : IsRow(row)
  /\ \A t \in Threads :
       /\ Doing(t, "save") \/ Doing(t, "toggle") => IsRow(job[t].row)
       /\ Doing(t, "create") => job[t].entered \in BOOLEAN /\ job[t].left \in BOOLEAN
  /\ ~overlapped =>
       /\ Alone
       /\ \A t \in Threads : Doing(t, "save") /\ Left => job[t].row.left
====
