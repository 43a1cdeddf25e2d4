---- MODULE Enrolment ----
(***************************************************************************)
(* The rows of lecture_signup_class of one lecture: students that asked to *)
(* attend, and entries of a teacher's list, which wait for the account     *)
(* with their number and name.  The list and the registration look for     *)
(* each other without a lock.  (LectureScores has the rows' scores.)       *)
(***************************************************************************)
EXTENDS Requests

CONSTANTS Students, Numbers

VARIABLES
  number,      \* schoolssn of each student's account, None when there is none
  signups,     \* rows of the lecture
  outside      \* history: numbers that an account got without registering, or
               \* that two registrations at once gave to two accounts

enrolVars == <<number, signups, outside>>
vars == <<job, requests, overlapped, number, signups, outside>>

Init ==
  /\ RequestsInit
  /\ number = [u \in Students |-> None]
  /\ signups = {} /\ outside = {}

\* A row as a list makes it; "named" when its name is that of the account
\* with its number.
Row(id, n, named) == [id |-> id, number |-> n, named |-> named, user |-> None, allowed |-> FALSE]

\* save() writes every field; a row that was deleted is inserted again.
SaveRow(row) == signups' = {r \in signups : r.id # row.id} \cup {row}

Doing(t, kind) == Busy(t) /\ job[t].kind = kind

\* The accounts that a list finds for a number and a name.
Holders(n) == {u \in Students : number[u] = n}

-----------------------------------------------------------------------------
(* A teacher enters a student (WaitStudentAddAPI, one line of the list).   *)

Entries(n, named) == {r \in signups : r.number = n /\ r.named = named}

\* One row: it is allowed, or skipped when nobody has it.  None or several:
\* the exception handler creates another one.
ListStudent(t, n, named) ==
  LET found == Entries(n, named) IN
  /\ IF Cardinality(found) = 1
     THEN \E row \in found :
            IF row.user = None THEN AtOnce /\ ~Busy(t)
            ELSE Begin(t, [kind |-> "save", row |-> [row EXCEPT !.allowed = TRUE]])
     ELSE Begin(t, [kind |-> "create", number |-> n, named |-> named])
  /\ UNCHANGED enrolVars

CreateEntry(t) ==
  /\ Doing(t, "create")
  /\ signups' = signups \cup {Row(<<t, requests>>, job[t].number, job[t].named)}
  /\ Continue(t, [job[t] EXCEPT !.kind = "holder"])
  /\ UNCHANGED <<number, outside>>

\* The one account with the number and the name, if there is one.
FindHolder(t) ==
  /\ Doing(t, "holder")
  /\ IF job[t].named /\ Cardinality(Holders(job[t].number)) = 1
     THEN \E u \in Holders(job[t].number) :
            Continue(t, [kind |-> "rows", number |-> job[t].number, user |-> u])
     ELSE Respond(t)
  /\ UNCHANGED enrolVars

-----------------------------------------------------------------------------
(* Accounts.                                                               *)

\* Nobody has the number: it is checked and not a constraint.
Register(t, u, n) ==
  /\ number[u] = None /\ Holders(n) = {}
  /\ Begin(t, [kind |-> "register", user |-> u, number |-> n])
  /\ UNCHANGED enrolVars

\* The account is created, and then the rows with its number are read.  Its
\* username is unique.
CreateAccount(t) ==
  LET u == job[t].user
      n == job[t].number
  IN
  /\ Doing(t, "register")
  /\ IF number[u] # None
     THEN Respond(t) /\ UNCHANGED <<number, outside>>
     ELSE /\ number' = [number EXCEPT ![u] = n]
          /\ outside' = outside \cup IF Holders(n) = {} THEN {} ELSE {n}
          /\ Continue(t, [kind |-> "rows", number |-> n, user |-> u])
  /\ UNCHANGED signups

\* Mutant: only one row is linked.
ReadRowsOne(t) ==
  /\ Doing(t, "rows")
  /\ \E todo \in SUBSET {r \in signups : r.number = job[t].number} :
       /\ Cardinality(todo) = IF \E r \in signups : r.number = job[t].number THEN 1 ELSE 0
       /\ Continue(t, [kind |-> "link", user |-> job[t].user, todo |-> todo])
  /\ UNCHANGED enrolVars

\* Registration and list link the rows with the number, whatever their name.
ReadRows(t) ==
  /\ Doing(t, "rows")
  /\ Continue(t, [kind |-> "link", user |-> job[t].user,
                  todo |-> {r \in signups : r.number = job[t].number}])
  /\ UNCHANGED enrolVars

LinkRow(t) ==
  /\ Doing(t, "link") /\ job[t].todo # {}
  /\ \E row \in job[t].todo :
       /\ SaveRow([row EXCEPT !.user = job[t].user, !.allowed = TRUE])
       /\ Continue(t, [job[t] EXCEPT !.todo = @ \ {row}])
  /\ UNCHANGED <<number, outside>>

Linked(t) ==
  /\ Doing(t, "link") /\ job[t].todo = {}
  /\ Respond(t)
  /\ UNCHANGED enrolVars

\* The SSO creates an account with a number, or a student changes the number
\* of the profile to one that nobody has: no row is linked.
NumberOutside(u, n) ==
  /\ number[u] = None \/ Holders(n) \subseteq {u}
  /\ AtOnce
  /\ number' = [number EXCEPT ![u] = n]
  /\ outside' = outside \cup {n}
  /\ UNCHANGED signups

-----------------------------------------------------------------------------
(* Applications.                                                           *)

\* The student applies: the one row with the name and the number is taken
\* and allowed, without a row one is created to be approved; several raise.
Apply(t, u) ==
  LET found == Entries(number[u], TRUE) IN
  /\ number[u] # None /\ Cardinality(found) <= 1
  /\ IF found = {}
     THEN /\ ~Busy(t) /\ AtOnce
          /\ signups' = signups \cup {[Row(<<t, requests'>>, number[u], TRUE) EXCEPT !.user = u]}
     ELSE /\ \E row \in found :
               Begin(t, [kind |-> "save", row |-> [row EXCEPT !.user = u, !.allowed = TRUE]])
          /\ UNCHANGED signups
  /\ UNCHANGED <<number, outside>>

\* The teacher approves the one row of a user.
Approve(t, u) ==
  /\ \E row \in signups :
       /\ {r \in signups : r.user = u} = {row}
       /\ Begin(t, [kind |-> "save", row |-> [row EXCEPT !.allowed = TRUE]])
  /\ UNCHANGED enrolVars

SaveSignup(t) ==
  /\ Doing(t, "save")
  /\ SaveRow(job[t].row)
  /\ Respond(t)
  /\ UNCHANGED <<number, outside>>

DeleteSignup(id) ==
  /\ \E row \in signups : row.id = id
  /\ AtOnce
  /\ signups' = {r \in signups : r.id # id}
  /\ UNCHANGED <<number, outside>>

Next ==
  \/ \E t \in Threads :
       \/ \E n \in Numbers, named \in BOOLEAN : ListStudent(t, n, named)
       \/ CreateEntry(t) \/ FindHolder(t)
       \/ \E u \in Students, n \in Numbers : Register(t, u, n)
       \/ CreateAccount(t) \/ ReadRows(t) \/ LinkRow(t) \/ Linked(t)
       \/ \E u \in Students : Apply(t, u) \/ Approve(t, u)
       \/ SaveSignup(t)
  \/ \E u \in Students, n \in Numbers : NumberOutside(u, n)
  \/ \E row \in signups : DeleteSignup(row.id)

Spec == Init /\ [][Next]_vars

-----------------------------------------------------------------------------
\* A student on a teacher's list who has registered is never left unlinked:
\* whichever of the two comes first and however they overlap, the list finds
\* the account or the registration finds the entry.
ListedIsLinked ==
  Quiet => \A row \in signups :
             row.user = None /\ row.named /\ row.number \notin outside
               => Holders(row.number) = {}
-----------------------------------------------------------------------------
(* What makes the property inductive.                                      *)

IsRow(row) == row \in [id : {row.id}, number : Numbers, named : BOOLEAN,
                       user : Students \cup {None}, allowed : BOOLEAN]

\* What a thread holds: a row that it saves belongs to somebody.
WorkOK(work) ==
  work # None =>
    /\ work.kind \in {"create", "holder"} =>
         work \in [kind : {"create", "holder"}, number : Numbers, named : BOOLEAN]
    /\ work.kind \in {"register", "rows"} => work.number \in Numbers /\ work.user \in Students
    /\ work.kind = "link" =>
         /\ work = [kind |-> "link", user |-> work.user, todo |-> work.todo]
         /\ work.user \in Students /\ \A row \in work.todo : IsRow(row)
    /\ work.kind = "save" => IsRow(work.row) /\ work.row.user # None

TypesOK ==
  /\ JobTable /\ \A t \in Threads : WorkOK(job[t])
  /\ number \in [Students -> Numbers \cup {None}]
  /\ \A row \in signups : IsRow(row)

\* A row that has to be linked, and a thread that will: it has yet to look for
\* the account, or for the rows, or has found the row.
Waits(row) ==
  row.user = None /\ row.named /\ row.number \notin outside /\ Holders(row.number) # {}

Finds(t, row) ==
  \/ Doing(t, "holder") /\ job[t].number = row.number /\ job[t].named
  \/ Doing(t, "rows") /\ job[t].number = row.number
  \/ Doing(t, "link") /\ row \in job[t].todo

ListedInv ==
  /\ TypesOK
  /\ \A n \in Numbers \ outside : \A u, v \in Holders(n) : u = v
  /\ \A row \in signups : Waits(row) => \E t \in Threads : Finds(t, row)
====
