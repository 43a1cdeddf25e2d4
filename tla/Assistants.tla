---- MODULE Assistants ----
(***************************************************************************)
(* The assistants of lectures: a row of ta_admin_class for each lecture    *)
(* that a user assists, and the role of the account, which is raised with  *)
(* the first row and lowered with the last one (lecture/views/admin.py).   *)
(* One user, known by the number in the rows; the permissions of a row are *)
(* one bit.                                                                *)
(***************************************************************************)
EXTENDS Requests

CONSTANTS Lectures

VARIABLES
  assists,  \* rows of the user
  role,     \* admin_type of the user
  outside   \* history: the role was edited, or a lecture was deleted with its rows

assistantVars == <<assists, role, outside>>
vars == <<job, requests, overlapped, assists, role, outside>>

Roles == {"Regular User", "TA_Admin", "Admin", "Super Admin"}

Init ==
  /\ RequestsInit
  /\ assists = {}
  /\ role \in Roles \ {"TA_Admin"}
  /\ outside = FALSE

Row(id, lecture) == [id |-> id, lecture |-> lecture, permit |-> FALSE]
Doing(t, kind) == Busy(t) /\ job[t].kind = kind

-----------------------------------------------------------------------------
\* An administrator is refused, a Super Admin is not; a user who assists the
\* lecture already is left alone.
Add(t, lecture) ==
  /\ role # "Admin"
  /\ \A row \in assists : row.lecture # lecture
  /\ Begin(t, [kind |-> "create", lecture |-> lecture])
  /\ UNCHANGED assistantVars

CreateRow(t) ==
  /\ Doing(t, "create")
  /\ assists' = assists \cup {Row(requests, job[t].lecture)}
  /\ Continue(t, [kind |-> "role", role |-> "TA_Admin"])
  /\ UNCHANGED <<role, outside>>

SaveRole(t) ==
  /\ Doing(t, "role")
  /\ role' = job[t].role
  /\ Respond(t)
  /\ UNCHANGED <<assists, outside>>

\* What is deleted, and whether the role goes with it.
Removal(t, lectures, last) ==
  /\ assists # {}
  /\ Begin(t, [kind |-> IF last THEN "lower" ELSE "delete", lectures |-> lectures])
  /\ UNCHANGED assistantVars

\* Mutant: the rows are counted in the lecture only.
RemoveHere(t, lecture) ==
  Removal(t, {lecture}, Cardinality({row \in assists : row.lecture = lecture}) = 1)

\* The last row, of whatever lecture, takes the role with it.  A user without
\* any row raises.
Remove(t, lecture) ==
  IF Cardinality(assists) = 1 THEN Removal(t, Lectures, TRUE) ELSE Removal(t, {lecture}, FALSE)

Lower(t) ==
  /\ Doing(t, "lower")
  /\ role' = "Regular User"
  /\ Continue(t, [job[t] EXCEPT !.kind = "delete"])
  /\ UNCHANGED <<assists, outside>>

\* The query runs again: it deletes what it finds now.
Delete(t) ==
  /\ Doing(t, "delete")
  /\ assists' = {row \in assists : row.lecture \notin job[t].lectures}
  /\ Respond(t)
  /\ UNCHANGED <<role, outside>>

\* The permissions are set on the one row and every field is saved, which
\* inserts a row again that was deleted meanwhile.
Permit(t, lecture) ==
  /\ \E row \in assists :
       /\ {r \in assists : r.lecture = lecture} = {row}
       /\ Begin(t, [kind |-> "permit", row |-> [row EXCEPT !.permit = ~@]])
  /\ UNCHANGED assistantVars

SavePermit(t) ==
  /\ Doing(t, "permit")
  /\ assists' = {row \in assists : row.id # job[t].row.id} \cup {job[t].row}
  /\ Respond(t)
  /\ UNCHANGED <<role, outside>>

DeleteLecture(lecture) ==
  /\ AtOnce
  /\ assists' = {row \in assists : row.lecture # lecture}
  /\ outside' = (outside \/ assists' # assists)
  /\ UNCHANGED role

EditRole(new) ==
  /\ AtOnce
  /\ role' = new
  /\ outside' = TRUE
  /\ UNCHANGED assists

Next ==
  \/ \E t \in Threads :
       \/ \E lecture \in Lectures : Add(t, lecture) \/ Remove(t, lecture) \/ Permit(t, lecture)
       \/ CreateRow(t) \/ SaveRole(t) \/ Lower(t) \/ Delete(t) \/ SavePermit(t)
  \/ \E lecture \in Lectures : DeleteLecture(lecture)
  \/ \E new \in Roles : EditRole(new)

Spec == Init /\ [][Next]_vars

-----------------------------------------------------------------------------
\* A user has the role of an assistant exactly as long as a lecture lists the
\* user, unless requests overlapped, the role was edited or a lecture went
\* away with its assistants, who keep the role.
RoleMatches ==
  (Quiet /\ ~overlapped /\ ~outside) => (role = "TA_Admin" <=> assists # {})
-----------------------------------------------------------------------------
(* What makes the property inductive.                                      *)

Matches == role = "TA_Admin" <=> assists # {}

\* How far a request has come with the rows and the role.
WorkOK(work) ==
  /\ work.kind = "create" =>
       /\ Matches /\ role # "Admin" /\ work.lecture \in Lectures
       /\ \A row \in assists : row.lecture # work.lecture
  /\ work.kind = "role" => assists # {} /\ work.role = "TA_Admin"
  /\ work.kind = "lower" => work \in [kind : {"lower"}, lectures : {Lectures}]
  /\ work.kind = "delete" =>
       \/ role = "Regular User" /\ work.lectures = Lectures
       \/ /\ Matches /\ assists # {}
          /\ \E lecture \in Lectures : work.lectures = {lecture}
          /\ \A row \in assists : assists # {row}
  /\ work.kind = "permit" =>
       /\ Matches
       /\ \E row \in assists :
            /\ row.id = work.row.id /\ row.lecture = work.row.lecture
            /\ \A r \in assists : r.lecture = row.lecture => r = row

\* A lecture lists the user once.
RoleInv ==
  /\ JobTable
  /\ ~overlapped /\ ~outside =>
       /\ Alone
       /\ \A row \in assists : row.lecture \in Lectures
       /\ \A r, s \in assists : r.lecture = s.lecture => r = s
       /\ \A t \in Threads : Busy(t) =>
            /\ job[t].kind \in {"create", "role", "lower", "delete", "permit"}
            /\ WorkOK(job[t])
       /\ Quiet => Matches
====
