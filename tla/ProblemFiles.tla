---- MODULE ProblemFiles ----
(***************************************************************************)
(* Problems and the directories with their test cases.  A directory is     *)
(* made by an upload, an import or a copy, is shared by the copies of a    *)
(* problem that keep its test_case_id, and is never deleted.  Its file     *)
(* info describes the pairs of input and output, which a teacher may put   *)
(* into another order by renaming them one by one.                         *)
(***************************************************************************)
EXTENDS Requests, Sequences

CONSTANTS NCases   \* pairs of an upload

VARIABLES
  problems,     \* rows: test_case_id and what else
  dirs,         \* the directories
  known,        \* directories that a client was told of
  orphans,      \* history: directories that no problem had when a pruning looked
  interrupted,  \* history: directories that a renaming left half done, and their copies
  retried       \* history: those that were renamed again

fileVars == <<problems, dirs, known, orphans, interrupted, retried>>
vars == <<job, requests, overlapped, problems, dirs, known, orphans, interrupted, retried>>

Cases == 1..NCases
Temp == 0
In(i) == <<i, "in">>
Out(i) == <<i, "out">>
Names == {In(i) : i \in Cases \cup {Temp}} \cup {Out(i) : i \in Cases \cup {Temp}}

\* A special judge compares by itself: there are inputs only.
FilesOf(spj) ==
  [name \in Names |-> IF name[1] = Temp \/ (spj /\ name[2] = "out") THEN None ELSE name[1]]
Unwritten == <<>>  \* no info
Emptied == <<0>>   \* an info without what belongs into it
Readable(info) == info \notin {Unwritten, Emptied}
InfoOf == [i \in Cases |-> i]

\* There is a problem.
Init ==
  /\ RequestsInit
  /\ problems = {[id |-> <<0, 0>>, dir |-> <<0, 0>>]} /\ known = {<<0, 0>>} /\ orphans = {}
  /\ \E spj \in BOOLEAN :
       dirs = {[id |-> <<0, 0>>, spj |-> spj, files |-> FilesOf(spj), info |-> InfoOf]}
  /\ interrupted = {} /\ retried = {}

\* rand_str(): the directories of a request have names of their own.
New == <<requests', 0>>

Doing(t, kind) == Busy(t) /\ job[t].kind = kind
There(id) == \E d \in dirs : d.id = id
Dir(id) == CHOOSE d \in dirs : d.id = id
PutDir(d) == dirs' = {e \in dirs : e.id # d.id} \cup {d}

-----------------------------------------------------------------------------
(* Uploads.                                                                *)

\* process_zip: an archive without cases makes nothing; the directory and its
\* files come before info.
Upload(t, spj) ==
  /\ Begin(t, [kind |-> "upload", id |-> New])
  /\ dirs' = dirs \cup {[id |-> New, spj |-> spj, files |-> FilesOf(spj), info |-> Unwritten]}
  /\ UNCHANGED <<problems, known, orphans, interrupted, retried>>

WriteInfo(t) ==
  /\ Doing(t, "upload")
  /\ IF There(job[t].id)
     THEN /\ PutDir([Dir(job[t].id) EXCEPT !.info = InfoOf])
          /\ known' = known \cup {job[t].id}
     ELSE UNCHANGED <<dirs, known>>
  /\ Respond(t)
  /\ UNCHANGED <<problems, orphans, interrupted, retried>>

\* An import makes a directory and a row for each problem, the rows in one
\* transaction ...
Import(t) ==
  /\ Begin(t, [kind |-> "import", request |-> requests', rows |-> {}])
  /\ UNCHANGED fileVars

ImportOne(t, spj) ==
  LET id == <<job[t].request, Cardinality(job[t].rows)>> IN
  /\ Doing(t, "import") /\ Cardinality(job[t].rows) < 2
  /\ dirs' = dirs \cup {[id |-> id, spj |-> spj, files |-> FilesOf(spj), info |-> InfoOf]}
  /\ Continue(t, [job[t] EXCEPT !.rows = @ \cup {[id |-> id, dir |-> id]}])
  /\ UNCHANGED <<problems, known, orphans, interrupted, retried>>

\* ... which is committed also when a problem is refused with an error that is
\* returned, and rolled back by one that is raised.
EndImport(t) ==
  /\ Doing(t, "import")
  /\ problems' \in {problems, problems \cup job[t].rows}
  /\ Respond(t)
  /\ UNCHANGED <<dirs, known, orphans, interrupted, retried>>

-----------------------------------------------------------------------------
(* Problems.                                                               *)

\* A test_case_id is not looked at ("todo check"): clients send one that an
\* upload or a problem has given them.
Used == {problem.dir : problem \in problems}
Given == known \cup Used

Create(dir) ==
  /\ dir \in Given /\ AtOnce
  /\ problems' = problems \cup {[id |-> New, dir |-> dir]}
  /\ UNCHANGED <<dirs, known, orphans, interrupted, retried>>

Edit(problem, dir) ==
  /\ dir \in Given /\ AtOnce
  /\ problems' = (problems \ {problem}) \cup {[problem EXCEPT !.dir = dir]}
  /\ UNCHANGED <<dirs, known, orphans, interrupted, retried>>

\* Mutant: the lines that delete the directory are no comment.
DeleteWithDir(problem) ==
  /\ AtOnce
  /\ problems' = problems \ {problem}
  /\ dirs' = {d \in dirs : d.id # problem.dir}
  /\ UNCHANGED <<known, orphans, interrupted, retried>>

\* The directory stays: others may share it.
Delete(problem) ==
  /\ AtOnce
  /\ problems' = problems \ {problem}
  /\ UNCHANGED <<dirs, known, orphans, interrupted, retried>>

\* A problem made public, added to a contest or copied with a whole lecture.
Share(problem) ==
  /\ AtOnce
  /\ problems' = problems \cup {[id |-> New, dir |-> problem.dir]}
  /\ UNCHANGED <<dirs, known, orphans, interrupted, retried>>

\* A renaming between its first move and its last write.
Renamed(id) ==
  \E t \in Threads : Busy(t) /\ job[t].kind \in {"rename", "info"} /\ job[t].id = id

\* The copy of one contest copies the directory first, as it is ...
CopyDir(t, problem) ==
  /\ There(problem.dir)
  /\ Begin(t, [kind |-> "copy", id |-> New])
  /\ dirs' = dirs \cup {[Dir(problem.dir) EXCEPT !.id = New]}
  /\ interrupted' = interrupted \cup
       IF problem.dir \in interrupted \/ Renamed(problem.dir) THEN {New} ELSE {}
  /\ retried' = retried \cup IF problem.dir \in retried THEN {New} ELSE {}
  /\ UNCHANGED <<problems, known, orphans>>

SaveCopy(t) ==
  /\ Doing(t, "copy")
  /\ problems' = problems \cup {[id |-> job[t].id, dir |-> job[t].id]}
  /\ Respond(t)
  /\ UNCHANGED <<dirs, known, orphans, interrupted, retried>>

\* ... and the copy of selected problems makes it, whereupon copytree refuses
\* to: an empty directory, and no problem.
CopySelected(problem) ==
  /\ AtOnce
  /\ dirs' = dirs \cup {[id |-> New, spj |-> FALSE,
                         files |-> [name \in Names |-> None], info |-> Unwritten]}
  /\ UNCHANGED <<problems, known, orphans, interrupted, retried>>

-----------------------------------------------------------------------------
(* Pruning: the directories are listed before the rows are read.           *)

Prune(t) ==
  /\ Begin(t, [kind |-> "list", ids |-> {d.id : d \in dirs}])
  /\ UNCHANGED fileVars

FindOrphans(t) ==
  /\ Doing(t, "list")
  /\ Continue(t, [kind |-> "prune", ids |-> job[t].ids \ Used])
  /\ orphans' = orphans \cup ({d.id : d \in dirs} \ Used)
  /\ UNCHANGED <<problems, dirs, known, interrupted, retried>>

\* All of them are deleted, or one, then or when the administrator has seen
\* the list.
PruneOne(t) ==
  /\ Doing(t, "prune")
  /\ \E id \in job[t].ids :
       /\ dirs' = {d \in dirs : d.id # id}
       /\ Continue(t, [job[t] EXCEPT !.ids = @ \ {id}])
  /\ UNCHANGED <<problems, known, orphans, interrupted, retried>>

PruneEnds(t) ==
  /\ Doing(t, "prune")
  /\ Respond(t)
  /\ UNCHANGED fileVars

-----------------------------------------------------------------------------
(* Renaming: the selected cases become the first ones.                     *)

\* Mutant: the case in the way is not set aside.
ExchangeDirect(i, j) == <<<<In(j), In(i)>>, <<Out(j), Out(i)>>>>

Exchange(i, j) == <<<<In(i), In(Temp)>>, <<In(j), In(i)>>, <<In(Temp), In(j)>>,
                    <<Out(i), Out(Temp)>>, <<Out(j), Out(i)>>, <<Out(Temp), Out(j)>>>>

\* Mutant: the entry is set aside by reference.
InfoAliased(info, i, j) == [info EXCEPT ![j] = info[i]]

InfoExchanged(info, i, j) == [info EXCEPT ![j] = info[i], ![i] = info[j]]

Rename(t, id, selected) ==
  /\ Readable(Dir(id).info) /\ selected # {}
  /\ Begin(t, [kind |-> "rename", id |-> id, i |-> 1, selected |-> selected,
               moves |-> <<>>, info |-> Dir(id).info])
  /\ retried' = retried \cup ({id} \cap interrupted)
  /\ UNCHANGED <<problems, dirs, known, orphans, interrupted>>

Next1(selected) == CHOOSE j \in selected : \A k \in selected : j <= k

\* The next selected case has to become case i.
RenameCase(t) ==
  LET work == job[t]
      j == Next1(work.selected)
  IN
  /\ Doing(t, "rename") /\ work.moves = <<>> /\ work.selected # {}
  /\ Continue(t, [work EXCEPT !.i = @ + 1, !.selected = @ \ {j},
                    !.moves = IF j = work.i THEN <<>> ELSE Exchange(work.i, j),
                    !.info = IF j = work.i THEN @ ELSE InfoExchanged(@, work.i, j)])
  /\ UNCHANGED fileVars

\* os.rename replaces what is there, and raises when there is nothing.
Move(t) ==
  LET work == job[t]
      from == Head(work.moves)[1]
      to == Head(work.moves)[2]
      d == Dir(work.id)
  IN
  /\ Doing(t, "rename") /\ work.moves # <<>>
  /\ IF ~There(work.id) \/ d.files[from] = None
     THEN /\ Respond(t)
          /\ interrupted' = interrupted \cup {work.id}
          /\ UNCHANGED dirs
     ELSE /\ PutDir([d EXCEPT !.files[to] = d.files[from], !.files[from] = None])
          /\ Continue(t, [work EXCEPT !.moves = Tail(@)])
          /\ UNCHANGED interrupted
  /\ UNCHANGED <<problems, known, orphans, retried>>

\* open("w") empties info ...
EmptyInfo(t) ==
  LET work == job[t] IN
  /\ Doing(t, "rename") /\ work.moves = <<>> /\ work.selected = {}
  /\ IF There(work.id)
     THEN /\ PutDir([Dir(work.id) EXCEPT !.info = Emptied])
          /\ Continue(t, [kind |-> "info", id |-> work.id, info |-> work.info])
     ELSE Respond(t) /\ UNCHANGED dirs
  /\ UNCHANGED <<problems, known, orphans, interrupted, retried>>

\* ... and json.dump writes it.
RenameEnds(t) ==
  LET work == job[t] IN
  /\ Doing(t, "info")
  /\ IF There(work.id)
     THEN PutDir([Dir(work.id) EXCEPT !.info = work.info])
     ELSE UNCHANGED dirs
  /\ Respond(t)
  /\ UNCHANGED <<problems, known, orphans, interrupted, retried>>

\* The process dies, or the disk is full: an info that was emptied stays so,
\* with nothing or a part of what was to be written.
Crash(t) ==
  /\ Busy(t)
  /\ interrupted' = interrupted \cup
       IF job[t].kind \in {"rename", "info"} THEN {job[t].id} ELSE {}
  /\ Respond(t)
  /\ UNCHANGED <<problems, dirs, known, orphans, retried>>

Next ==
  \/ \E t \in Threads :
       \/ \E spj \in BOOLEAN : Upload(t, spj) \/ ImportOne(t, spj)
       \/ WriteInfo(t) \/ Import(t) \/ EndImport(t)
       \/ \E problem \in problems : CopyDir(t, problem)
       \/ SaveCopy(t)
       \/ \E d \in dirs, selected \in SUBSET Cases : Rename(t, d.id, selected)
       \/ RenameCase(t) \/ Move(t) \/ EmptyInfo(t) \/ RenameEnds(t) \/ Crash(t)
       \/ Prune(t) \/ FindOrphans(t) \/ PruneOne(t) \/ PruneEnds(t)
  \/ \E dir \in Given : Create(dir) \/ \E problem \in problems : Edit(problem, dir)
  \/ \E problem \in problems : Delete(problem) \/ Share(problem) \/ CopySelected(problem)

Spec == Init /\ [][Next]_vars

-----------------------------------------------------------------------------
\* Every problem has a directory that was written to its end, in whatever order
\* requests come and wherever they die, but for what the code cannot prevent.  A
\* renaming empties info before it writes it: a problem is without one for that
\* moment, and for good when the renaming died there or a copy was taken.  And a
\* pruning takes a directory from a problem that is saved after it looked.
FilesExist ==
  \A problem \in problems :
    problem.dir \notin orphans =>
      /\ There(problem.dir)
      /\ Dir(problem.dir).info # Unwritten
      /\ Dir(problem.dir).info = Emptied => Renamed(problem.dir) \/ problem.dir \in interrupted

\* info describes the files of a case where no renaming is in progress or
\* was interrupted.  Two renamings at once are excepted: they share the name
\* for the file set aside.
InfoDescribesFiles ==
  ~overlapped =>
    \A d \in dirs : Readable(d.info) /\ ~Renamed(d.id) /\ d.id \notin interrupted =>
      \A i \in Cases : /\ d.files[In(i)] = d.info[i]
                       /\ d.files[Out(i)] = IF d.spj THEN None ELSE d.info[i]

Complete(d) ==
  \A i \in Cases : /\ \E j \in Cases \cup {Temp} : d.files[In(j)] = i
                   /\ ~d.spj => \E j \in Cases \cup {Temp} : d.files[Out(j)] = i

\* A renaming loses no file, wherever it stops: only the second one after an
\* interruption may, as it sets another file aside under the same name.
NoCaseLost ==
  ~overlapped =>
    \A d \in dirs : d.info # Unwritten /\ d.id \notin retried => Complete(d)
-----------------------------------------------------------------------------
(* What makes the properties inductive.                                    *)

Ids == (0..requests) \X Nat
Rows == [id : Ids, dir : Ids]
Directories == [id : Ids, spj : BOOLEAN, files : [Names -> Cases \cup {None}],
                info : {Unwritten, Emptied} \cup [Cases -> Cases]]

\* What a request that is in progress is going to give to a problem.
PromisedBy(work) ==
  CASE work.kind = "import" -> {row.dir : row \in work.rows}
    [] work.kind = "copy" -> {work.id}
    [] OTHER -> {}

Promised == Given \cup UNION {PromisedBy(job[t]) : t \in {u \in Threads : Busy(u)}}

\* Such a directory is written to its end, and is there unless a pruning saw
\* that nobody had it.
Kept(id) ==
  /\ \A d \in dirs : d.id = id => d.info # Unwritten
  /\ id \notin orphans => There(id)

WorkOK(work) ==
  /\ work.kind \in {"upload", "import", "copy", "list", "prune", "rename", "info"}
  /\ work.kind \in {"upload", "copy"} => work.id \in Ids
  /\ work.kind = "import" =>
       /\ work \in [kind : {"import"}, request : 0..requests, rows : SUBSET Rows]
       /\ IsFiniteSet(work.rows)
       /\ \A d \in dirs : d.id[1] = work.request => d.info # Unwritten
  /\ work.kind = "list" => work.ids \subseteq {d.id : d \in dirs} \cup orphans
  /\ work.kind = "prune" => work \in [kind : {"prune"}, ids : SUBSET orphans]
  /\ work.kind = "rename" =>
       /\ work \in [kind : {"rename"}, id : Ids, i : Nat \ {0}, selected : SUBSET Cases,
                     moves : Seq(Names \X Names), info : [Cases -> Cases]]
       /\ \A k \in work.selected : work.i <= k
  /\ work.kind = "info" => work \in [kind : {"info"}, id : Ids, info : [Cases -> Cases]]

DirsInv ==
  /\ JobTable /\ requests \in Nat
  /\ problems \subseteq Rows /\ known \subseteq Ids /\ dirs \subseteq Directories
  /\ \A t \in Threads : Busy(t) => WorkOK(job[t])
  /\ \A id \in Promised : Kept(id)

\* Only a renaming empties an info.
EmptiedByRenaming ==
  \A d \in dirs : d.info = Emptied => Renamed(d.id) \/ d.id \in interrupted

\* The inputs, or the outputs, of a directory.
Side(files, side) == [k \in Cases \cup {Temp} |-> files[<<k, side>>]]

\* The files are those that info describes, and nothing is set aside.
Settled(files, info) == files[Temp] = None /\ \A i \in Cases : files[i] = info[i]

Matches(d, info) ==
  /\ Settled(Side(d.files, "in"), info)
  /\ IF d.spj THEN \A k \in Cases \cup {Temp} : Side(d.files, "out")[k] = None
     ELSE Settled(Side(d.files, "out"), info)

\* Case i and case j, of which info is what they are to become, with so many
\* moves to come.
SideAt(files, info, i, j, left) ==
  /\ \A k \in Cases \ {i, j} : files[k] = info[k]
  /\ left = 3 => files[i] = info[j] /\ files[j] = info[i] /\ files[Temp] = None
  /\ left = 2 => files[i] = None /\ files[j] = info[i] /\ files[Temp] = info[j]
  /\ left = 1 => files[i] = info[i] /\ files[j] = None /\ files[Temp] = info[j]
  /\ left = 0 => files[i] = info[i] /\ files[j] = info[j] /\ files[Temp] = None

Halfway(d, info, i, j, left) ==
  /\ SideAt(Side(d.files, "in"), info, i, j, IF left > 3 THEN left - 3 ELSE 0)
  /\ IF d.spj THEN left >= 3 /\ \A k \in Cases \cup {Temp} : Side(d.files, "out")[k] = None
     ELSE SideAt(Side(d.files, "out"), info, i, j, IF left > 3 THEN 3 ELSE left)

\* How far an upload or a renaming is with its directory.
StageOK(work, d) ==
  /\ work.kind = "upload" => d.files = FilesOf(d.spj)
  /\ work.kind = "rename" =>
       /\ Readable(d.info)
       /\ work.id \in interrupted => work.id \in retried
       /\ work.id \notin interrupted =>
            \/ work.moves = <<>> /\ Matches(d, work.info)
            \/ \E i, j \in Cases, left \in 1..6 :
                 /\ i # j /\ work.moves = SubSeq(Exchange(i, j), 7 - left, 6)
                 /\ Halfway(d, work.info, i, j, left)
  /\ work.kind = "info" =>
       /\ d.info = Emptied
       /\ work.id \in interrupted => work.id \in retried
       /\ work.id \notin interrupted => Matches(d, work.info)

\* What is known of a directory as long as no requests overlap.
Sound(d) ==
  /\ d.info # Unwritten /\ d.id \notin retried => Complete(d)
  /\ Readable(d.info) /\ ~Renamed(d.id) /\ d.id \notin interrupted => Matches(d, d.info)
  /\ \A t \in Threads : Busy(t) /\ job[t].kind \in {"upload", "rename", "info"} /\ job[t].id = d.id =>
       StageOK(job[t], d)

\* Directories have names of their own; an import numbers them.
Numbered(work) ==
  /\ \A d \in dirs : d.id[1] = work.request => d.id[2] < Cardinality(work.rows)
  /\ \A row \in work.rows : row.id[2] < Cardinality(work.rows)

Single ==
  /\ \A d, e \in dirs : d.id = e.id => d = e
  /\ \A t \in Threads : Doing(t, "import") => Numbered(job[t])

CasesInv ==
  /\ DirsInv /\ retried \subseteq interrupted
  /\ ~overlapped => Alone /\ Single /\ \A d \in dirs : Sound(d)

FilesInv == CasesInv /\ EmptiedByRenaming
====
