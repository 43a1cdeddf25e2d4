---- MODULE RankBoard ----
(***************************************************************************)
(* The board of a contest: the list of ranks that ContestRankAPI keeps in  *)
(* the cache without an expiry, the judgements and edits that delete it,   *)
(* and the contest whose real_time_rank decides who does.  The ranks are   *)
(* as many as judgements were committed.  (JudgeStats has the ranks.)      *)
(***************************************************************************)
EXTENDS Requests

VARIABLES
  contest,    \* the contest's row: its rule is OI, its board is live
  ranks,      \* committed judgements of the contest
  cache       \* the cached list, None when there is none

boardVars == <<contest, ranks, cache>>
vars == <<job, requests, overlapped, contest, ranks, cache>>

Init ==
  /\ RequestsInit
  /\ contest \in [oi : BOOLEAN, live : BOOLEAN]
  /\ ranks = 0 /\ cache = None

Doing(t, kind) == Busy(t) /\ job[t].kind = kind

-----------------------------------------------------------------------------
\* An empty list is cached as well, and not taken for one.
Hit == cache # None /\ cache # 0

\* A list that is not cached is read, and cached when the rows were read.
View(t) ==
  /\ IF Hit THEN ~Busy(t) /\ AtOnce ELSE Begin(t, [kind |-> "read"])
  /\ UNCHANGED boardVars

ReadRanks(t) ==
  /\ Doing(t, "read")
  /\ Continue(t, [kind |-> "set", list |-> ranks])
  /\ UNCHANGED boardVars

SetCache(t) ==
  /\ Doing(t, "set")
  /\ cache' = job[t].list
  /\ Respond(t)
  /\ UNCHANGED <<contest, ranks>>

\* A judgement works with the contest as it was when it began.
Judge(t) ==
  /\ Begin(t, [kind |-> "judge", contest |-> contest])
  /\ UNCHANGED boardVars

\* Mutant: only boards of OI contests are dropped.
DropsOi(row) == row.oi

Drops(row) == row.oi \/ row.live

DropBoard(t) ==
  /\ Doing(t, "judge")
  /\ cache' = IF Drops(job[t].contest) THEN None ELSE cache
  /\ Continue(t, [kind |-> "commit"])
  /\ UNCHANGED <<contest, ranks>>

\* The judgement's transaction, which may fail, ends after the deletion.
Commit(t) ==
  /\ Doing(t, "commit")
  /\ ranks' \in {ranks, ranks + 1}
  /\ Respond(t)
  /\ UNCHANGED <<contest, cache>>

\* The board is dropped when it becomes live and the contest is saved later,
\* with all fields as they were read.
Edit(t, live) ==
  /\ Begin(t, [kind |-> "edit", contest |-> [contest EXCEPT !.live = live],
               drops |-> ~contest.live /\ live])
  /\ UNCHANGED boardVars

DropEdited(t) ==
  /\ Doing(t, "edit")
  /\ cache' = IF job[t].drops THEN None ELSE cache
  /\ Continue(t, [kind |-> "save", contest |-> job[t].contest])
  /\ UNCHANGED <<contest, ranks>>

SaveContest(t) ==
  /\ Doing(t, "save")
  /\ contest' = job[t].contest
  /\ Respond(t)
  /\ UNCHANGED <<ranks, cache>>

Next ==
  \E t \in Threads :
    \/ View(t) \/ ReadRanks(t) \/ SetCache(t)
    \/ Judge(t) \/ DropBoard(t) \/ Commit(t)
    \/ \E live \in BOOLEAN : Edit(t, live)
    \/ DropEdited(t) \/ SaveContest(t)

Spec == Init /\ [][Next]_vars

-----------------------------------------------------------------------------
Frozen(row) == ~row.oi /\ ~row.live

\* A board that is not frozen (live, or of an OI contest) shows the ranks
\* there are.  Requests that overlap are excepted: a list read before the
\* commit of a judgement is cached after its deletion, and stays.
BoardFresh ==
  (Quiet /\ ~overlapped /\ Hit) => Frozen(contest) \/ cache = ranks
-----------------------------------------------------------------------------
(* What makes the property inductive.                                      *)

ContestRows == [oi : BOOLEAN, live : BOOLEAN]
FreshFor(row) == Hit => Frozen(row) \/ cache = ranks

\* Between its steps a request leaves the board fresh or empty.
WorkOK(work) ==
  /\ work.kind = "set" => work.list = ranks
  /\ work.kind = "judge" => work.contest = contest
  /\ work.kind = "commit" => ~Hit \/ Frozen(contest)
  /\ work.kind \in {"edit", "save"} => work.contest \in ContestRows /\ work.contest.oi = contest.oi
  /\ work.kind = "edit" => work.drops = (~contest.live /\ work.contest.live)
  /\ work.kind = "save" => FreshFor(work.contest)

BoardInv ==
  /\ JobTable
  /\ ~overlapped =>
       /\ Alone /\ contest \in ContestRows
       /\ FreshFor(contest)
       /\ \A t \in Threads : Busy(t) => WorkOK(job[t])
====
