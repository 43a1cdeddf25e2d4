--------------------------- MODULE JudgeStatsProofs ---------------------------
(***************************************************************************)
(* Proofs about JudgeStats for any users, problems, contests, threads,     *)
(* rejudges and failures: the locks of judgements never form a circle,     *)
(* what the profile shows as accepted in a contest is accepted in its      *)
(* rank, and the counters of problems, the ranks and the profiles add up.  *)
(***************************************************************************)
EXTENDS JudgeStats, TotalsProofs

-----------------------------------------------------------------------------
(* The locks.                                                              *)

Steps == {"idle", "log", "request", "count", "owner", "user", "problem",
          "rank", "first", "commit"}

\* What a thread holds at each step.
LockInv(t) ==
  /\ pc[t] \in {"idle", "log", "request", "count", "user"} => held[t] = {}
  /\ pc[t] = "owner" => held[t] = {ProblemRow(t)}
  /\ pc[t] = "problem" => held[t] = {UserRow(t)}
  /\ pc[t] \in {"rank", "first", "commit"} =>
       UserRow(t) \in held[t] /\ held[t] \subseteq {UserRow(t), ProblemRow(t), RankRow(t)}
  /\ pc[t] = "rank" => RankRow(t) \notin held[t]
  /\ pc[t] \in {"count", "owner"} => task[t].problem \notin Contest
  /\ pc[t] \in {"user", "problem", "rank", "first"} => task[t].problem \in Contest

\* No row is held twice.
HeldInv ==
  /\ pc \in [Threads -> Steps]
  /\ task = [t \in Threads |-> task[t]] /\ held = [t \in Threads |-> held[t]]
  /\ \A t \in Threads : LockInv(t)
  /\ \A t, x \in Threads : t # x => held[t] \cap held[x] = {}

\* Rows of different tables, and of different keys, are different.
LEMMA RowsDiffer ==
  ASSUME NEW t, NEW x
  PROVE  /\ UserRow(t) # ProblemRow(x) /\ UserRow(t) # RankRow(x) /\ ProblemRow(t) # RankRow(x)
         /\ UserRow(t) = UserRow(x) <=> task[t].user = task[x].user
         /\ ProblemRow(t) = ProblemRow(x) <=> task[t].problem = task[x].problem
         /\ RankRow(t) = RankRow(x) => task[t].user = task[x].user
  BY DEF UserRow, ProblemRow, RankRow


\* A thread's step, when the others keep what they have.
LEMMA OneMoves ==
  ASSUME HeldInv, NEW t \in Threads,
         \A x \in Threads \ {t} : UNCHANGED <<pc[x], task[x], held[x]>>,
         pc' \in [Threads -> Steps],
         task' = [x \in Threads |-> task'[x]], held' = [x \in Threads |-> held'[x]],
         LockInv(t)', \A x \in Threads \ {t} : held'[t] \cap held'[x] = {}
  PROVE  HeldInv'
<1>1. ASSUME NEW x \in Threads \ {t} PROVE LockInv(x)'
  <2>1. LockInv(x)
    BY DEF HeldInv
  <2>2. UserRow(x)' = UserRow(x) /\ ProblemRow(x)' = ProblemRow(x) /\ RankRow(x)' = RankRow(x)
    BY DEF UserRow, ProblemRow, RankRow
  <2> QED
    BY <2>1, <2>2 DEF LockInv
<1>2. \A u, x \in Threads : u # x => held'[u] \cap held'[x] = {}
  BY DEF HeldInv
<1> QED
  BY <1>1, <1>2 DEF HeldInv

\* The locks are taken one by one and released together.
LEMMA HeldInductive == Spec => []HeldInv
<1>1. Init => HeldInv
  BY DEF Init, HeldInv, LockInv, Steps
<1>2. HeldInv /\ [Next]_vars => HeldInv'
  <2> SUFFICES ASSUME HeldInv, [Next]_vars
               PROVE  HeldInv'
    OBVIOUS
  <2> USE DEF ranks, locals, bounds, history
  <2>1. ASSUME NEW t \in Threads, SaveProfile(t)
        PROVE  HeldInv'
    <3>1. /\ \A x \in Threads \ {t} : UNCHANGED <<pc[x], task[x], held[x]>>
          /\ pc' \in [Threads -> Steps]
          /\ task' = [x \in Threads |-> task'[x]] /\ held' = [x \in Threads |-> held'[x]]
      BY <2>1 DEF SaveProfile, Fault, End, Goto, HeldInv, Steps
    <3>2. LockInv(t)' /\ \A x \in Threads \ {t} : held'[t] \cap held'[x] = {}
      BY <2>1, <3>1, RowsDiffer DEF SaveProfile, Fault, End, Goto, HeldInv, LockInv, Steps,
         UserRow, ProblemRow, RankRow
    <3> QED
      BY <3>1, <3>2, OneMoves
  <2>2. ASSUME NEW t \in Threads, SystemError(t)
        PROVE  HeldInv'
    <3>1. /\ \A x \in Threads \ {t} : UNCHANGED <<pc[x], task[x], held[x]>>
          /\ pc' \in [Threads -> Steps]
          /\ task' = [x \in Threads |-> task'[x]] /\ held' = [x \in Threads |-> held'[x]]
      BY <2>2 DEF SystemError, End, Goto, HeldInv, Steps
    <3>2. LockInv(t)' /\ \A x \in Threads \ {t} : held'[t] \cap held'[x] = {}
      BY <2>2, <3>1, RowsDiffer DEF SystemError, End, Goto, HeldInv, LockInv, Steps, UserRow,
         ProblemRow, RankRow
    <3> QED
      BY <3>1, <3>2, OneMoves
  <2>3. ASSUME NEW t \in Threads, NEW r \in Results, Answer(t, r)
        PROVE  HeldInv'
    <3>1. /\ \A x \in Threads \ {t} : UNCHANGED <<pc[x], task[x], held[x]>>
          /\ pc' \in [Threads -> Steps]
          /\ task' = [x \in Threads |-> task'[x]] /\ held' = [x \in Threads |-> held'[x]]
      BY <2>3 DEF Answer, End, Goto, HeldInv, Steps
    <3>2. LockInv(t)' /\ \A x \in Threads \ {t} : held'[t] \cap held'[x] = {}
      BY ZenonT(60), <2>3, <3>1, RowsDiffer DEF Answer, End, Goto, HeldInv, LockInv, Steps, UserRow,
         ProblemRow, RankRow
    <3> QED
      BY <3>1, <3>2, OneMoves
  <2>4. ASSUME NEW t \in Threads, LockCounters(t)
        PROVE  HeldInv'
    <3>1. /\ \A x \in Threads \ {t} : UNCHANGED <<pc[x], task[x], held[x]>>
          /\ pc' \in [Threads -> Steps]
          /\ task' = [x \in Threads |-> task'[x]] /\ held' = [x \in Threads |-> held'[x]]
          /\ task' = task
      BY <2>4 DEF LockCounters, Lock, Goto, locking, HeldInv, Steps
    <3>2. /\ held'[t] = held[t] \cup {ProblemRow(t)}
          /\ \A x \in Threads \ {t} : ProblemRow(t) \notin held[x]
      BY <2>4 DEF LockCounters, Lock, Goto, locking, HeldInv
    <3>3. \A x \in Threads \ {t} : held'[t] \cap held'[x] = {}
      BY <3>1, <3>2 DEF HeldInv
    <3>4. UserRow(t)' = UserRow(t) /\ ProblemRow(t)' = ProblemRow(t) /\ RankRow(t)' = RankRow(t)
      BY <3>1 DEF UserRow, ProblemRow, RankRow
    <3>5. LockInv(t)
      BY DEF HeldInv
    <3>6. /\ pc[t] = "count" /\ pc'[t] \in {"owner"}
          /\ RankRow(t) \notin {UserRow(t), ProblemRow(t)}
      BY <2>4, RowsDiffer DEF LockCounters, Goto, HeldInv
    <3>7. LockInv(t)'
      BY <3>1, <3>2, <3>4, <3>5, <3>6 DEF LockInv
    <3> QED
      BY <3>1, <3>3, <3>7, OneMoves
  <2>5. ASSUME NEW t \in Threads, LockOwner(t)
        PROVE  HeldInv'
    <3>1. /\ \A x \in Threads \ {t} : UNCHANGED <<pc[x], task[x], held[x]>>
          /\ pc' \in [Threads -> Steps]
          /\ task' = [x \in Threads |-> task'[x]] /\ held' = [x \in Threads |-> held'[x]]
          /\ task' = task
      BY <2>5 DEF LockOwner, Lock, Goto, locking, HeldInv, Steps
    <3>2. /\ held'[t] = held[t] \cup {UserRow(t)}
          /\ \A x \in Threads \ {t} : UserRow(t) \notin held[x]
      BY <2>5 DEF LockOwner, Lock, Goto, locking, HeldInv
    <3>3. \A x \in Threads \ {t} : held'[t] \cap held'[x] = {}
      BY <3>1, <3>2 DEF HeldInv
    <3>4. UserRow(t)' = UserRow(t) /\ ProblemRow(t)' = ProblemRow(t) /\ RankRow(t)' = RankRow(t)
      BY <3>1 DEF UserRow, ProblemRow, RankRow
    <3>5. LockInv(t)
      BY DEF HeldInv
    <3>6. /\ pc[t] = "owner" /\ pc'[t] \in {"commit"}
          /\ RankRow(t) \notin {UserRow(t), ProblemRow(t)}
      BY <2>5, RowsDiffer DEF LockOwner, Goto, HeldInv
    <3>7. LockInv(t)'
      BY <3>1, <3>2, <3>4, <3>5, <3>6 DEF LockInv
    <3> QED
      BY <3>1, <3>3, <3>7, OneMoves
  <2>6. ASSUME NEW t \in Threads, CommitCounters(t)
        PROVE  HeldInv'
    <3>1. /\ \A x \in Threads \ {t} : UNCHANGED <<pc[x], task[x], held[x]>>
          /\ pc' \in [Threads -> Steps]
          /\ task' = [x \in Threads |-> task'[x]] /\ held' = [x \in Threads |-> held'[x]]
      BY <2>6 DEF CommitCounters, Release, End, Goto, HeldInv, Steps
    <3>2. LockInv(t)' /\ \A x \in Threads \ {t} : held'[t] \cap held'[x] = {}
      BY <2>6, <3>1, RowsDiffer DEF CommitCounters, Release, End, Goto, HeldInv, LockInv, Steps,
         UserRow, ProblemRow, RankRow
    <3> QED
      BY <3>1, <3>2, OneMoves
  <2>7. ASSUME NEW t \in Threads, LockUser(t)
        PROVE  HeldInv'
    <3>1. /\ \A x \in Threads \ {t} : UNCHANGED <<pc[x], task[x], held[x]>>
          /\ pc' \in [Threads -> Steps]
          /\ task' = [x \in Threads |-> task'[x]] /\ held' = [x \in Threads |-> held'[x]]
          /\ task' = task
      BY <2>7 DEF LockUser, Lock, Goto, locking, HeldInv, Steps
    <3>2. /\ held'[t] = held[t] \cup {UserRow(t)}
          /\ \A x \in Threads \ {t} : UserRow(t) \notin held[x]
      BY <2>7 DEF LockUser, Lock, Goto, locking, HeldInv
    <3>3. \A x \in Threads \ {t} : held'[t] \cap held'[x] = {}
      BY <3>1, <3>2 DEF HeldInv
    <3>4. UserRow(t)' = UserRow(t) /\ ProblemRow(t)' = ProblemRow(t) /\ RankRow(t)' = RankRow(t)
      BY <3>1 DEF UserRow, ProblemRow, RankRow
    <3>5. LockInv(t)
      BY DEF HeldInv
    <3>6. /\ pc[t] = "user" /\ pc'[t] \in {"problem", "rank"}
          /\ RankRow(t) \notin {UserRow(t), ProblemRow(t)}
      BY <2>7, RowsDiffer DEF LockUser, Goto, HeldInv
    <3>7. LockInv(t)'
      BY <3>1, <3>2, <3>4, <3>5, <3>6 DEF LockInv
    <3> QED
      BY <3>1, <3>3, <3>7, OneMoves
  <2>8. ASSUME NEW t \in Threads, LockProblem(t)
        PROVE  HeldInv'
    <3>1. /\ \A x \in Threads \ {t} : UNCHANGED <<pc[x], task[x], held[x]>>
          /\ pc' \in [Threads -> Steps]
          /\ task' = [x \in Threads |-> task'[x]] /\ held' = [x \in Threads |-> held'[x]]
          /\ task' = task
      BY <2>8 DEF LockProblem, Lock, Goto, locking, HeldInv, Steps
    <3>2. /\ held'[t] = held[t] \cup {ProblemRow(t)}
          /\ \A x \in Threads \ {t} : ProblemRow(t) \notin held[x]
      BY <2>8 DEF LockProblem, Lock, Goto, locking, HeldInv
    <3>3. \A x \in Threads \ {t} : held'[t] \cap held'[x] = {}
      BY <3>1, <3>2 DEF HeldInv
    <3>4. UserRow(t)' = UserRow(t) /\ ProblemRow(t)' = ProblemRow(t) /\ RankRow(t)' = RankRow(t)
      BY <3>1 DEF UserRow, ProblemRow, RankRow
    <3>5. LockInv(t)
      BY DEF HeldInv
    <3>6. /\ pc[t] = "problem" /\ pc'[t] \in {"rank"}
          /\ RankRow(t) \notin {UserRow(t), ProblemRow(t)}
      BY <2>8, RowsDiffer DEF LockProblem, Goto, HeldInv
    <3>7. LockInv(t)'
      BY <3>1, <3>2, <3>4, <3>5, <3>6 DEF LockInv
    <3> QED
      BY <3>1, <3>3, <3>7, OneMoves
  <2>9. ASSUME NEW t \in Threads, LockRank(t)
        PROVE  HeldInv'
    <3>1. /\ \A x \in Threads \ {t} : UNCHANGED <<pc[x], task[x], held[x]>>
          /\ pc' \in [Threads -> Steps]
          /\ task' = [x \in Threads |-> task'[x]] /\ held' = [x \in Threads |-> held'[x]]
          /\ task' = task
      BY <2>9 DEF LockRank, Lock, Goto, locking, HeldInv, Steps
    <3>2. /\ held'[t] = held[t] \cup {RankRow(t)}
          /\ \A x \in Threads \ {t} : RankRow(t) \notin held[x]
      BY <2>9 DEF LockRank, Lock, Goto, locking, HeldInv
    <3>3. \A x \in Threads \ {t} : held'[t] \cap held'[x] = {}
      BY <3>1, <3>2 DEF HeldInv
    <3>4. UserRow(t)' = UserRow(t) /\ ProblemRow(t)' = ProblemRow(t) /\ RankRow(t)' = RankRow(t)
      BY <3>1 DEF UserRow, ProblemRow, RankRow
    <3>5. LockInv(t)
      BY DEF HeldInv
    <3>6. /\ pc[t] = "rank" /\ pc'[t] \in {"first", "commit"}
          /\ RankRow(t) \notin {UserRow(t), ProblemRow(t)}
      BY <2>9, RowsDiffer DEF LockRank, Goto, HeldInv
    <3>7. LockInv(t)'
      BY <3>1, <3>2, <3>4, <3>5, <3>6 DEF LockInv
    <3> QED
      BY <3>1, <3>3, <3>7, OneMoves
  <2>10. ASSUME NEW t \in Threads, LockFirst(t)
        PROVE  HeldInv'
    <3>1. /\ \A x \in Threads \ {t} : UNCHANGED <<pc[x], task[x], held[x]>>
          /\ pc' \in [Threads -> Steps]
          /\ task' = [x \in Threads |-> task'[x]] /\ held' = [x \in Threads |-> held'[x]]
          /\ task' = task
      BY <2>10 DEF LockFirst, Lock, Goto, locking, HeldInv, Steps
    <3>2. /\ held'[t] = held[t] \cup {ProblemRow(t)}
          /\ \A x \in Threads \ {t} : ProblemRow(t) \notin held[x]
      BY <2>10 DEF LockFirst, Lock, Goto, locking, HeldInv
    <3>3. \A x \in Threads \ {t} : held'[t] \cap held'[x] = {}
      BY <3>1, <3>2 DEF HeldInv
    <3>4. UserRow(t)' = UserRow(t) /\ ProblemRow(t)' = ProblemRow(t) /\ RankRow(t)' = RankRow(t)
      BY <3>1 DEF UserRow, ProblemRow, RankRow
    <3>5. LockInv(t)
      BY DEF HeldInv
    <3>6. /\ pc[t] = "first" /\ pc'[t] \in {"commit"}
          /\ RankRow(t) \notin {UserRow(t), ProblemRow(t)}
      BY <2>10, RowsDiffer DEF LockFirst, Goto, HeldInv
    <3>7. LockInv(t)'
      BY <3>1, <3>2, <3>4, <3>5, <3>6 DEF LockInv
    <3> QED
      BY <3>1, <3>3, <3>7, OneMoves
  <2>11. ASSUME NEW t \in Threads, CommitContest(t)
        PROVE  HeldInv'
    <3>1. /\ \A x \in Threads \ {t} : UNCHANGED <<pc[x], task[x], held[x]>>
          /\ pc' \in [Threads -> Steps]
          /\ task' = [x \in Threads |-> task'[x]] /\ held' = [x \in Threads |-> held'[x]]
      BY <2>11 DEF CommitContest, Release, End, Goto, HeldInv, Steps
    <3>2. LockInv(t)' /\ \A x \in Threads \ {t} : held'[t] \cap held'[x] = {}
      BY <2>11, <3>1, RowsDiffer DEF CommitContest, Release, End, Goto, HeldInv, LockInv, Steps,
         UserRow, ProblemRow, RankRow
    <3> QED
      BY <3>1, <3>2, OneMoves
  <2>12. ASSUME NEW t \in Threads, Crash(t)
        PROVE  HeldInv'
    <3>1. /\ \A x \in Threads \ {t} : UNCHANGED <<pc[x], task[x], held[x]>>
          /\ pc' \in [Threads -> Steps]
          /\ task' = [x \in Threads |-> task'[x]] /\ held' = [x \in Threads |-> held'[x]]
      BY <2>12 DEF Crash, End, Goto, HeldInv, Steps
    <3>2. LockInv(t)' /\ \A x \in Threads \ {t} : held'[t] \cap held'[x] = {}
      BY <2>12, <3>1, RowsDiffer DEF Crash, End, Goto, HeldInv, LockInv, Steps, UserRow,
         ProblemRow, RankRow
    <3> QED
      BY <3>1, <3>2, OneMoves
  <2>13. ASSUME NEW t \in Threads, NEW u \in Users, NEW p \in Problems, ReadProfile(t, u, p)
        PROVE  HeldInv'
    <3>1. /\ \A x \in Threads \ {t} : UNCHANGED <<pc[x], task[x], held[x]>>
          /\ pc' \in [Threads -> Steps]
          /\ task' = [x \in Threads |-> task'[x]] /\ held' = [x \in Threads |-> held'[x]]
      BY <2>13 DEF ReadProfile, Goto, HeldInv, Steps
    <3>2. LockInv(t)' /\ \A x \in Threads \ {t} : held'[t] \cap held'[x] = {}
      BY ZenonT(60), <2>13, <3>1, RowsDiffer DEF ReadProfile, Goto, HeldInv, LockInv, Steps, UserRow,
         ProblemRow, RankRow
    <3> QED
      BY <3>1, <3>2, OneMoves
  <2>14. ASSUME NEW t \in Threads, NEW s \in DOMAIN submissions, Deliver(t, s)
        PROVE  HeldInv'
    <3>1. /\ \A x \in Threads \ {t} : UNCHANGED <<pc[x], task[x], held[x]>>
          /\ pc' \in [Threads -> Steps]
          /\ task' = [x \in Threads |-> task'[x]] /\ held' = [x \in Threads |-> held'[x]]
      BY <2>14 DEF Deliver, Goto, HeldInv, Steps
    <3>2. LockInv(t)' /\ \A x \in Threads \ {t} : held'[t] \cap held'[x] = {}
      BY <2>14, <3>1, RowsDiffer DEF Deliver, Goto, HeldInv, LockInv, Steps, UserRow,
         ProblemRow, RankRow
    <3> QED
      BY <3>1, <3>2, OneMoves
  <2>15. ASSUME NEW s \in DOMAIN submissions, Rejudge(s)
        PROVE  HeldInv'
    BY <2>15 DEF Rejudge, HeldInv, LockInv, UserRow, ProblemRow, RankRow
  <2>16. ASSUME NEW s \in DOMAIN submissions, Redeliver(s)
        PROVE  HeldInv'
    BY <2>16 DEF Redeliver, HeldInv, LockInv, UserRow, ProblemRow, RankRow
  <2>17. CASE UNCHANGED vars
    BY <2>17 DEF vars, HeldInv, LockInv, UserRow, ProblemRow, RankRow
  <2> QED
    BY <2>1, <2>2, <2>3, <2>4, <2>5, <2>6, <2>7, <2>8, <2>9, <2>10, <2>11, <2>12, <2>13, <2>14,
       <2>15, <2>16, <2>17 DEF Next, Step
<1>3. QED
  BY <1>1, <1>2, PTL DEF Spec

\* NoDeadlock: among threads that wait there is always one that waits for none
\* of them.  The order of the locks is problem, user outside contests and user,
\* problem, rank in a contest; the rank is locked behind its user, so that the
\* problem which is locked after it when the status was skipped closes no circle.
THEOREM LocksAreOrdered == Spec => []NoDeadlock
<1>1. HeldInv => NoDeadlock
  <2> SUFFICES ASSUME HeldInv, NEW S \in (SUBSET Threads) \ {{}}
               PROVE  \E t \in S : \A x \in S \ {t} : NextRow(t) \cap held[x] = {}
    BY DEF NoDeadlock
  <2> DEFINE Free(t) == \A x \in S \ {t} : NextRow(t) \cap held[x] = {}
  <2>1. \A t \in S : t \in Threads /\ LockInv(t) /\ pc[t] \in Steps
    BY DEF HeldInv
  <2>2. ASSUME NEW t \in S, pc[t] \in {"idle", "log", "request", "commit"}
        PROVE  Free(t)
    BY <2>2 DEF NextRow
  <2>3. ASSUME NEW t \in S, pc[t] = "rank"
        PROVE  Free(t)
    <3> SUFFICES ASSUME NEW x \in S \ {t}, RankRow(t) \in held[x]
                 PROVE  FALSE
      BY <2>3 DEF NextRow
    <3>1. LockInv(x) /\ pc[x] \in Steps /\ RankRow(t) \notin {UserRow(x), ProblemRow(x)}
      BY <2>1, RowsDiffer
    <3>2. RankRow(t) = RankRow(x) /\ UserRow(x) \in held[x]
      BY <3>1 DEF LockInv, Steps
    <3>3. UserRow(t) = UserRow(x)
      BY <3>2, RowsDiffer
    <3> QED
      BY <2>1, <2>3, <3>2, <3>3 DEF LockInv, HeldInv
  <2>4. ASSUME NEW t \in S, NEW x \in S, task[x].problem \in Contest, ProblemRow(x) \in held[t]
        PROVE  \E y \in S : Free(y)
    <3>1. ProblemRow(x) = ProblemRow(t) /\ pc[t] \in {"rank", "first", "commit"}
      BY <2>1, <2>4, RowsDiffer DEF LockInv, Steps
    <3>2. CASE pc[t] = "first"
      <4>1. NextRow(t) = {ProblemRow(t)}
        BY <3>2 DEF NextRow
      <4> QED
        BY <2>1, <2>4, <3>1, <4>1 DEF HeldInv
    <3> QED
      BY <2>2, <2>3, <3>1, <3>2
  <2>5. ASSUME NEW t \in S, pc[t] \in {"problem", "rank", "first", "commit"}
        PROVE  \E y \in S : Free(y)
    <3>1. CASE pc[t] \in {"problem", "first"}
      <4>1. NextRow(t) = {ProblemRow(t)} /\ task[t].problem \in Contest
        BY <2>1, <3>1 DEF NextRow, LockInv
      <4> QED
        BY <2>4, <4>1
    <3> QED
      BY <2>2, <2>3, <2>5, <3>1
  <2>6. ASSUME NEW t \in S, pc[t] \in {"owner", "user"}
        PROVE  \E y \in S : Free(y)
    <3>1. NextRow(t) = {UserRow(t)}
      BY <2>6 DEF NextRow
    <3>2. ASSUME NEW x \in S, UserRow(t) \in held[x]
          PROVE  \E y \in S : Free(y)
      <4>1. pc[x] \in {"problem", "rank", "first", "commit"}
        BY <2>1, <3>2, RowsDiffer DEF LockInv, Steps
      <4> QED
        BY <2>5, <4>1
    <3> QED
      BY <3>1, <3>2
  <2>7. ASSUME NEW t \in S, pc[t] = "count"
        PROVE  \E y \in S : Free(y)
    <3>1. NextRow(t) = {ProblemRow(t)}
      BY <2>7 DEF NextRow
    <3>2. ASSUME NEW x \in S, ProblemRow(t) \in held[x]
          PROVE  \E y \in S : Free(y)
      <4>1. pc[x] \in {"owner", "rank", "first", "commit"}
        BY <2>1, <3>2, RowsDiffer DEF LockInv, Steps
      <4> QED
        BY <2>5, <2>6, <4>1
    <3> QED
      BY <3>1, <3>2
  <2>8. PICK t : t \in S
    OBVIOUS
  <2>9. \E y \in S : Free(y)
    BY <2>1, <2>2, <2>5, <2>6, <2>7, <2>8 DEF Steps
  <2> QED
    BY <2>9
<1> QED
  BY <1>1, HeldInductive, PTL

-----------------------------------------------------------------------------
(* What is accepted is ranked.                                             *)

Rows == [user : Users, problem : Problems,
         result : Results \cup {"pending", "SE"}, info : BOOLEAN]

\* A profile and a rank, as far as they matter here.
IsProfile(r) ==
  DOMAIN r = {"accepted", "total", "status", "score"} /\ DOMAIN r.status = Problems
IsRank(k) ==
  /\ DOMAIN k = {"accepted", "time", "info"} /\ DOMAIN k.info = Contest \cap Acm
  /\ \A p \in Contest \cap Acm :
       DOMAIN k.info[p] = {"ac", "time", "errors", "first"} /\ k.info[p].ac \in BOOLEAN

Shown(r, k) == \A p \in Contest \cap Acm : r.status[p] = "AC" => k.info[p].ac

\* What a thread has read, however old, was ranked when it was read, and a rank
\* keeps what is accepted.
SeenInv(t) ==
  /\ pc[t] \in Steps
  /\ DOMAIN task[t] = {"user", "problem", "sub"}
  /\ pc[t] # "idle" => task[t].user \in Users /\ task[t].problem \in Problems
  /\ pc[t] \in {"idle", "request"} => seen[t] = NoProfile
  /\ IsProfile(seen[t]) /\ Shown(seen[t], acmRank[task[t].user])

Shapes ==
  /\ DOMAIN pc = Threads /\ DOMAIN task = Threads /\ DOMAIN seen = Threads
  /\ DOMAIN profile = Users /\ DOMAIN acmRank = Users
  /\ submissions \in Seq(Rows)

UserInv(u) ==
  IsProfile(profile[u]) /\ IsRank(acmRank[u]) /\ Shown(profile[u], acmRank[u])

RankInv ==
  Shapes /\ (\A u \in Users : UserInv(u)) /\ (\A t \in Threads : SeenInv(t))

\* A judgement outside contests keeps the status of every other problem, or
\* restores the one that was read.
LEMMA ProfileKeeps ==
  ASSUME NEW now, NEW old, IsProfile(now), IsProfile(old), NEW p \in Problems, NEW r
  PROVE  /\ IsProfile(ProfileAfter(now, old, p, r))
         /\ \A q \in Problems \ {p} :
              ProfileAfter(now, old, p, r).status[q] \in {now.status[q], old.status[q]}
<1> DEFINE new == IF old.status[p] # "AC" THEN [old.status EXCEPT ![p] = r] ELSE old.status
<1>1. DOMAIN new = Problems /\ \A q \in Problems \ {p} : new[q] = old.status[q]
  BY DEF IsProfile
<1> QED
  BY <1>1 DEF ProfileAfter, IsProfile

\* One in a contest also keeps them, and shows its own result.
LEMMA ContestProfileKeeps ==
  ASSUME NEW now, NEW old, IsProfile(now), IsProfile(old), NEW p \in Problems, NEW r
  PROVE  /\ IsProfile(ContestProfileAfter(now, old, p, r))
         /\ ContestProfileAfter(now, old, p, r).status[p] = r
         /\ \A q \in Problems \ {p} :
              ContestProfileAfter(now, old, p, r).status[q] \in {now.status[q], old.status[q]}
  BY DEF ContestProfileAfter, IsProfile

\* A rank keeps what is accepted, and takes what is accepted now.
LEMMA RankKeeps ==
  ASSUME NEW k, IsRank(k), NEW p \in Contest \cap Acm, NEW r, NEW time, NEW n
  PROVE  /\ IsRank(AcmRankAfter(k, p, r, time, n))
         /\ \A q \in Contest \cap Acm : k.info[q].ac => AcmRankAfter(k, p, r, time, n).info[q].ac
         /\ r = "AC" => AcmRankAfter(k, p, r, time, n).info[p].ac
<1>1. CASE k.info[p].ac
  BY <1>1 DEF AcmRankAfter, IsRank
<1>2. CASE ~k.info[p].ac /\ r = "AC"
  <2> DEFINE entry == [ac |-> TRUE, time |-> time, errors |-> k.info[p].errors, first |-> n = 1]
  <2>1. AcmRankAfter(k, p, r, time, n) =
          [accepted |-> k.accepted + 1, time |-> k.time + time + k.info[p].errors * Penalty,
           info |-> [k.info EXCEPT ![p] = entry]]
    BY <1>2 DEF AcmRankAfter
  <2>2. DOMAIN entry = {"ac", "time", "errors", "first"} /\ entry.ac = TRUE
    OBVIOUS
  <2> HIDE DEF entry
  <2> DEFINE after == AcmRankAfter(k, p, r, time, n)
  <2>3. DOMAIN after = {"accepted", "time", "info"} /\ after.info = [k.info EXCEPT ![p] = entry]
    BY <2>1
  <2> HIDE DEF after
  <2>4. \A q \in Contest \cap Acm : after.info[q] = IF q = p THEN entry ELSE k.info[q]
    BY <2>3 DEF IsRank
  <2>5. DOMAIN after.info = Contest \cap Acm
    BY <2>3 DEF IsRank
  <2>6. IsRank(after)
    BY <2>2, <2>3, <2>4, <2>5 DEF IsRank
  <2>7. after.info[p].ac /\ \A q \in Contest \cap Acm : k.info[q].ac => after.info[q].ac
    BY <2>2, <2>4
  <2> QED
    BY <2>6, <2>7 DEF after
<1>3. CASE ~k.info[p].ac /\ r # "AC"
  <2> DEFINE entry == [k.info[p] EXCEPT !.errors = @ + (IF r = "CE" THEN 0 ELSE 1)]
  <2>1. AcmRankAfter(k, p, r, time, n) = [k EXCEPT !.info = [@ EXCEPT ![p] = entry]]
    BY <1>3 DEF AcmRankAfter
  <2>2. DOMAIN entry = {"ac", "time", "errors", "first"} /\ entry.ac = k.info[p].ac
    BY DEF IsRank
  <2> HIDE DEF entry
  <2> QED
    BY <1>3, <2>1, <2>2 DEF IsRank
<1> QED
  BY <1>1, <1>2, <1>3 DEF IsRank

\* An empty profile shows nothing.
LEMMA Blank == IsProfile(NoProfile) /\ \A k : Shown(NoProfile, k)
  BY ProblemAssumption DEF IsProfile, Shown, NoProfile

\* Results are written into rows.
LEMMA Written ==
  ASSUME submissions \in Seq(Rows), NEW s, NEW r \in Results \cup {"pending", "SE"},
         NEW b \in BOOLEAN
  PROVE  /\ [submissions EXCEPT ![s].result = r] \in Seq(Rows)
         /\ [submissions EXCEPT ![s].result = r, ![s].info = b] \in Seq(Rows)
<1> DEFINE n == Len(submissions)
<1>1. n \in Nat /\ DOMAIN submissions = 1..n /\ \A i \in 1..n : submissions[i] \in Rows
  OBVIOUS
<1>2. \A f : DOMAIN f = 1..n /\ f = [i \in 1..n |-> f[i]] /\ (\A i \in 1..n : f[i] \in Rows)
               => f \in Seq(Rows)
  <2> TAKE f
  <2> HAVE DOMAIN f = 1..n /\ f = [i \in 1..n |-> f[i]] /\ (\A i \in 1..n : f[i] \in Rows)
  <2>1. f \in [1..n -> Rows]
    OBVIOUS
  <2> QED
    BY <1>1, <2>1
<1>3. \A i \in 1..n : [submissions[i] EXCEPT !.result = r] \in Rows
                   /\ [submissions[i] EXCEPT !.result = r, !.info = b] \in Rows
  BY <1>1 DEF Rows
<1> HIDE DEF n
<1>4. [submissions EXCEPT ![s].result = r]
        = [i \in 1..n |-> IF i = s THEN [submissions[i] EXCEPT !.result = r] ELSE submissions[i]]
  BY <1>1
<1>5. [submissions EXCEPT ![s].result = r, ![s].info = b]
        = [i \in 1..n |-> IF i = s THEN [submissions[i] EXCEPT !.result = r, !.info = b]
                                   ELSE submissions[i]]
  BY <1>1
<1> QED
  BY <1>1, <1>2, <1>3, <1>4, <1>5

\* A thread that is done has read nothing.
LEMMA Ended ==
  ASSUME Shapes, NEW t \in Threads, End(t)
  PROVE  /\ SeenInv(t)'
         /\ DOMAIN pc' = Threads /\ DOMAIN task' = Threads /\ DOMAIN seen' = Threads
         /\ \A x \in Threads \ {t} : pc'[x] = pc[x] /\ task'[x] = task[x] /\ seen'[x] = seen[x]
<1>1. pc'[t] = "idle" /\ seen'[t] = NoProfile /\ DOMAIN task'[t] = {"user", "problem", "sub"}
  BY DEF Shapes, End, Goto, NoTask
<1>2. SeenInv(t)'
  BY <1>1, Blank DEF SeenInv, Steps
<1> QED
  BY <1>2 DEF Shapes, End, Goto

\* Every step keeps what is shown within what is ranked.
LEMMA RankInductive == Spec => []RankInv
<1>1. Init => RankInv
  <2> SUFFICES ASSUME Init PROVE RankInv
    OBVIOUS
  <2>1. Shapes
    BY DEF Init, Shapes
  <2>2. ASSUME NEW u \in Users PROVE UserInv(u)
    <3>1. profile[u] = NoProfile
      BY DEF Init
    <3>2. IsRank(acmRank[u])
      BY DEF Init, IsRank, NoInfo
    <3> QED
      BY <3>1, <3>2, Blank DEF UserInv
  <2>3. ASSUME NEW t \in Threads PROVE SeenInv(t)
    <3>1. pc[t] = "idle" /\ seen[t] = NoProfile /\ DOMAIN task[t] = {"user", "problem", "sub"}
      BY DEF Init, NoTask
    <3> QED
      BY <3>1, Blank DEF SeenInv, Steps
  <2> QED
    BY <2>1, <2>2, <2>3 DEF RankInv
<1>2. RankInv /\ [Next]_vars => RankInv'
  <2> SUFFICES ASSUME RankInv, [Next]_vars
               PROVE  RankInv'
    OBVIOUS
  <2> USE DEF ranks, locals, bounds, history
  <2>1. ASSUME NEW t \in Threads, SaveProfile(t)
        PROVE  RankInv'
    <3> DEFINE u == task[t].user
               p == task[t].problem
               r == [seen[t] EXCEPT !.status[p] = IF @ = "none" THEN "logged" ELSE @]
    <3>1. /\ SeenInv(t) /\ u \in Users /\ p \in Problems /\ profile' = [profile EXCEPT ![u] = r]
          /\ UNCHANGED acmRank
      BY <2>1 DEF SaveProfile, RankInv, SeenInv
    <3>2. Shapes'
      <4>1. Append(submissions, [user |-> u, problem |-> p, result |-> "pending", info |-> FALSE])
              \in Seq(Rows)
        BY <3>1 DEF RankInv, Shapes, Rows
      <4>2. submissions' \in Seq(Rows)
        BY <2>1, <4>1 DEF SaveProfile, RankInv, Shapes
      <4> QED
        BY <2>1, <4>2 DEF SaveProfile, Fault, End, Goto, RankInv, Shapes
    <3>3. \A v \in Users : UserInv(v)'
      <4>1. IsProfile(r) /\ \A q \in Problems : r.status[q] = "AC" => seen[t].status[q] = "AC"
        BY <3>1 DEF SeenInv, IsProfile
      <4>2. Shown(r, acmRank[u])
        BY <3>1, <4>1, ProblemAssumption DEF SeenInv, Shown
      <4> HIDE DEF r, u
      <4> QED
        BY <3>1, <4>1, <4>2 DEF RankInv, Shapes, UserInv
    <3>4. \A x \in Threads \ {t} : SeenInv(x)'
      BY <2>1 DEF SaveProfile, Fault, End, Goto, RankInv, Shapes, SeenInv, Shown
    <3>5. SeenInv(t)'
      <4>1. CASE End(t)
        BY <4>1, Ended DEF RankInv
      <4>2. CASE ~End(t)
        <5>1. /\ seen'[t] = NoProfile /\ pc'[t] = "request"
              /\ task'[t].user = u /\ task'[t].problem = p
              /\ DOMAIN task'[t] = {"user", "problem", "sub"}
          BY <2>1, <3>1, <4>2 DEF SaveProfile, Goto, RankInv, Shapes, SeenInv
        <5> QED
          BY <3>1, <5>1, Blank DEF SeenInv, Steps
      <4> QED
        BY <4>1, <4>2
    <3> QED
      BY <3>2, <3>3, <3>4, <3>5 DEF RankInv
  <2>2. ASSUME NEW t \in Threads, SystemError(t)
        PROVE  RankInv'
    <3>1. Shapes'
      BY <2>2, Ended, Written DEF SystemError, RankInv, Shapes
    <3>2. \A v \in Users : UserInv(v)'
      BY <2>2 DEF SystemError, End, Goto, RankInv, UserInv, Shown
    <3>3. \A x \in Threads \ {t} : SeenInv(x)'
      BY <2>2 DEF SystemError, End, Goto, RankInv, Shapes, SeenInv, Shown
    <3>4. SeenInv(t)'
      BY <2>2, Ended DEF SystemError, RankInv
    <3> QED
      BY <3>1, <3>2, <3>3, <3>4 DEF RankInv
  <2>3. ASSUME NEW t \in Threads, NEW r \in Results, Answer(t, r)
        PROVE  RankInv'
    <3>1. task[t].problem \in Problems /\ r \in Results /\ (r # "CE" \/ last[t] # None) \in BOOLEAN
      BY <2>3 DEF Answer, RankInv, SeenInv, ResultsOf
    <3>2. Shapes'
      <4>1. submissions' \in Seq(Rows)
        BY <2>3, <3>1, Written DEF Answer, RankInv, Shapes
      <4> QED
        BY <2>3, <4>1 DEF Answer, End, Goto, RankInv, Shapes
    <3>3. \A v \in Users : UserInv(v)'
      BY <2>3 DEF Answer, End, Goto, RankInv, UserInv, Shown
    <3>4. \A x \in Threads \ {t} : SeenInv(x)'
      BY <2>3 DEF Answer, End, Goto, RankInv, Shapes, SeenInv, Shown
    <3>5. SeenInv(t)'
      <4>1. CASE End(t)
        BY <4>1, Ended DEF RankInv
      <4>2. CASE ~End(t)
        BY <2>3, <3>1, <4>2 DEF Answer, Goto, RankInv, Shapes, SeenInv, Steps
      <4> QED
        BY <4>1, <4>2
    <3> QED
      BY <3>2, <3>3, <3>4, <3>5 DEF RankInv
  <2>4. ASSUME NEW t \in Threads, LockCounters(t)
        PROVE  RankInv'
    <3>1. Shapes'
      BY <2>4 DEF LockCounters, Lock, Goto, locking, RankInv, Shapes, Rows, Results, ResultsOf
    <3>2. \A v \in Users : UserInv(v)'
      BY <2>4 DEF LockCounters, Lock, Goto, locking, RankInv, UserInv, Shown
    <3>3. \A x \in Threads \ {t} : SeenInv(x)'
      BY <2>4 DEF LockCounters, Lock, Goto, locking, RankInv, Shapes, SeenInv, Shown
    <3>4. SeenInv(t)'
      BY <2>4 DEF LockCounters, Lock, Goto, locking, RankInv, Shapes, UserInv, SeenInv, Shown,
         IsProfile, NoProfile, Rows, Steps
    <3> QED
      BY <3>1, <3>2, <3>3, <3>4 DEF RankInv
  <2>5. ASSUME NEW t \in Threads, LockOwner(t)
        PROVE  RankInv'
    <3>1. Shapes'
      BY <2>5 DEF LockOwner, Lock, Goto, locking, RankInv, Shapes, Rows, Results, ResultsOf
    <3>2. \A v \in Users : UserInv(v)'
      BY <2>5 DEF LockOwner, Lock, Goto, locking, RankInv, UserInv, Shown
    <3>3. \A x \in Threads \ {t} : SeenInv(x)'
      BY <2>5 DEF LockOwner, Lock, Goto, locking, RankInv, Shapes, SeenInv, Shown
    <3>4. SeenInv(t)'
      BY <2>5 DEF LockOwner, Lock, Goto, locking, RankInv, Shapes, UserInv, SeenInv, Shown,
         IsProfile, NoProfile, Rows, Steps
    <3> QED
      BY <3>1, <3>2, <3>3, <3>4 DEF RankInv
  <2>6. ASSUME NEW t \in Threads, CommitCounters(t)
        PROVE  RankInv'
    <3> DEFINE u == task[t].user
               p == task[t].problem
               r == ProfileAfter(profile[u], seen[t], p, answer[t])
    <3>1. /\ SeenInv(t) /\ u \in Users /\ p \in Problems /\ p \notin Contest
          /\ End(t) /\ UNCHANGED acmRank
          /\ UNCHANGED profile \/ profile' = [profile EXCEPT ![u] = r]
      BY <2>6 DEF CommitCounters, Release, RankInv, SeenInv
    <3>2. Shapes'
      BY <2>6 DEF CommitCounters, Release, End, Goto, RankInv, Shapes
    <3>3. \A v \in Users : UserInv(v)'
      <4>1. UserInv(u)
        BY <3>1 DEF RankInv
      <4>2. IsProfile(profile[u]) /\ IsProfile(seen[t])
        BY <3>1, <4>1 DEF SeenInv, UserInv
      <4>3. /\ IsProfile(r)
            /\ \A q \in Problems \ {p} : r.status[q] \in {profile[u].status[q], seen[t].status[q]}
        BY <3>1, <4>2, ProfileKeeps
      <4>4. Shown(r, acmRank[u])
        BY <3>1, <4>1, <4>3, ProblemAssumption DEF SeenInv, UserInv, Shown
      <4> HIDE DEF r, u
      <4> QED
        BY <3>1, <4>3, <4>4 DEF RankInv, Shapes, UserInv
    <3>4. \A x \in Threads \ {t} : SeenInv(x)'
      BY <3>1, Ended DEF RankInv, SeenInv
    <3>5. SeenInv(t)'
      BY <3>1, Ended DEF RankInv
    <3> QED
      BY <3>2, <3>3, <3>4, <3>5 DEF RankInv
  <2>7. ASSUME NEW t \in Threads, LockUser(t)
        PROVE  RankInv'
    <3>1. Shapes'
      BY <2>7 DEF LockUser, Lock, Goto, locking, RankInv, Shapes, Rows, Results, ResultsOf
    <3>2. \A v \in Users : UserInv(v)'
      BY <2>7 DEF LockUser, Lock, Goto, locking, RankInv, UserInv, Shown
    <3>3. \A x \in Threads \ {t} : SeenInv(x)'
      BY <2>7 DEF LockUser, Lock, Goto, locking, RankInv, Shapes, SeenInv, Shown
    <3>4. SeenInv(t)'
      BY <2>7 DEF LockUser, Lock, Goto, locking, RankInv, Shapes, UserInv, SeenInv, Shown,
         IsProfile, NoProfile, Rows, Steps
    <3> QED
      BY <3>1, <3>2, <3>3, <3>4 DEF RankInv
  <2>8. ASSUME NEW t \in Threads, LockProblem(t)
        PROVE  RankInv'
    <3>1. Shapes'
      BY <2>8 DEF LockProblem, Lock, Goto, locking, RankInv, Shapes, Rows, Results, ResultsOf
    <3>2. \A v \in Users : UserInv(v)'
      BY <2>8 DEF LockProblem, Lock, Goto, locking, RankInv, UserInv, Shown
    <3>3. \A x \in Threads \ {t} : SeenInv(x)'
      BY <2>8 DEF LockProblem, Lock, Goto, locking, RankInv, Shapes, SeenInv, Shown
    <3>4. SeenInv(t)'
      BY <2>8 DEF LockProblem, Lock, Goto, locking, RankInv, Shapes, UserInv, SeenInv, Shown,
         IsProfile, NoProfile, Rows, Steps
    <3> QED
      BY <3>1, <3>2, <3>3, <3>4 DEF RankInv
  <2>9. ASSUME NEW t \in Threads, LockRank(t)
        PROVE  RankInv'
    <3>1. Shapes'
      BY <2>9 DEF LockRank, Lock, Goto, locking, RankInv, Shapes, Rows, Results, ResultsOf
    <3>2. \A v \in Users : UserInv(v)'
      BY <2>9 DEF LockRank, Lock, Goto, locking, RankInv, UserInv, Shown
    <3>3. \A x \in Threads \ {t} : SeenInv(x)'
      BY <2>9 DEF LockRank, Lock, Goto, locking, RankInv, Shapes, SeenInv, Shown
    <3>4. SeenInv(t)'
      BY <2>9 DEF LockRank, Lock, Goto, locking, RankInv, Shapes, UserInv, SeenInv, Shown,
         IsProfile, NoProfile, Rows, Steps
    <3> QED
      BY <3>1, <3>2, <3>3, <3>4 DEF RankInv
  <2>10. ASSUME NEW t \in Threads, LockFirst(t)
        PROVE  RankInv'
    <3>1. Shapes'
      BY <2>10 DEF LockFirst, Lock, Goto, locking, RankInv, Shapes, Rows, Results, ResultsOf
    <3>2. \A v \in Users : UserInv(v)'
      BY <2>10 DEF LockFirst, Lock, Goto, locking, RankInv, UserInv, Shown
    <3>3. \A x \in Threads \ {t} : SeenInv(x)'
      BY <2>10 DEF LockFirst, Lock, Goto, locking, RankInv, Shapes, SeenInv, Shown
    <3>4. SeenInv(t)'
      BY <2>10 DEF LockFirst, Lock, Goto, locking, RankInv, Shapes, UserInv, SeenInv, Shown,
         IsProfile, NoProfile, Rows, Steps
    <3> QED
      BY <3>1, <3>2, <3>3, <3>4 DEF RankInv
  <2>11. ASSUME NEW t \in Threads, CommitContest(t)
        PROVE  RankInv'
    <3> DEFINE u == task[t].user
               p == task[t].problem
               r == ContestProfileAfter(profile[u], seen[t], p, answer[t])
               k == AcmRankAfter(acmRank[u], p, answer[t], task[t].sub, problem'[p].accepted)
    <3>1. /\ SeenInv(t) /\ u \in Users /\ p \in Problems /\ p \in Contest
          /\ End(t) /\ UNCHANGED submissions
          /\ IF Skipped(t, seen[t]) THEN UNCHANGED profile ELSE profile' = [profile EXCEPT ![u] = r]
          /\ IF p \in Acm THEN acmRank' = [acmRank EXCEPT ![u] = k] ELSE UNCHANGED acmRank
      BY <2>11 DEF CommitContest, Release, RankInv, SeenInv
    <3>2. Shapes'
      BY <3>1, Ended DEF RankInv, Shapes
    <3>3. \A v \in Users : UserInv(v)
      BY DEF RankInv
    <3>4. /\ IsProfile(r) /\ r.status[p] = answer[t]
          /\ \A q \in Problems \ {p} : r.status[q] \in {profile[u].status[q], seen[t].status[q]}
      <4>1. IsProfile(profile[u]) /\ IsProfile(seen[t])
        BY <3>1, <3>3 DEF SeenInv, UserInv
      <4> QED
        BY SMTT(60), <3>1, <4>1, ContestProfileKeeps
    <3>5. p \in Acm => /\ IsRank(k)
                       /\ \A q \in Contest \cap Acm : acmRank[u].info[q].ac => k.info[q].ac
                       /\ answer[t] = "AC" => k.info[p].ac
      BY <3>1, <3>3, RankKeeps DEF UserInv
    <3> HIDE DEF r, k
    <3>6. \A v \in Users : /\ IsRank(acmRank'[v])
                           /\ \A q \in Contest \cap Acm : acmRank[v].info[q].ac => acmRank'[v].info[q].ac
      BY <3>1, <3>3, <3>5 DEF RankInv, Shapes, UserInv
    <3>7. ASSUME NEW v \in Users PROVE UserInv(v)'
      <4>1. CASE profile'[v] = profile[v]
        BY <3>3, <3>6, <4>1 DEF UserInv, Shown
      <4>2. CASE profile'[v] # profile[v]
        <5>1. v = u /\ profile'[v] = r
          BY <3>1, <4>2 DEF RankInv, Shapes
        <5>2. p \in Acm /\ answer[t] = "AC" => acmRank'[v].info[p].ac
          BY <3>1, <3>5, <5>1 DEF RankInv, Shapes
        <5>3. Shown(r, acmRank'[v])
          BY <3>1, <3>3, <3>4, <3>6, <5>1, <5>2, ProblemAssumption DEF SeenInv, UserInv, Shown
        <5> QED
          BY <3>4, <3>6, <5>1, <5>3 DEF UserInv
      <4> QED
        BY <4>1, <4>2
    <3>8. ASSUME NEW x \in Threads \ {t} PROVE SeenInv(x)'
      <4>1. SeenInv(x) /\ pc'[x] = pc[x] /\ task'[x] = task[x] /\ seen'[x] = seen[x]
        BY <3>1, Ended DEF RankInv
      <4>2. CASE pc[x] = "idle"
        BY <4>1, <4>2, Blank DEF SeenInv
      <4>3. CASE pc[x] # "idle"
        BY <3>6, <4>1, <4>3 DEF SeenInv, Shown
      <4> QED
        BY <4>2, <4>3
    <3>9. SeenInv(t)'
      BY <3>1, Ended DEF RankInv
    <3> QED
      BY <3>2, <3>7, <3>8, <3>9 DEF RankInv
  <2>12. ASSUME NEW t \in Threads, Crash(t)
        PROVE  RankInv'
    <3>1. Shapes'
      BY <2>12 DEF Crash, End, Goto, RankInv, Shapes
    <3>2. \A v \in Users : UserInv(v)'
      BY <2>12 DEF Crash, End, Goto, RankInv, UserInv, Shown
    <3>3. \A x \in Threads \ {t} : SeenInv(x)'
      BY <2>12 DEF Crash, End, Goto, RankInv, Shapes, SeenInv, Shown
    <3>4. SeenInv(t)'
      BY <2>12, Ended DEF Crash, RankInv
    <3> QED
      BY <3>1, <3>2, <3>3, <3>4 DEF RankInv
  <2>13. ASSUME NEW t \in Threads, NEW u \in Users, NEW p \in Problems, ReadProfile(t, u, p)
        PROVE  RankInv'
    <3>1. Shapes'
      BY <2>13 DEF ReadProfile, Goto, RankInv, Shapes, Rows, Results, ResultsOf
    <3>2. \A v \in Users : UserInv(v)'
      BY <2>13 DEF ReadProfile, Goto, RankInv, UserInv, Shown
    <3>3. \A x \in Threads \ {t} : SeenInv(x)'
      BY <2>13 DEF ReadProfile, Goto, RankInv, Shapes, SeenInv, Shown
    <3>4. SeenInv(t)'
      BY <2>13 DEF ReadProfile, Goto, RankInv, Shapes, UserInv, SeenInv, Shown, IsProfile,
         NoProfile, Rows, Steps
    <3> QED
      BY <3>1, <3>2, <3>3, <3>4 DEF RankInv
  <2>14. ASSUME NEW t \in Threads, NEW s \in DOMAIN submissions, Deliver(t, s)
        PROVE  RankInv'
    <3>1. Shapes'
      BY <2>14 DEF Deliver, Goto, RankInv, Shapes
    <3>2. \A v \in Users : UserInv(v)'
      BY <2>14 DEF Deliver, Goto, RankInv, UserInv, Shown
    <3>3. \A x \in Threads \ {t} : SeenInv(x)'
      BY <2>14 DEF Deliver, Goto, RankInv, Shapes, SeenInv, Shown
    <3>4. SeenInv(t)'
      <4>1. submissions[s] \in Rows
        BY DEF RankInv, Shapes
      <4>2. seen'[t] = NoProfile /\ pc'[t] = "request"
        BY <2>14 DEF Deliver, Goto, RankInv, Shapes, SeenInv
      <4>3. /\ task'[t].user \in Users /\ task'[t].problem \in Problems
            /\ DOMAIN task'[t] = {"user", "problem", "sub"}
        BY <2>14, <4>1 DEF Deliver, RankInv, Shapes, Rows
      <4> QED
        BY <4>2, <4>3, Blank DEF SeenInv, Steps
    <3> QED
      BY <3>1, <3>2, <3>3, <3>4 DEF RankInv
  <2>15. ASSUME NEW s \in DOMAIN submissions, Rejudge(s)
        PROVE  RankInv'
    BY <2>15 DEF Rejudge, RankInv, Shapes, UserInv, SeenInv, Shown
  <2>16. ASSUME NEW s \in DOMAIN submissions, Redeliver(s)
        PROVE  RankInv'
    BY <2>16 DEF Redeliver, RankInv, Shapes, UserInv, SeenInv, Shown
  <2>17. CASE UNCHANGED vars
    BY <2>17 DEF vars, RankInv, Shapes, UserInv, SeenInv, Shown
  <2> QED
    BY <2>1, <2>2, <2>3, <2>4, <2>5, <2>6, <2>7, <2>8, <2>9, <2>10, <2>11, <2>12, <2>13, <2>14,
       <2>15, <2>16, <2>17 DEF Next, Step
<1>3. QED
  BY <1>1, <1>2, PTL DEF Spec

\* AcceptedIsRanked: whatever old profile a submission writes back, what a profile
\* shows as accepted in an ACM contest is accepted in the rank.
THEOREM AcceptedStaysRanked == Spec => []AcceptedIsRanked
<1>1. RankInv => AcceptedIsRanked
  BY DEF RankInv, UserInv, Shown, AcceptedIsRanked
<1> QED
  BY <1>1, RankInductive, PTL

-----------------------------------------------------------------------------
(* What is counted.                                                        *)

\* What a judgement has read of a problem is still so, as it holds the lock.
ReadInv(t) ==
  LET p == task[t].problem IN
  /\ task[t].sub \in Int
  /\ pc[t] \in {"count", "owner", "user", "problem", "rank", "first", "commit"} =>
       answer[t] \in Results
  /\ pc[t] \in {"owner", "commit"} /\ p \notin Contest =>
       ProblemRow(t) \in held[t] /\ row[t] = problem[p]
  /\ pc[t] \in {"rank", "first", "commit"} /\ p \in Contest /\ ~Skipped(t, seen[t]) =>
       ProblemRow(t) \in held[t] /\ row[t] = problem[p]

\* The counters of problem p.
IsCounted(counts, p) ==
  /\ DOMAIN counts = {"number", "accepted", "info"} /\ counts.number \in Int /\ counts.accepted \in Nat
  /\ IsFiniteSet(DOMAIN counts.info) /\ \A r \in DOMAIN counts.info : counts.info[r] \in Int
  /\ counts.accepted = IF "AC" \in DOMAIN counts.info THEN counts.info["AC"] ELSE 0
  /\ p \in Contest => counts.number = Total(counts.info, DOMAIN counts.info)

\* The entries of a rank, and their sums.
Entries == [ac : BOOLEAN, time : Int, errors : Int, first : BOOLEAN]
IsAcmRank(k) ==
  /\ k \in [accepted : Int, time : Int, info : [Contest \cap Acm -> Entries]]
  /\ k.accepted = Cardinality(Solved(k)) /\ k.time = Total(Gains(k), Solved(k))
IsOiRank(k) ==
  /\ k \in [total : Int, info : [Contest \ Acm -> Int]]
  /\ k.total = Total(k.info, Contest \ Acm)

\* The first who solves p finds nobody accepted in the counter, and nobody else does.
FirstInv(p) ==
  /\ problem[p].accepted > 0 <=> \E u \in Users : acmRank[u].info[p].ac
  /\ \A u \in Users : acmRank[u].info[p].first => acmRank[u].info[p].ac
  /\ (\E u \in Users : acmRank[u].info[p].ac) => \E u \in Users : acmRank[u].info[p].first
  /\ \A u, v \in Users : acmRank[u].info[p].first /\ acmRank[v].info[p].first => u = v

CountInv ==
  /\ problem = [p \in Problems |-> problem[p]] /\ \A p \in Problems : IsCounted(problem[p], p)
  /\ acmRank = [u \in Users |-> acmRank[u]] /\ oiRank = [u \in Users |-> oiRank[u]]
  /\ \A u \in Users : IsAcmRank(acmRank[u]) /\ IsOiRank(oiRank[u])
  /\ \A p \in Contest \cap Acm : FirstInv(p)
  /\ row = [t \in Threads |-> row[t]] /\ answer = [t \in Threads |-> answer[t]]
  /\ \A t \in Threads : ReadInv(t)

-----------------------------------------------------------------------------
(* The profiles.                                                           *)

Profiles ==
  [accepted : Int, total : Int, status : [Problems -> Results \cup {"none", "logged"}],
   score : [Problems \ Acm -> Int]]

\* What a judgement has read differs from the profile by entries of the log.
Alike(old, now) ==
  /\ old.accepted = now.accepted /\ old.total = now.total /\ old.score = now.score
  /\ \A p \in Problems :
       old.status[p] = now.status[p] \/ {old.status[p], now.status[p]} \subseteq {"none", "logged"}

HeldProfile(t) ==
  /\ pc[t] = "log" /\ task[t].user \notin torn => AddsUp(seen[t])
  /\ pc[t] \in {"problem", "rank", "first", "commit"} /\ task[t].user \notin torn =>
       Alike(seen[t], profile[task[t].user])

ProfileInv ==
  /\ profile \in [Users -> Profiles] /\ seen \in [Threads -> Profiles]
  /\ \A u \in Users \ torn : AddsUp(profile[u])
  /\ \A t \in Threads : HeldProfile(t)

\* One more submission with result r.
LEMMA BumpAdds ==
  ASSUME NEW info, IsFiniteSet(DOMAIN info), \A k \in DOMAIN info : info[k] \in Int, NEW r
  PROVE  /\ DOMAIN Bump(info, r) = DOMAIN info \cup {r} /\ IsFiniteSet(DOMAIN info \cup {r})
         /\ \A k \in DOMAIN info \cup {r} : Bump(info, r)[k] \in Int
         /\ \A k \in DOMAIN info \ {r} : Bump(info, r)[k] = info[k]
         /\ Bump(info, r)[r] = (IF r \in DOMAIN info THEN info[r] ELSE 0) + 1
         /\ Total(info, DOMAIN info) \in Int
         /\ Total(Bump(info, r), DOMAIN info \cup {r}) = Total(info, DOMAIN info) + 1
<1>1. PICK new, old : new = Bump(info, r) /\ old = DOMAIN info
  OBVIOUS
<1>2. new = [k \in old \cup {r} |->
               (IF k \in old THEN info[k] ELSE 0) + (IF k = r THEN 1 ELSE 0)]
  BY <1>1 DEF Bump
<1>3. /\ DOMAIN new = old \cup {r} /\ IsFiniteSet(old \cup {r}) /\ IsFiniteSet(old)
      /\ \A k \in old : info[k] \in Int
  BY <1>1, <1>2, FS_AddElement
<1>4. /\ \A k \in old \cup {r} : new[k] \in Int
      /\ \A k \in old \ {r} : new[k] = info[k]
      /\ new[r] = (IF r \in old THEN info[r] ELSE 0) + 1
  BY <1>2, <1>3
<1>5. Total(info, old) \in Int /\ Total(new, old \cup {r}) = Total(info, old) + 1
  <2>1. CASE r \in old
    <3>1. Total(info, old) \in Int /\ Total(new, old) = Total(info, old) - info[r] + new[r]
      BY <1>3, <1>4, <2>1, TotalChanged
    <3>2. old \cup {r} = old /\ new[r] = info[r] + 1 /\ info[r] \in Int
      BY <1>3, <1>4, <2>1
    <3>3. PICK n \in Int : n = Total(info, old)
      BY <3>1
    <3>4. Total(new, old) = n + 1
      BY <3>1, <3>2, <3>3
    <3>5. QED
      BY <3>2, <3>3, <3>4, Zenon
  <2>2. CASE r \notin old
    <3>1. \A k \in old : new[k] = info[k] /\ info[k] \in Int
      BY <1>3, <1>4, <2>2
    <3>2. Total(new, old) = Total(info, old) /\ Total(info, old) \in Int
      BY <1>3, <3>1, TotalSame
    <3>3. Total(new, old \cup {r}) = Total(new, old) + new[r]
      BY <1>3, <1>4, <2>2, TotalWith
    <3>4. new[r] = 1
      BY <1>4, <2>2
    <3>5. QED
      BY <3>2, <3>3, <3>4
  <2>3. QED
    BY <2>1, <2>2
<1>6. QED
  BY <1>1, <1>3, <1>4, <1>5

\* A submission that is counted, for the first time or again.
LEMMA CountKeeps ==
  ASSUME NEW p, NEW old, IsCounted(old, p), NEW r \in Results
  PROVE  /\ IsCounted(Counted(old, r), p)
         /\ Counted(old, r).accepted = old.accepted + (IF r = "AC" THEN 1 ELSE 0)
<1>1. PICK new, info, after : new = Counted(old, r) /\ info = old.info /\ after = Bump(info, r)
  OBVIOUS
<1>2. new = [number |-> old.number + 1, accepted |-> old.accepted + (IF r = "AC" THEN 1 ELSE 0),
             info |-> after]
  BY <1>1 DEF Counted
<1>3. /\ old.number \in Int /\ old.accepted \in Nat /\ IsFiniteSet(DOMAIN info)
      /\ \A k \in DOMAIN info : info[k] \in Int
      /\ old.accepted = IF "AC" \in DOMAIN info THEN info["AC"] ELSE 0
      /\ p \in Contest => old.number = Total(info, DOMAIN info)
  BY <1>1 DEF IsCounted
<1>4. /\ DOMAIN after = DOMAIN info \cup {r} /\ IsFiniteSet(DOMAIN after)
      /\ \A k \in DOMAIN after : after[k] \in Int
      /\ \A k \in DOMAIN info \ {r} : after[k] = info[k]
      /\ after[r] = (IF r \in DOMAIN info THEN info[r] ELSE 0) + 1
      /\ Total(after, DOMAIN after) = Total(info, DOMAIN info) + 1
  <2>1. /\ DOMAIN Bump(info, r) = DOMAIN info \cup {r} /\ IsFiniteSet(DOMAIN info \cup {r})
        /\ \A k \in DOMAIN info \cup {r} : Bump(info, r)[k] \in Int
        /\ \A k \in DOMAIN info \ {r} : Bump(info, r)[k] = info[k]
        /\ Bump(info, r)[r] = (IF r \in DOMAIN info THEN info[r] ELSE 0) + 1
        /\ Total(Bump(info, r), DOMAIN info \cup {r}) = Total(info, DOMAIN info) + 1
    BY <1>3, BumpAdds
  <2>2. PICK all : all = DOMAIN info \cup {r}
    OBVIOUS
  <2>3. DOMAIN after = all /\ Total(after, all) = Total(info, DOMAIN info) + 1
    BY <1>1, <2>1, <2>2, Zenon
  <2>4. QED
    BY <1>1, <2>1, <2>2, <2>3
<1>5. /\ DOMAIN new = {"number", "accepted", "info"} /\ new.number = old.number + 1
      /\ new.accepted = old.accepted + (IF r = "AC" THEN 1 ELSE 0) /\ new.info = after
  BY <1>2
<1>6. new.accepted = (IF "AC" \in DOMAIN after THEN after["AC"] ELSE 0) /\ new.accepted \in Nat
  <2>1. CASE r = "AC"
    BY <1>3, <1>4, <1>5, <2>1
  <2>2. CASE r # "AC"
    <3>1. "AC" \in DOMAIN after <=> "AC" \in DOMAIN info
      BY <1>4, <2>2
    <3>2. "AC" \in DOMAIN info => after["AC"] = info["AC"]
      BY <1>4, <2>2
    <3>3. new.accepted = old.accepted
      BY <1>3, <1>5, <2>2
    <3>4. QED
      BY <1>3, <3>1, <3>2, <3>3
  <2>3. QED
    BY <2>1, <2>2
<1>7. p \in Contest => new.number = Total(new.info, DOMAIN new.info)
  BY <1>3, <1>4, <1>5
<1>8. IsCounted(new, p)
  BY <1>3, <1>4, <1>5, <1>6, <1>7 DEF IsCounted
<1>9. QED
  BY <1>1, <1>5, <1>8

\* A rejudgement writes other counts, but accepted_number keeps to that of ACCEPTED.
LEMMA RejudgeKeeps ==
  ASSUME NEW p, p \notin Contest, NEW old, IsCounted(old, p), NEW before, before # "AC",
         NEW r \in Results
  PROVE  IsCounted(Rejudged(old, before, r), p)
<1>1. PICK new, info, after :
        new = Rejudged(old, before, r) /\ info = old.info /\ after = BumpRejudged(info, before, r)
  OBVIOUS
<1>2. new = [number |-> old.number, accepted |-> old.accepted + (IF r = "AC" THEN 1 ELSE 0),
             info |-> after]
  BY <1>1 DEF Rejudged
<1>3. /\ old.number \in Int /\ old.accepted \in Nat /\ IsFiniteSet(DOMAIN info)
      /\ \A k \in DOMAIN info : info[k] \in Int
      /\ old.accepted = IF "AC" \in DOMAIN info THEN info["AC"] ELSE 0
  BY <1>1 DEF IsCounted
<1>4. /\ IsFiniteSet(DOMAIN after) /\ \A k \in DOMAIN after : after[k] \in Int
      /\ IF r = "AC" THEN "AC" \in DOMAIN after /\ after["AC"] = old.accepted + 1
         ELSE /\ "AC" \in DOMAIN after <=> "AC" \in DOMAIN info
              /\ "AC" \in DOMAIN info => after["AC"] = info["AC"]
  <2>1. CASE before = r
    <3>1. after = [k \in DOMAIN info \cup {r} |->
                     IF k # r THEN info[k] ELSE IF r \in DOMAIN info THEN 0 ELSE 1]
      BY <1>1, <2>1 DEF BumpRejudged
    <3>2. IsFiniteSet(DOMAIN info \cup {r})
      BY <1>3, FS_AddElement
    <3>3. DOMAIN after = DOMAIN info \cup {r} /\ \A k \in DOMAIN after : after[k] \in Int
      BY <1>3, <3>1
    <3>4. "AC" \in DOMAIN info => after["AC"] = info["AC"]
      BY <2>1, <3>1
    <3>5. QED
      BY <2>1, <3>2, <3>3, <3>4
  <2>2. CASE before # r
    <3>1. PICK cleared : cleared = [k \in DOMAIN info \cup {before} |->
                                      IF k = before THEN 0 ELSE info[k]]
      OBVIOUS
    <3>2. after = Bump(cleared, r)
      BY <1>1, <2>2, <3>1 DEF BumpRejudged
    <3>3. /\ DOMAIN cleared = DOMAIN info \cup {before} /\ IsFiniteSet(DOMAIN cleared)
          /\ \A k \in DOMAIN cleared : cleared[k] \in Int
          /\ \A k \in DOMAIN info \ {before} : cleared[k] = info[k]
      BY <1>3, <3>1, FS_AddElement
    <3>4. /\ DOMAIN after = DOMAIN cleared \cup {r} /\ IsFiniteSet(DOMAIN after)
          /\ \A k \in DOMAIN after : after[k] \in Int
          /\ \A k \in DOMAIN cleared \ {r} : after[k] = cleared[k]
          /\ after[r] = (IF r \in DOMAIN cleared THEN cleared[r] ELSE 0) + 1
      <4>1. IsFiniteSet(DOMAIN cleared) /\ \A k \in DOMAIN cleared : cleared[k] \in Int
        BY <3>3
      <4>2. /\ DOMAIN Bump(cleared, r) = DOMAIN cleared \cup {r}
            /\ IsFiniteSet(DOMAIN cleared \cup {r})
            /\ \A k \in DOMAIN cleared \cup {r} : Bump(cleared, r)[k] \in Int
            /\ \A k \in DOMAIN cleared \ {r} : Bump(cleared, r)[k] = cleared[k]
            /\ Bump(cleared, r)[r] = (IF r \in DOMAIN cleared THEN cleared[r] ELSE 0) + 1
        BY <4>1, BumpAdds
      <4>3. QED
        BY <3>2, <4>2
    <3>5. "AC" \in DOMAIN cleared <=> "AC" \in DOMAIN info
      BY <3>3
    <3>6. CASE r = "AC"
      BY <1>3, <3>3, <3>4, <3>5, <3>6
    <3>7. CASE r # "AC"
      BY <3>3, <3>4, <3>5, <3>7
    <3>8. QED
      BY <3>4, <3>6, <3>7
  <2>3. QED
    BY <2>1, <2>2
<1>5. /\ DOMAIN new = {"number", "accepted", "info"} /\ new.number = old.number
      /\ new.accepted = old.accepted + (IF r = "AC" THEN 1 ELSE 0) /\ new.info = after
  BY <1>2
<1>6. new.accepted = (IF "AC" \in DOMAIN after THEN after["AC"] ELSE 0) /\ new.accepted \in Nat
  BY <1>3, <1>4, <1>5
<1>7. IsCounted(new, p)
  BY <1>3, <1>4, <1>5, <1>6 DEF IsCounted
<1>8. QED
  BY <1>1, <1>7

\* A rank still adds up after a judgement; its entry shows acceptance for ever, and
\* being the first only when the counter says so.
LEMMA AcmRankAdds ==
  ASSUME NEW k, IsAcmRank(k), NEW p \in Contest \cap Acm, NEW r \in Results, NEW time \in Int, NEW n
  PROVE  /\ IsAcmRank(AcmRankAfter(k, p, r, time, n))
         /\ \A q \in (Contest \cap Acm) \ {p} : AcmRankAfter(k, p, r, time, n).info[q] = k.info[q]
         /\ k.info[p].ac => AcmRankAfter(k, p, r, time, n) = k
         /\ ~k.info[p].ac /\ r = "AC" =>
              /\ AcmRankAfter(k, p, r, time, n).info[p].ac
              /\ AcmRankAfter(k, p, r, time, n).info[p].first <=> n = 1
         /\ ~k.info[p].ac /\ r # "AC" =>
              /\ ~AcmRankAfter(k, p, r, time, n).info[p].ac
              /\ AcmRankAfter(k, p, r, time, n).info[p].first = k.info[p].first
<1>1. PICK new : new = AcmRankAfter(k, p, r, time, n)
  OBVIOUS
<1>2. /\ k \in [accepted : Int, time : Int, info : [Contest \cap Acm -> Entries]]
      /\ k.accepted = Cardinality(Solved(k)) /\ k.time = Total(Gains(k), Solved(k))
      /\ IsFiniteSet(Solved(k)) /\ k.info[p] \in Entries
  <2>1. Solved(k) \subseteq Problems
    BY ProblemAssumption DEF Solved
  <2>2. QED
    BY <2>1, ProblemAssumption, FS_Subset DEF IsAcmRank
<1>3. CASE k.info[p].ac
  <2>1. new = k
    BY <1>1, <1>3 DEF AcmRankAfter
  <2>2. QED
    BY <1>1, <1>3, <2>1
<1>4. CASE ~k.info[p].ac /\ r = "AC"
  <2>1. PICK entry : entry = [ac |-> TRUE, time |-> time, errors |-> k.info[p].errors, first |-> n = 1]
    OBVIOUS
  <2>2. new = [accepted |-> k.accepted + 1, time |-> k.time + time + k.info[p].errors * Penalty,
               info |-> [k.info EXCEPT ![p] = entry]]
    BY <1>1, <1>4, <2>1 DEF AcmRankAfter
  <2>3. /\ entry \in Entries /\ entry.ac = TRUE /\ entry.time = time
        /\ entry.errors = k.info[p].errors /\ (entry.first <=> n = 1)
    BY <1>2, <2>1 DEF Entries
  <2>4. /\ new.accepted = k.accepted + 1 /\ new.time = k.time + time + k.info[p].errors * Penalty
        /\ new.info \in [Contest \cap Acm -> Entries]
        /\ \A q \in Contest \cap Acm : new.info[q] = IF q = p THEN entry ELSE k.info[q]
        /\ new = [accepted |-> new.accepted, time |-> new.time, info |-> new.info]
    BY <1>2, <2>2, <2>3
  <2>5. /\ Solved(new) = Solved(k) \cup {p} /\ p \notin Solved(k)
    BY <1>4, <2>3, <2>4 DEF Solved
  <2>6. PICK g, h : g = Gains(k) /\ h = Gains(new)
    OBVIOUS
  <2>7. /\ \A q \in Solved(k) : g[q] = h[q]
        /\ \A q \in Contest \cap Acm : g[q] \in Int /\ h[q] \in Int
        /\ h[p] = time + k.info[p].errors * Penalty
    <3>1. \A q \in Contest \cap Acm : /\ k.info[q].time \in Int /\ k.info[q].errors \in Int
                                      /\ new.info[q].time \in Int /\ new.info[q].errors \in Int
      BY <1>2, <2>4 DEF Entries
    <3>2. \A q \in Contest \cap Acm : /\ g[q] = k.info[q].time + 1200 * k.info[q].errors
                                      /\ h[q] = new.info[q].time + 1200 * new.info[q].errors
      BY <2>6 DEF Gains, Penalty
    <3>3. \A q \in Solved(k) : q \in Contest \cap Acm /\ new.info[q] = k.info[q]
      BY <2>4, <2>5 DEF Solved
    <3>4. k.info[p].errors * Penalty = 1200 * k.info[p].errors
      BY <3>1 DEF Penalty
    <3>5. new.info[p].time = time /\ new.info[p].errors = k.info[p].errors
      BY <2>3, <2>4
    <3>6. QED
      BY <3>1, <3>2, <3>3, <3>4, <3>5
  <2>8. Total(h, Solved(k)) = Total(g, Solved(k)) /\ Total(g, Solved(k)) \in Int
    <3>1. \A q \in Solved(k) : h[q] = g[q] /\ g[q] \in Int
      BY <2>7 DEF Solved
    <3>2. QED
      BY <1>2, <3>1, TotalSame
  <2>9. Total(h, Solved(k) \cup {p}) = Total(h, Solved(k)) + h[p]
    <3>1. \A q \in Solved(k) \cup {p} : h[q] \in Int
      BY <2>7 DEF Solved
    <3>2. QED
      BY <1>2, <2>5, <3>1, TotalWith
  <2>10. new.time = Total(Gains(new), Solved(new)) /\ new.time \in Int
    <3>1. PICK gain \in Int : gain = k.info[p].errors * Penalty
      BY <1>2 DEF Entries, Penalty
    <3>2. new.time = k.time + time + gain /\ h[p] = time + gain
      BY <2>4, <2>7, <3>1
    <3>3. Total(h, Solved(k) \cup {p}) = k.time + (time + gain) /\ k.time \in Int
      BY <1>2, <2>6, <2>8, <2>9, <3>2
    <3>4. new.time = Total(h, Solved(k) \cup {p}) /\ new.time \in Int
      BY <3>2, <3>3
    <3>5. QED
      BY <2>5, <2>6, <3>4, Zenon
  <2>11. new.accepted = Cardinality(Solved(new)) /\ new.accepted \in Int
    <3>1. Cardinality(Solved(k) \cup {p}) = Cardinality(Solved(k)) + 1
      BY <1>2, <2>5, FS_AddElement
    <3>2. QED
      BY <1>2, <2>4, <2>5, <3>1
  <2>12. IsAcmRank(new)
    BY <2>4, <2>10, <2>11 DEF IsAcmRank
  <2>13. QED
    BY <1>1, <1>4, <2>3, <2>4, <2>12
<1>5. CASE ~k.info[p].ac /\ r # "AC"
  <2>1. PICK entry : entry = [k.info[p] EXCEPT !.errors = @ + (IF r = "CE" THEN 0 ELSE 1)]
    OBVIOUS
  <2>2. new = [k EXCEPT !.info = [k.info EXCEPT ![p] = entry]]
    BY <1>1, <1>5, <2>1 DEF AcmRankAfter
  <2>3. entry \in Entries /\ entry.ac = k.info[p].ac /\ entry.first = k.info[p].first
    BY <1>2, <2>1 DEF Entries
  <2>4. /\ new \in [accepted : Int, time : Int, info : [Contest \cap Acm -> Entries]]
        /\ new.accepted = k.accepted /\ new.time = k.time
        /\ \A q \in Contest \cap Acm : new.info[q] = IF q = p THEN entry ELSE k.info[q]
    BY <1>2, <2>2, <2>3
  <2>5. Solved(new) = Solved(k)
    BY <2>3, <2>4 DEF Solved
  <2>6. PICK g, h : g = Gains(k) /\ h = Gains(new)
    OBVIOUS
  <2>7. \A q \in Solved(k) : h[q] = g[q] /\ g[q] \in Int
    <3>1. \A q \in Solved(k) : q \in Contest \cap Acm /\ new.info[q] = k.info[q]
      BY <1>5, <2>4 DEF Solved
    <3>2. \A q \in Solved(k) : k.info[q].time \in Int /\ k.info[q].errors \in Int
      BY <1>2, <3>1 DEF Entries
    <3>3. \A q \in Contest \cap Acm : /\ g[q] = k.info[q].time + 1200 * k.info[q].errors
                                      /\ h[q] = new.info[q].time + 1200 * new.info[q].errors
      BY <2>6 DEF Gains, Penalty
    <3>4. QED
      BY <3>1, <3>2, <3>3
  <2>8. Total(h, Solved(k)) = Total(g, Solved(k))
    BY <1>2, <2>7, TotalSame
  <2>9. IsAcmRank(new)
    <3>1. new.time = Total(Gains(new), Solved(new))
      BY <1>2, <2>4, <2>5, <2>6, <2>8, Zenon
    <3>2. QED
      BY <1>2, <2>4, <2>5, <3>1 DEF IsAcmRank
  <2>10. QED
    BY <1>1, <1>5, <2>3, <2>4, <2>9
<1>6. QED
  BY <1>3, <1>4, <1>5

\* The rank of an OI contest replaces the score of the problem.
LEMMA OiRankAdds ==
  ASSUME NEW k, IsOiRank(k), NEW p \in Contest \ Acm, NEW r
  PROVE  IsOiRank(OiRankAfter(k, p, r))
<1>1. PICK new : new = OiRankAfter(k, p, r)
  OBVIOUS
<1>2. Score(r) \in Int
  BY DEF Score
<1>3. /\ k \in [total : Int, info : [Contest \ Acm -> Int]] /\ k.total = Total(k.info, Contest \ Acm)
      /\ IsFiniteSet(Contest \ Acm)
  BY ProblemAssumption, FS_Subset DEF IsOiRank
<1>4. /\ new \in [total : Int, info : [Contest \ Acm -> Int]]
      /\ new.total = k.total - k.info[p] + Score(r)
      /\ \A q \in Contest \ Acm : new.info[q] = IF q = p THEN Score(r) ELSE k.info[q]
  BY <1>1, <1>2, <1>3 DEF OiRankAfter
<1>5. PICK g, h : g = k.info /\ h = new.info
  OBVIOUS
<1>6. /\ \A q \in Contest \ Acm : g[q] \in Int /\ h[q] \in Int
      /\ \A q \in (Contest \ Acm) \ {p} : g[q] = h[q]
      /\ h[p] = Score(r)
  BY <1>2, <1>3, <1>4, <1>5
<1>7. Total(h, Contest \ Acm) = Total(g, Contest \ Acm) - g[p] + h[p]
  BY <1>3, <1>6, TotalChanged
<1>8. new.total = Total(new.info, Contest \ Acm)
  BY <1>3, <1>4, <1>5, <1>6, <1>7
<1>9. QED
  BY <1>1, <1>4, <1>8 DEF IsOiRank

\* Nothing is counted at the start.
LEMMA CountStarts == Init => CountInv
<1> SUFFICES ASSUME Init PROVE CountInv
  OBVIOUS
<1>1. ASSUME NEW p \in Problems PROVE IsCounted(problem[p], p)
  <2>1. /\ problem[p] = [number |-> 0, accepted |-> 0, info |-> <<>>] /\ DOMAIN <<>> = {}
        /\ Total(<<>>, {}) = 0 /\ IsFiniteSet({})
    BY TotalOfNone, FS_EmptySet DEF Init, NoCounts
  <2>2. QED
    BY <2>1 DEF IsCounted
<1>2. ASSUME NEW u \in Users PROVE IsAcmRank(acmRank[u])
  <2>1. acmRank[u] = [accepted |-> 0, time |-> 0, info |-> [p \in Contest \cap Acm |-> NoInfo]]
    BY DEF Init
  <2>2. NoInfo \in Entries /\ ~NoInfo.ac
    BY DEF NoInfo, Entries
  <2>3. /\ acmRank[u] \in [accepted : Int, time : Int, info : [Contest \cap Acm -> Entries]]
        /\ Solved(acmRank[u]) = {} /\ acmRank[u].accepted = 0 /\ acmRank[u].time = 0
    BY <2>1, <2>2 DEF Solved
  <2>4. Cardinality({}) = 0 /\ Total(Gains(acmRank[u]), {}) = 0
    BY TotalOfNone, FS_EmptySet
  <2>5. QED
    BY <2>3, <2>4 DEF IsAcmRank
<1>3. ASSUME NEW u \in Users PROVE IsOiRank(oiRank[u])
  <2>1. oiRank[u] = [total |-> 0, info |-> [p \in Contest \ Acm |-> 0]]
    BY DEF Init
  <2>2. IsFiniteSet(Contest \ Acm)
    BY ProblemAssumption, FS_Subset
  <2>3. PICK g : g = oiRank[u].info
    OBVIOUS
  <2>4. Total(g, Contest \ Acm) = 0
    BY <2>1, <2>2, <2>3, TotalOfZeros
  <2>5. QED
    BY <2>1, <2>3, <2>4 DEF IsOiRank
<1>4. ASSUME NEW p \in Contest \cap Acm PROVE FirstInv(p)
  <2>1. /\ problem[p].accepted = 0
        /\ \A u \in Users : acmRank[u].info[p] = [ac |-> FALSE, time |-> 0, errors |-> 0, first |-> FALSE]
    BY ProblemAssumption DEF Init, NoCounts, NoInfo
  <2>2. QED
    BY <2>1 DEF FirstInv
<1>5. \A t \in Threads : ReadInv(t)
  BY DEF Init, ReadInv, NoTask
<1>6. /\ problem = [p \in Problems |-> problem[p]]
      /\ acmRank = [u \in Users |-> acmRank[u]] /\ oiRank = [u \in Users |-> oiRank[u]]
      /\ row = [t \in Threads |-> row[t]] /\ answer = [t \in Threads |-> answer[t]]
  BY DEF Init
<1>7. QED
  BY <1>1, <1>2, <1>3, <1>4, <1>5, <1>6 DEF CountInv

\* A thread's step that leaves the tables alone.
LEMMA ThreadKeeps ==
  ASSUME CountInv, NEW x \in Threads, ReadInv(x)',
         \A t \in Threads \ {x} : UNCHANGED <<pc[t], task[t], held[t], seen[t], row[t], answer[t]>>,
         row' = [t \in Threads |-> row'[t]], answer' = [t \in Threads |-> answer'[t]],
         UNCHANGED <<problem, acmRank, oiRank>>
  PROVE  CountInv'
<1>1. ASSUME NEW t \in Threads \ {x} PROVE ReadInv(t)'
  <2>1. ReadInv(t)
    BY DEF CountInv
  <2>2. ProblemRow(t)' = ProblemRow(t) /\ Skipped(t, seen[t])' = Skipped(t, seen[t])
    BY DEF ProblemRow, Skipped
  <2>3. QED
    BY <2>1, <2>2 DEF ReadInv
<1>2. \A p \in Contest \cap Acm : FirstInv(p) => FirstInv(p)'
  BY DEF FirstInv
<1>3. \A u \in Users : IsAcmRank(acmRank[u])' /\ IsOiRank(oiRank[u])'
  BY DEF CountInv
<1>4. \A p \in Problems : IsCounted(problem[p], p)'
  BY DEF CountInv
<1>5. QED
  BY <1>1, <1>2, <1>3, <1>4 DEF CountInv

\* The steps that leave the tables alone.
LEMMA ReadsKeep ==
  ASSUME HeldInv, RankInv, CountInv, NEW x \in Threads,
         \/ SaveProfile(x) \/ SystemError(x) \/ (\E r \in Results : Answer(x, r))
         \/ LockCounters(x) \/ LockOwner(x) \/ LockUser(x) \/ LockProblem(x) \/ LockRank(x)
         \/ LockFirst(x) \/ Crash(x)
         \/ (\E u \in Users, p \in Problems : ReadProfile(x, u, p))
         \/ (\E s \in DOMAIN submissions : Deliver(x, s))
  PROVE  CountInv'
<1> DEFINE Others == \A t \in Threads \ {x} :
                       UNCHANGED <<pc[t], task[t], held[t], seen[t], row[t], answer[t]>>
           Tables == /\ row' = [t \in Threads |-> row'[t]] /\ answer' = [t \in Threads |-> answer'[t]]
                     /\ UNCHANGED <<problem, acmRank, oiRank>>
<1>1. /\ pc \in [Threads -> Steps] /\ LockInv(x) /\ ReadInv(x)
      /\ task = [t \in Threads |-> task[t]] /\ held = [t \in Threads |-> held[t]]
      /\ row = [t \in Threads |-> row[t]] /\ answer = [t \in Threads |-> answer[t]]
      /\ DOMAIN seen = Threads /\ submissions \in Seq(Rows)
      /\ (pc[x] # "idle" => task[x].problem \in Problems)
  BY DEF HeldInv, CountInv, RankInv, Shapes, SeenInv
<1>2. ASSUME ReadInv(x)', Others, Tables PROVE CountInv'
  BY <1>2, ThreadKeeps
<1>3. ASSUME pc'[x] \in {"idle", "log", "request", "count", "user", "problem"}, task'[x].sub \in Int,
             pc'[x] \in {"count", "user", "problem"} => answer'[x] \in Results, Others, Tables
      PROVE  CountInv'
  <2>1. ReadInv(x)'
    BY <1>3 DEF ReadInv
  <2>2. QED
    BY <1>2, <1>3, <2>1
<1>4. CASE SaveProfile(x)
  <2>1. Others /\ Tables
    BY <1>1, <1>4 DEF SaveProfile, End, Goto, ranks
  <2>2. pc'[x] \in {"idle", "request"} /\ task'[x].sub \in Int
    <3>1. CASE End(x)
      BY <1>1, <3>1 DEF End, Goto, NoTask
    <3>2. CASE ~End(x)
      <4>1. /\ pc'[x] = "request" /\ task' = [task EXCEPT ![x].sub = Len(submissions) + 1]
        BY <1>1, <1>4, <3>2 DEF SaveProfile, Goto
      <4>2. Len(submissions) + 1 \in Int
        BY <1>1
      <4>3. DOMAIN task[x] = {"user", "problem", "sub"}
        BY DEF RankInv, SeenInv
      <4>4. QED
        BY <1>1, <4>1, <4>2, <4>3
    <3>3. QED
      BY <3>1, <3>2
  <2>3. QED
    BY <1>3, <2>1, <2>2
<1>5. CASE SystemError(x) \/ Crash(x)
  <2>1. pc'[x] = "idle" /\ task'[x].sub = 0
    BY <1>1, <1>5 DEF SystemError, Crash, End, Goto, NoTask
  <2>2. Others /\ Tables
    BY <1>1, <1>5 DEF SystemError, Crash, End, Goto, ranks
  <2>3. QED
    BY <1>3, <2>1, <2>2
<1>6. ASSUME NEW r \in Results, Answer(x, r) PROVE CountInv'
  <2>1. Others /\ Tables
    BY <1>1, <1>6 DEF Answer, End, Goto, ranks
  <2>2. \/ End(x)
        \/ answer'[x] = r /\ pc'[x] \in {"user", "count"} /\ task' = task
    BY <1>1, <1>6 DEF Answer, Goto
  <2>3. CASE End(x)
    <3>1. pc'[x] = "idle" /\ task'[x].sub = 0
      BY <1>1, <2>3 DEF End, Goto, NoTask
    <3>2. QED
      BY <1>3, <2>1, <3>1
  <2>4. CASE ~End(x)
    <3>1. task'[x].sub \in Int
      BY <1>1, <2>2, <2>4 DEF ReadInv
    <3>2. QED
      BY <1>3, <2>1, <2>2, <2>4, <3>1
  <2>5. QED
    BY <2>3, <2>4
<1>7. CASE LockCounters(x)
  <2>1. Others /\ Tables /\ task' = task /\ seen' = seen /\ answer' = answer
    BY <1>1, <1>7 DEF LockCounters, Lock, ReadRow, Goto, locking, ranks
  <2>2. /\ pc[x] = "count" /\ pc'[x] = "owner" /\ row'[x] = problem[task[x].problem]
        /\ ProblemRow(x) \in held'[x]
    BY <1>1, <1>7 DEF LockCounters, Lock, ReadRow, Goto
  <2>3. ProblemRow(x)' = ProblemRow(x)
    BY <2>1 DEF ProblemRow
  <2>4. ReadInv(x)'
    BY <1>1, <2>1, <2>2, <2>3 DEF ReadInv
  <2>5. QED
    BY <1>2, <2>1, <2>4
<1>8. CASE LockOwner(x)
  <2>1. Others /\ Tables /\ task' = task /\ row' = row /\ answer' = answer
    BY <1>1, <1>8 DEF LockOwner, Lock, Goto, locking, ranks
  <2>2. /\ pc[x] = "owner" /\ pc'[x] = "commit" /\ held[x] \subseteq held'[x]
    BY <1>1, <1>8 DEF LockOwner, Lock, Goto
  <2>3. ProblemRow(x)' = ProblemRow(x) /\ task[x].problem \notin Contest
    BY <1>1, <2>1, <2>2 DEF ProblemRow, LockInv
  <2>4. ReadInv(x)'
    BY <1>1, <2>1, <2>2, <2>3 DEF ReadInv
  <2>5. QED
    BY <1>2, <2>1, <2>4
<1>9. CASE LockUser(x)
  <2>1. Others /\ Tables /\ task' = task /\ row' = row /\ answer' = answer
    BY <1>1, <1>9 DEF LockUser, Lock, Goto, locking, ranks
  <2>2. /\ pc[x] = "user" /\ seen'[x] = profile[task[x].user]
        /\ pc'[x] = IF Skipped(x, profile[task[x].user]) THEN "rank" ELSE "problem"
    BY <1>1, <1>9 DEF LockUser, Lock, Goto
  <2>3. Skipped(x, seen[x])' <=> Skipped(x, profile[task[x].user])
    BY <2>1, <2>2 DEF Skipped
  <2>4. ReadInv(x)'
    BY <1>1, <2>1, <2>2, <2>3 DEF ReadInv
  <2>5. QED
    BY <1>2, <2>1, <2>4
<1>10. CASE LockProblem(x)
  <2>1. Others /\ Tables /\ task' = task /\ seen' = seen /\ answer' = answer
    BY <1>1, <1>10 DEF LockProblem, Lock, ReadRow, Goto, locking, ranks
  <2>2. /\ pc[x] = "problem" /\ pc'[x] = "rank" /\ row'[x] = problem[task[x].problem]
        /\ ProblemRow(x) \in held'[x]
    BY <1>1, <1>10 DEF LockProblem, Lock, ReadRow, Goto
  <2>3. ProblemRow(x)' = ProblemRow(x)
    BY <2>1 DEF ProblemRow
  <2>4. ReadInv(x)'
    BY <1>1, <2>1, <2>2, <2>3 DEF ReadInv
  <2>5. QED
    BY <1>2, <2>1, <2>4
<1>11. CASE LockRank(x) \/ LockFirst(x)
  <2>1. /\ Others /\ Tables /\ task' = task /\ seen' = seen /\ row' = row /\ answer' = answer
    BY <1>1, <1>11 DEF LockRank, LockFirst, Lock, Goto, locking, ranks
  <2>2. /\ pc[x] \in {"rank", "first"} /\ pc'[x] \in {"first", "commit"} /\ held[x] \subseteq held'[x]
    BY <1>1, <1>11 DEF LockRank, LockFirst, Lock, Goto
  <2>3. /\ ProblemRow(x)' = ProblemRow(x) /\ task[x].problem \in Contest
        /\ Skipped(x, seen[x])' <=> Skipped(x, seen[x])
    BY <1>1, <2>1, <2>2 DEF ProblemRow, LockInv, Skipped
  <2>4. ReadInv(x)'
    BY <1>1, <2>1, <2>2, <2>3 DEF ReadInv
  <2>5. QED
    BY <1>2, <2>1, <2>4
<1>12. ASSUME NEW u \in Users, NEW p \in Problems, ReadProfile(x, u, p) PROVE CountInv'
  <2>1. Others /\ Tables /\ pc'[x] = "log" /\ task'[x].sub = 0
    BY <1>1, <1>12 DEF ReadProfile, Goto, ranks
  <2>2. QED
    BY <1>3, <2>1
<1>13. ASSUME NEW s \in DOMAIN submissions, Deliver(x, s) PROVE CountInv'
  <2>1. Others /\ Tables /\ pc'[x] = "request" /\ task'[x].sub = s
    BY <1>1, <1>13 DEF Deliver, Goto, ranks
  <2>2. s \in Int
    BY <1>1
  <2>3. QED
    BY <1>3, <2>1, <2>2
<1>14. QED
  BY <1>4, <1>5, <1>6, <1>7, <1>8, <1>9, <1>10, <1>11, <1>12, <1>13

\* A commit ends; whoever else has read a problem holds the lock of another one.
LEMMA OthersRead ==
  ASSUME HeldInv, RankInv, CountInv, NEW x \in Threads, ProblemRow(x) \in held[x],
         \A q \in Problems \ {task[x].problem} : problem'[q] = problem[q],
         \A t \in Threads \ {x} : UNCHANGED <<pc[t], task[t], held[t], seen[t], row[t], answer[t]>>,
         pc'[x] = "idle", task'[x].sub = 0
  PROVE  \A t \in Threads : ReadInv(t)'
<1>1. ReadInv(x)'
  BY DEF ReadInv
<1>2. ASSUME NEW t \in Threads \ {x} PROVE ReadInv(t)'
  <2>1. ReadInv(t)
    BY DEF CountInv
  <2>2. ProblemRow(t)' = ProblemRow(t) /\ Skipped(t, seen[t])' = Skipped(t, seen[t])
    BY DEF ProblemRow, Skipped
  <2>3. ASSUME ProblemRow(t) \in held[t], pc[t] # "idle"
        PROVE  problem'[task[t].problem] = problem[task[t].problem]
    <3>1. held[t] \cap held[x] = {}
      BY DEF HeldInv
    <3>2. ProblemRow(t) # ProblemRow(x)
      BY <2>3, <3>1
    <3>3. task[t].problem # task[x].problem /\ task[t].problem \in Problems
      BY <2>3, <3>2 DEF ProblemRow, RankInv, SeenInv
    <3>4. QED
      BY <3>3
  <2>4. QED
    BY <2>1, <2>2, <2>3 DEF ReadInv
<1>3. QED
  BY <1>1, <1>2

\* The first acceptance of p, of whichever user.
LEMMA FirstKeeps ==
  ASSUME NEW p \in Contest \cap Acm, FirstInv(p), NEW u \in Users, NEW r \in Results,
         problem[p].accepted \in Nat,
         problem'[p].accepted = problem[p].accepted + (IF r = "AC" THEN 1 ELSE 0),
         \A v \in Users \ {u} : acmRank'[v].info[p] = acmRank[v].info[p],
         acmRank[u].info[p] \in Entries,
         acmRank[u].info[p].ac => acmRank'[u].info[p] = acmRank[u].info[p],
         ~acmRank[u].info[p].ac /\ r = "AC" =>
           /\ acmRank'[u].info[p].ac
           /\ acmRank'[u].info[p].first <=> problem'[p].accepted = 1,
         ~acmRank[u].info[p].ac /\ r # "AC" =>
           /\ ~acmRank'[u].info[p].ac
           /\ acmRank'[u].info[p].first = acmRank[u].info[p].first
  PROVE  FirstInv(p)'
<1>1. CASE acmRank[u].info[p].ac
  <2>1. \A v \in Users : acmRank'[v].info[p] = acmRank[v].info[p]
    BY <1>1
  <2>2. problem[p].accepted > 0 /\ problem'[p].accepted > 0
    BY <1>1 DEF FirstInv
  <2>3. QED
    BY <1>1, <2>1, <2>2 DEF FirstInv
<1>2. CASE ~acmRank[u].info[p].ac /\ r = "AC"
  <2>1. problem'[p].accepted > 0 /\ acmRank'[u].info[p].ac
    BY <1>2
  <2>2. acmRank'[u].info[p].first <=> problem[p].accepted = 0
    BY <1>2
  <2>3. CASE problem[p].accepted = 0
    <3>1. \A v \in Users : ~acmRank[v].info[p].ac /\ ~acmRank[v].info[p].first
      BY <2>3 DEF FirstInv
    <3>2. \A v \in Users \ {u} : ~acmRank'[v].info[p].ac /\ ~acmRank'[v].info[p].first
      BY <3>1
    <3>3. QED
      BY <2>1, <2>2, <2>3, <3>2 DEF FirstInv
  <2>4. CASE problem[p].accepted # 0
    <3>1. ~acmRank'[u].info[p].first /\ ~acmRank[u].info[p].first
      BY <1>2, <2>2, <2>4 DEF FirstInv
    <3>2. PICK v \in Users : acmRank[v].info[p].first
      BY <2>4 DEF FirstInv
    <3>3. v # u /\ acmRank'[v].info[p].first
      BY <3>1, <3>2
    <3>4. QED
      BY <2>1, <3>1, <3>3 DEF FirstInv
  <2>5. QED
    BY <2>3, <2>4
<1>3. CASE ~acmRank[u].info[p].ac /\ r # "AC"
  <2>1. problem'[p].accepted = problem[p].accepted /\ ~acmRank'[u].info[p].ac
    BY <1>3
  <2>2. ~acmRank[u].info[p].first /\ ~acmRank'[u].info[p].first
    BY <1>3 DEF FirstInv, Entries
  <2>3. \A v \in Users : /\ acmRank'[v].info[p].ac <=> acmRank[v].info[p].ac
                         /\ acmRank'[v].info[p].first <=> acmRank[v].info[p].first
    BY <1>3, <2>1, <2>2
  <2>4. QED
    BY <2>1, <2>3 DEF FirstInv
<1>4. QED
  BY <1>1, <1>2, <1>3

\* A commit counts one submission, or nothing when it was skipped or fails.
LEMMA CommitsKeep ==
  ASSUME HeldInv, RankInv, CountInv, NEW x \in Threads, CommitCounters(x) \/ CommitContest(x)
  PROVE  CountInv'
<1> DEFINE Others == \A t \in Threads \ {x} :
                       UNCHANGED <<pc[t], task[t], held[t], seen[t], row[t], answer[t]>>
<1>1. PICK u, p, r : u = task[x].user /\ p = task[x].problem /\ r = answer[x]
  OBVIOUS
<1>2. pc[x] = "commit" /\ Release(x)
  BY DEF CommitCounters, CommitContest
<1>3. /\ pc'[x] = "idle" /\ task'[x].sub = 0 /\ Others
      /\ row' = [t \in Threads |-> row'[t]] /\ answer' = [t \in Threads |-> answer'[t]]
  <2>1. /\ pc \in [Threads -> Steps] /\ DOMAIN seen = Threads
        /\ task = [t \in Threads |-> task[t]] /\ held = [t \in Threads |-> held[t]]
        /\ row = [t \in Threads |-> row[t]] /\ answer = [t \in Threads |-> answer[t]]
    BY DEF HeldInv, CountInv, RankInv, Shapes
  <2>2. QED
    BY <1>2, <2>1 DEF Release, End, Goto, NoTask
<1>4. u \in Users /\ p \in Problems /\ r \in Results /\ task[x].sub \in Int
  BY <1>1, <1>2 DEF RankInv, SeenInv, CountInv, ReadInv
<1>5. ASSUME UNCHANGED <<problem, acmRank, oiRank>> PROVE CountInv'
  <2>1. ReadInv(x)'
    BY <1>3 DEF ReadInv
  <2>2. QED
    BY <1>3, <1>5, <2>1, ThreadKeeps
<1>6. ASSUME NEW new, problem' = [problem EXCEPT ![p] = new], IsCounted(new, p),
             ProblemRow(x) \in held[x],
             acmRank' = [v \in Users |-> acmRank'[v]], oiRank' = [v \in Users |-> oiRank'[v]],
             \A v \in Users : IsAcmRank(acmRank'[v]) /\ IsOiRank(oiRank'[v]),
             \A q \in Contest \cap Acm : FirstInv(q)'
      PROVE  CountInv'
  <2>1. \A q \in Problems : problem'[q] = IF q = p THEN new ELSE problem[q]
    BY <1>6 DEF CountInv
  <2>2. problem' = [q \in Problems |-> problem'[q]]
    BY <1>6 DEF CountInv
  <2>3. \A q \in Problems : IsCounted(problem'[q], q)
    BY <1>6, <2>1 DEF CountInv
  <2>4. \A q \in Problems \ {task[x].problem} : problem'[q] = problem[q]
    BY <1>1, <2>1
  <2>5. \A t \in Threads : ReadInv(t)'
    BY <1>3, <1>6, <2>4, OthersRead
  <2>6. QED
    BY <1>3, <1>6, <2>2, <2>3, <2>5 DEF CountInv
<1>7. \A q \in Problems : IsCounted(problem[q], q)
  BY DEF CountInv
<1>8. /\ \A v \in Users : IsAcmRank(acmRank[v]) /\ IsOiRank(oiRank[v])
      /\ acmRank = [v \in Users |-> acmRank[v]] /\ oiRank = [v \in Users |-> oiRank[v]]
  BY DEF CountInv
<1>9. CASE CommitCounters(x)
  <2>1. p \notin Contest /\ acmRank' = acmRank /\ oiRank' = oiRank
    BY <1>1, <1>9 DEF CommitCounters, ranks
  <2>2. CASE problem' = problem
    BY <1>5, <2>1, <2>2
  <2>3. CASE problem' # problem
    <3>1. PICK new : new = IF IsRejudge(x) THEN Rejudged(row[x], last[x], r) ELSE Counted(row[x], r)
      OBVIOUS
    <3>2. problem' = [problem EXCEPT ![p] = new]
      BY <1>1, <1>9, <2>3, <3>1 DEF CommitCounters
    <3>3. ProblemRow(x) \in held[x] /\ row[x] = problem[p]
      BY <1>1, <1>2, <2>1 DEF CountInv, ReadInv
    <3>4. IsCounted(row[x], p)
      BY <1>4, <1>7, <3>3
    <3>5. IsCounted(new, p)
      <4>1. CASE IsRejudge(x)
        <5>1. last[x] # "AC"
          BY <4>1 DEF IsRejudge
        <5>2. QED
          BY <1>4, <2>1, <3>1, <3>4, <4>1, <5>1, RejudgeKeeps
      <4>2. CASE ~IsRejudge(x)
        BY <1>4, <3>1, <3>4, <4>2, CountKeeps
      <4>3. QED
        BY <4>1, <4>2
    <3>6. \A q \in Contest \cap Acm : FirstInv(q)'
      <4>1. \A q \in Contest \cap Acm : problem'[q] = problem[q] /\ FirstInv(q)
        BY <2>1, <3>2 DEF CountInv
      <4>2. QED
        BY <2>1, <4>1 DEF FirstInv
    <3>7. QED
      BY <1>6, <1>8, <2>1, <3>2, <3>3, <3>5, <3>6
  <2>4. QED
    BY <2>2, <2>3
<1>10. CASE CommitContest(x)
  <2>1. p \in Contest
    BY <1>1, <1>10 DEF CommitContest
  <2>2. CASE Skipped(x, seen[x])
    <3>1. problem' = problem /\ p \in Acm /\ seen[x].status[p] = "AC"
      BY <1>1, <1>10, <2>2 DEF CommitContest, Skipped
    <3>2. acmRank[u].info[p].ac
      BY <1>1, <2>1, <3>1 DEF RankInv, SeenInv, Shown
    <3>3. /\ acmRank' = [acmRank EXCEPT ![u] =
                          AcmRankAfter(acmRank[u], p, r, task[x].sub, problem'[p].accepted)]
          /\ oiRank' = oiRank
      BY <1>1, <1>10, <3>1 DEF CommitContest
    <3>4. AcmRankAfter(acmRank[u], p, r, task[x].sub, problem'[p].accepted) = acmRank[u]
      BY <3>2 DEF AcmRankAfter
    <3>5. acmRank' = acmRank
      BY <1>4, <1>8, <3>3, <3>4
    <3>6. QED
      BY <1>5, <3>1, <3>3, <3>5
  <2>3. CASE ~Skipped(x, seen[x])
    <3>1. PICK new : new = Counted(row[x], r)
      OBVIOUS
    <3>2. problem' = [problem EXCEPT ![p] = new]
      BY <1>1, <1>10, <2>3, <3>1 DEF CommitContest
    <3>3. ProblemRow(x) \in held[x] /\ row[x] = problem[p]
      BY <1>1, <1>2, <2>1, <2>3 DEF CountInv, ReadInv
    <3>4. /\ IsCounted(new, p)
          /\ new.accepted = problem[p].accepted + (IF r = "AC" THEN 1 ELSE 0)
      <4>1. IsCounted(row[x], p)
        BY <1>4, <1>7, <3>3
      <4>2. QED
        BY <1>4, <3>1, <3>3, <4>1, CountKeeps
    <3>5. problem'[p] = new /\ \A q \in Problems \ {p} : problem'[q] = problem[q]
      BY <1>4, <3>2 DEF CountInv
    <3>6. CASE p \in Acm
      <4>1. PICK k, time, n : k = acmRank[u] /\ time = task[x].sub /\ n = problem'[p].accepted
        OBVIOUS
      <4>2. acmRank' = [acmRank EXCEPT ![u] = AcmRankAfter(k, p, r, time, n)] /\ oiRank' = oiRank
        BY <1>1, <1>10, <3>6, <4>1 DEF CommitContest
      <4>3. PICK rank : rank = AcmRankAfter(k, p, r, time, n)
        OBVIOUS
      <4>4. /\ acmRank'[u] = rank /\ \A v \in Users \ {u} : acmRank'[v] = acmRank[v]
            /\ acmRank' = [v \in Users |-> acmRank'[v]]
        BY <1>4, <1>8, <4>2, <4>3
      <4>5. IsAcmRank(k) /\ p \in Contest \cap Acm /\ time \in Int /\ k.info[p] \in Entries
        BY <1>4, <1>8, <2>1, <3>6, <4>1 DEF IsAcmRank
      <4>6. /\ IsAcmRank(rank)
            /\ \A q \in (Contest \cap Acm) \ {p} : rank.info[q] = k.info[q]
            /\ k.info[p].ac => rank = k
            /\ ~k.info[p].ac /\ r = "AC" => rank.info[p].ac /\ (rank.info[p].first <=> n = 1)
            /\ ~k.info[p].ac /\ r # "AC" =>
                 ~rank.info[p].ac /\ rank.info[p].first = k.info[p].first
        BY <1>4, <4>3, <4>5, AcmRankAdds
      <4>7. FirstInv(p)'
        <5>1. FirstInv(p) /\ problem[p].accepted \in Nat
          BY <1>4, <1>7, <4>5 DEF CountInv, IsCounted
        <5>2. problem'[p].accepted = problem[p].accepted + (IF r = "AC" THEN 1 ELSE 0)
          BY <3>4, <3>5
        <5>3. /\ acmRank[u].info[p] \in Entries
              /\ acmRank[u].info[p].ac => acmRank'[u].info[p] = acmRank[u].info[p]
              /\ \A v \in Users \ {u} : acmRank'[v].info[p] = acmRank[v].info[p]
          BY <4>1, <4>4, <4>5, <4>6
        <5>4. /\ ~acmRank[u].info[p].ac /\ r = "AC" =>
                   acmRank'[u].info[p].ac /\ (acmRank'[u].info[p].first <=> problem'[p].accepted = 1)
              /\ ~acmRank[u].info[p].ac /\ r # "AC" =>
                   /\ ~acmRank'[u].info[p].ac
                   /\ acmRank'[u].info[p].first = acmRank[u].info[p].first
          BY <4>1, <4>4, <4>6
        <5>5. QED
          BY <1>4, <4>5, <5>1, <5>2, <5>3, <5>4, FirstKeeps
      <4>8. ASSUME NEW q \in Contest \cap Acm, q # p PROVE FirstInv(q)'
        <5>1. FirstInv(q) /\ problem'[q] = problem[q]
          BY <3>5, <4>8, ProblemAssumption DEF CountInv
        <5>2. \A v \in Users : acmRank'[v].info[q] = acmRank[v].info[q]
          BY <4>1, <4>4, <4>6, <4>8
        <5>3. QED
          BY <5>1, <5>2 DEF FirstInv
      <4>9. QED
        BY <1>6, <1>8, <3>2, <3>3, <3>4, <4>2, <4>4, <4>6, <4>7, <4>8
    <3>7. CASE p \notin Acm
      <4>1. acmRank' = acmRank /\ oiRank' = [oiRank EXCEPT ![u] = OiRankAfter(oiRank[u], p, r)]
        BY <1>1, <1>10, <3>7 DEF CommitContest
      <4>2. IsOiRank(OiRankAfter(oiRank[u], p, r))
        BY <1>4, <1>8, <2>1, <3>7, OiRankAdds
      <4>3. oiRank' = [v \in Users |-> oiRank'[v]] /\ \A v \in Users : IsOiRank(oiRank'[v])
        BY <1>4, <1>8, <4>1, <4>2
      <4>4. \A q \in Contest \cap Acm : FirstInv(q)'
        <5>1. \A q \in Contest \cap Acm : problem'[q] = problem[q] /\ FirstInv(q)
          BY <3>5, <3>7, ProblemAssumption DEF CountInv
        <5>2. QED
          BY <4>1, <5>1 DEF FirstInv
      <4>5. QED
        BY <1>6, <1>8, <3>2, <3>3, <3>4, <4>1, <4>3, <4>4
    <3>8. QED
      BY <3>6, <3>7
  <2>4. QED
    BY <2>2, <2>3
<1>11. QED
  BY <1>9, <1>10

\* CountInv is kept, given who holds which lock and what a rank shows.
LEMMA CountsInductive == Spec => []CountInv
<1>1. HeldInv /\ RankInv /\ CountInv /\ [Next]_vars => CountInv'
  <2> SUFFICES ASSUME HeldInv, RankInv, CountInv, [Next]_vars PROVE CountInv'
    OBVIOUS
  <2>1. ASSUME UNCHANGED <<pc, task, held, seen, row, answer, problem, acmRank, oiRank>>
        PROVE  CountInv'
    BY <2>1 DEF CountInv, ReadInv, FirstInv, ProblemRow, Skipped
  <2>2. CASE \E s \in DOMAIN submissions : Rejudge(s) \/ Redeliver(s)
    BY <2>1, <2>2 DEF Rejudge, Redeliver, locals, ranks
  <2>3. CASE UNCHANGED vars
    BY <2>1, <2>3 DEF vars, locals, ranks
  <2>4. QED
    BY <2>2, <2>3, ReadsKeep, CommitsKeep DEF Next, Step
<1>2. QED
  BY <1>1, CountStarts, HeldInductive, RankInductive, PTL DEF Spec

\* accepted_number, statistic_info and submission_number agree, whatever judgements,
\* rejudges, crashes and redelivered messages overlap.
THEOREM CountersStayTrue == Spec => []CountersAgree
<1>1. CountInv => CountersAgree
  BY DEF CountInv, IsCounted, CountersAgree
<1>2. QED
  BY <1>1, CountsInductive, PTL

\* The numbers and times of ranks are those of their entries.
THEOREM RanksStayTrue == Spec => []RankAddsUp
<1>1. CountInv => RankAddsUp
  BY DEF CountInv, IsAcmRank, IsOiRank, RankAddsUp
<1>2. QED
  BY <1>1, CountsInductive, PTL

\* A solved problem of an ACM contest has one first author, however many judgements
\* race for it.
THEOREM OneIsFirst == Spec => []OneFirstAccepted
<1>1. ASSUME CountInv, NEW p \in Contest \cap Acm
      PROVE  Cardinality({u \in Users : acmRank[u].info[p].first}) =
               IF \E u \in Users : acmRank[u].info[p].ac THEN 1 ELSE 0
  <2>1. FirstInv(p)
    BY <1>1 DEF CountInv
  <2>2. CASE \E u \in Users : acmRank[u].info[p].ac
    <3>1. PICK u \in Users : acmRank[u].info[p].first
      BY <2>1, <2>2 DEF FirstInv
    <3>2. {v \in Users : acmRank[v].info[p].first} = {u}
      BY <2>1, <3>1 DEF FirstInv
    <3>3. QED
      BY <2>2, <3>2, FS_Singleton
  <2>3. CASE ~\E u \in Users : acmRank[u].info[p].ac
    <3>1. {v \in Users : acmRank[v].info[p].first} = {}
      BY <2>1, <2>3 DEF FirstInv
    <3>2. QED
      BY <2>3, <3>1, FS_EmptySet
  <2>4. QED
    BY <2>2, <2>3
<1>2. CountInv => OneFirstAccepted
  BY <1>1 DEF OneFirstAccepted
<1>3. QED
  BY <1>2, CountsInductive, PTL

\* An entry of the log changes no number.
LEMMA LogAdds ==
  ASSUME NEW old \in Profiles, NEW p \in Problems, NEW now,
         now = [old EXCEPT !.status[p] = IF @ = "none" THEN "logged" ELSE @]
  PROVE  now \in Profiles /\ Alike(old, now) /\ (AddsUp(old) => AddsUp(now))
<1>1. /\ now \in Profiles /\ now.accepted = old.accepted /\ now.total = old.total
      /\ now.score = old.score
      /\ \A q \in Problems : now.status[q] = IF q = p /\ old.status[p] = "none" THEN "logged"
                                                                            ELSE old.status[q]
  BY DEF Profiles
<1>2. Alike(old, now)
  BY <1>1 DEF Alike
<1>3. {q \in Problems \ Contest : now.status[q] = "AC"}
        = {q \in Problems \ Contest : old.status[q] = "AC"}
  BY <1>1
<1>4. QED
  BY <1>1, <1>2, <1>3 DEF AddsUp

\* What a judgement outside contests writes adds up, when the profile did and what
\* it has read is still true but for entries of the log.
LEMMA ProfileAdds ==
  ASSUME NEW now \in Profiles, NEW old \in Profiles, NEW p \in Problems \ Contest, NEW r \in Results
  PROVE  /\ ProfileAfter(now, old, p, r) \in Profiles
         /\ Alike(old, now) /\ AddsUp(now) => AddsUp(ProfileAfter(now, old, p, r))
<1> DEFINE open == old.status[p] # "AC"
           ac == old.accepted + (IF open /\ r = "AC" THEN 1 ELSE 0)
           status == IF open THEN [old.status EXCEPT ![p] = r] ELSE old.status
           new == ProfileAfter(now, old, p, r)
<1>1. /\ open \in BOOLEAN /\ (open <=> old.status[p] # "AC")
      /\ ac = old.accepted + (IF open /\ r = "AC" THEN 1 ELSE 0)
  OBVIOUS
<1>2. /\ status \in [Problems -> Results \cup {"none", "logged"}] /\ ac \in Int
      /\ \A q \in Problems : status[q] = IF open /\ q = p THEN r ELSE old.status[q]
  BY DEF Profiles
<1>3. new = IF p \in Acm
              THEN [now EXCEPT !.accepted = ac,
                      !.status = [q \in Problems |-> IF q \in Acm THEN status[q] ELSE now.status[q]]]
              ELSE IF open
              THEN [accepted |-> ac, total |-> now.total - old.score[p] + Score(r),
                    status |-> status, score |-> [old.score EXCEPT ![p] = Score(r)]]
              ELSE [now EXCEPT !.accepted = ac, !.score = old.score,
                      !.status = [q \in Problems |-> IF q \in Acm THEN now.status[q] ELSE status[q]]]
  BY Zenon DEF ProfileAfter
<1> HIDE DEF open, ac, status, new
<1>4. Score(r) \in Int
  BY DEF Score
<1>5. new \in Profiles
  <2>1. CASE p \in Acm
    BY <1>2, <1>3, <2>1 DEF Profiles
  <2>2. CASE p \notin Acm /\ open
    BY <1>2, <1>3, <1>4, <2>2 DEF Profiles
  <2>3. CASE p \notin Acm /\ ~open
    BY <1>2, <1>3, <2>3 DEF Profiles
  <2>4. QED
    BY <2>1, <2>2, <2>3
<1>6. ASSUME Alike(old, now), AddsUp(now) PROVE AddsUp(new)
  <2>1. PICK public, before, after :
          /\ public = Problems \ Contest
          /\ before = {q \in public : now.status[q] = "AC"}
          /\ after = {q \in public : new.status[q] = "AC"}
    OBVIOUS
  <2>2. /\ IsFiniteSet(before) /\ IsFiniteSet(public \ Acm)
        /\ now.accepted = Cardinality(before) /\ now.total = Total(now.score, public \ Acm)
    <3>1. before \subseteq Problems /\ public \ Acm \subseteq Problems
      BY <2>1
    <3>2. QED
      BY <1>6, <2>1, <3>1, ProblemAssumption, FS_Subset DEF AddsUp
  <2>3. /\ old.accepted = now.accepted /\ old.score = now.score
        /\ \A q \in Problems : old.status[q] = "AC" <=> now.status[q] = "AC"
    BY <1>6 DEF Alike
  <2>4. new.accepted = ac
    BY <1>2, <1>3 DEF Profiles
  <2>5. \A q \in Problems : new.status[q] = "AC" <=> (IF open /\ q = p THEN r = "AC"
                                                                    ELSE now.status[q] = "AC")
    <3>1. \A q \in Problems : status[q] = "AC" <=> (IF open /\ q = p THEN r = "AC"
                                                                  ELSE now.status[q] = "AC")
      BY <1>2, <2>3
    <3>2. CASE p \in Acm
      <4>1. \A q \in Problems : new.status[q] = IF q \in Acm THEN status[q] ELSE now.status[q]
        BY <1>3, <3>2 DEF Profiles
      <4>2. QED
        BY <3>1, <3>2, <4>1
    <3>3. CASE p \notin Acm /\ open
      <4>1. new.status = status
        BY <1>3, <3>3
      <4>2. QED
        BY <3>1, <4>1
    <3>4. CASE p \notin Acm /\ ~open
      <4>1. \A q \in Problems : new.status[q] = IF q \in Acm THEN now.status[q] ELSE status[q]
        BY <1>3, <3>4 DEF Profiles
      <4>2. QED
        BY <3>1, <3>4, <4>1
    <3>5. QED
      BY <3>2, <3>3, <3>4
  <2>6. new.accepted = Cardinality(after)
    <3>1. CASE open /\ r = "AC"
      <4>1. after = before \cup {p} /\ p \notin before
        BY <1>1, <2>1, <2>3, <2>5, <3>1
      <4>2. Cardinality(before \cup {p}) = Cardinality(before) + 1
        BY <2>2, <4>1, FS_AddElement
      <4>3. QED
        BY <1>1, <2>2, <2>3, <2>4, <3>1, <4>1, <4>2
    <3>2. CASE ~(open /\ r = "AC")
      <4>1. after = before
        BY <1>1, <2>1, <2>3, <2>5, <3>2
      <4>2. ac = old.accepted
        BY <1>1, <3>2 DEF Profiles
      <4>3. QED
        BY <2>2, <2>3, <2>4, <4>1, <4>2
    <3>3. QED
      BY <3>1, <3>2
  <2>7. new.total = Total(new.score, public \ Acm)
    <3>1. CASE p \notin Acm /\ open
      <4>1. PICK g, h : g = now.score /\ h = new.score
        OBVIOUS
      <4>2. /\ new.total = now.total - g[p] + Score(r)
            /\ \A q \in Problems \ Acm : h[q] = IF q = p THEN Score(r) ELSE g[q]
            /\ \A q \in Problems \ Acm : g[q] \in Int
        BY <1>3, <2>3, <3>1, <4>1 DEF Profiles
      <4>3. p \in public \ Acm /\ public \ Acm \subseteq Problems \ Acm
        BY <2>1, <3>1
      <4>4. Total(h, public \ Acm) = Total(g, public \ Acm) - g[p] + h[p]
        BY <1>4, <2>2, <4>2, <4>3, TotalChanged
      <4>5. QED
        BY <2>2, <4>1, <4>2, <4>3, <4>4
    <3>2. CASE ~(p \notin Acm /\ open)
      <4>1. new.total = now.total /\ new.score = now.score
        BY <1>3, <2>3, <3>2 DEF Profiles
      <4>2. QED
        BY <2>2, <4>1
    <3>3. QED
      BY <3>1, <3>2
  <2>8. QED
    BY <2>1, <2>6, <2>7 DEF AddsUp
<1>7. QED
  BY <1>5, <1>6 DEF new

\* The numbers leave the problems of contests out.
LEMMA ContestProfileAdds ==
  ASSUME NEW now \in Profiles, NEW old \in Profiles, NEW p \in Contest, NEW r \in Results
  PROVE  /\ ContestProfileAfter(now, old, p, r) \in Profiles
         /\ Alike(old, now) /\ AddsUp(now) => AddsUp(ContestProfileAfter(now, old, p, r))
<1>1. PICK new : new = ContestProfileAfter(now, old, p, r)
  OBVIOUS
<1>2. p \in Problems /\ Score(r) \in Int
  BY ProblemAssumption DEF Score
<1>3. PICK status, score :
        /\ status = [q \in Problems |-> IF q = p THEN r
                       ELSE IF (q \in Acm) = (p \in Acm) THEN old.status[q] ELSE now.status[q]]
        /\ score = IF p \in Acm THEN now.score ELSE [old.score EXCEPT ![p] = Score(r)]
  OBVIOUS
<1>4. /\ status \in [Problems -> Results \cup {"none", "logged"}]
      /\ score \in [Problems \ Acm -> Int]
  BY <1>2, <1>3 DEF Profiles
<1>5. new = [now EXCEPT !.status = status, !.score = score]
  BY <1>1, <1>3 DEF ContestProfileAfter
<1>6. /\ new \in Profiles /\ new.accepted = now.accepted /\ new.total = now.total
      /\ new.status = status /\ new.score = score
  BY <1>4, <1>5 DEF Profiles
<1>7. ASSUME Alike(old, now), AddsUp(now) PROVE AddsUp(new)
  <2>1. /\ old.score = now.score
        /\ \A q \in Problems : old.status[q] = "AC" <=> now.status[q] = "AC"
    BY <1>7 DEF Alike
  <2>2. \A q \in Problems \ Contest : new.status[q] = "AC" <=> now.status[q] = "AC"
    BY <1>3, <1>6, <2>1
  <2>3. {q \in Problems \ Contest : new.status[q] = "AC"}
          = {q \in Problems \ Contest : now.status[q] = "AC"}
    BY <2>2
  <2>4. PICK g, h, S : g = now.score /\ h = new.score /\ S = (Problems \ Contest) \ Acm
    OBVIOUS
  <2>5. \A q \in S : h[q] = g[q] /\ g[q] \in Int
    BY <1>2, <1>3, <1>6, <2>1, <2>4 DEF Profiles
  <2>6. IsFiniteSet(S)
    BY <2>4, ProblemAssumption, FS_Subset
  <2>7. Total(h, S) = Total(g, S)
    BY <2>5, <2>6, TotalSame
  <2>8. QED
    BY <1>6, <1>7, <2>3, <2>4, <2>7 DEF AddsUp
<1>8. QED
  BY <1>1, <1>6, <1>7

\* The profile of a new user.
LEMMA ProfileStarts == NoProfile \in Profiles /\ AddsUp(NoProfile)
<1>1. NoProfile \in Profiles
  BY DEF NoProfile, Profiles
<1>2. {p \in Problems \ Contest : NoProfile.status[p] = "AC"} = {} /\ NoProfile.accepted = 0
  BY DEF NoProfile
<1>3. PICK g, S : g = NoProfile.score /\ S = (Problems \ Contest) \ Acm
  OBVIOUS
<1>4. IsFiniteSet(S) /\ (\A p \in S : g[p] = 0) /\ NoProfile.total = 0
  BY <1>3, ProblemAssumption, FS_Subset DEF NoProfile
<1>5. Total(g, S) = 0
  BY <1>4, TotalOfZeros
<1>6. Cardinality({}) = 0
  BY FS_EmptySet
<1>7. QED
  BY <1>1, <1>2, <1>3, <1>4, <1>5, <1>6 DEF AddsUp

\* A thread's step that leaves the profiles alone.
LEMMA ProfilesAlone ==
  ASSUME ProfileInv, NEW x \in Threads, HeldProfile(x)', seen'[x] \in Profiles,
         \A t \in Threads \ {x} : UNCHANGED <<pc[t], task[t], seen[t]>>,
         seen' = [t \in Threads |-> seen'[t]], UNCHANGED <<profile, torn>>
  PROVE  ProfileInv'
<1>1. seen' \in [Threads -> Profiles]
  BY DEF ProfileInv
<1>2. ASSUME NEW t \in Threads \ {x} PROVE HeldProfile(t)'
  <2>1. HeldProfile(t)
    BY DEF ProfileInv
  <2>2. QED
    BY <2>1 DEF HeldProfile
<1>3. QED
  BY <1>1, <1>2 DEF ProfileInv

\* The steps that leave the profiles alone.
LEMMA ProfileReadsKeep ==
  ASSUME HeldInv, RankInv, ProfileInv, NEW x \in Threads,
         \/ SystemError(x) \/ (\E r \in Results : Answer(x, r))
         \/ LockCounters(x) \/ LockOwner(x) \/ LockUser(x) \/ LockProblem(x) \/ LockRank(x)
         \/ LockFirst(x) \/ Crash(x)
         \/ (\E u \in Users, p \in Problems : ReadProfile(x, u, p))
         \/ (\E s \in DOMAIN submissions : Deliver(x, s))
  PROVE  ProfileInv'
<1> DEFINE Others == \A t \in Threads \ {x} : UNCHANGED <<pc[t], task[t], seen[t]>>
           Tables == seen' = [t \in Threads |-> seen'[t]] /\ UNCHANGED <<profile, torn>>
<1>1. /\ pc \in [Threads -> Steps] /\ task = [t \in Threads |-> task[t]]
      /\ seen \in [Threads -> Profiles] /\ HeldProfile(x)
      /\ profile \in [Users -> Profiles] /\ (\A u \in Users \ torn : AddsUp(profile[u]))
      /\ pc[x] # "idle" => task[x].user \in Users
  BY DEF HeldInv, ProfileInv, RankInv, SeenInv
<1>2. ASSUME pc'[x] \in {"idle", "request", "user", "count"}, seen'[x] \in Profiles, Others, Tables
      PROVE  ProfileInv'
  <2>1. HeldProfile(x)'
    BY <1>2 DEF HeldProfile
  <2>2. QED
    BY <1>2, <2>1, ProfilesAlone
<1>3. ASSUME NEW u \in Users, task'[x].user = u, seen'[x] = profile[u], Others, Tables
      PROVE  ProfileInv'
  <2>1. seen'[x] \in Profiles
    BY <1>1, <1>3
  <2>2. HeldProfile(x)'
    BY <1>1, <1>3 DEF HeldProfile, Alike
  <2>3. QED
    BY <1>3, <2>1, <2>2, ProfilesAlone
<1>4. ASSUME pc[x] \in {"problem", "rank", "first"}, pc'[x] # "log", task' = task, seen' = seen,
             Others, Tables
      PROVE  ProfileInv'
  <2>1. HeldProfile(x)'
    BY <1>1, <1>4 DEF HeldProfile
  <2>2. QED
    BY <1>1, <1>4, <2>1, ProfilesAlone
<1>5. CASE SystemError(x) \/ Crash(x)
  <2>1. pc'[x] = "idle" /\ seen'[x] = NoProfile /\ Others /\ Tables
    BY <1>1, <1>5 DEF SystemError, Crash, End, Goto, history
  <2>2. QED
    BY <1>2, <2>1, ProfileStarts
<1>6. ASSUME NEW r \in Results, Answer(x, r) PROVE ProfileInv'
  <2>1. pc'[x] \in {"idle", "user", "count"} /\ seen'[x] \in {NoProfile, seen[x]} /\ Others /\ Tables
    BY <1>1, <1>6 DEF Answer, End, Goto, history
  <2>2. QED
    BY <1>1, <1>2, <2>1, ProfileStarts
<1>7. CASE LockCounters(x)
  <2>1. pc'[x] = "owner" /\ Others /\ Tables /\ seen' = seen
    BY <1>1, <1>7 DEF LockCounters, Lock, ReadRow, Goto, locking, history
  <2>2. HeldProfile(x)'
    BY <2>1 DEF HeldProfile
  <2>3. QED
    BY <1>1, <2>1, <2>2, ProfilesAlone
<1>8. CASE LockOwner(x) \/ LockUser(x)
  <2>1. /\ task' = task /\ seen'[x] = profile[task[x].user] /\ Others /\ Tables
        /\ task[x].user \in Users
    BY <1>1, <1>8 DEF LockOwner, LockUser, Lock, Goto, locking, history
  <2>2. QED
    BY <1>3, <2>1
<1>9. CASE LockProblem(x) \/ LockRank(x) \/ LockFirst(x)
  <2>1. /\ pc[x] \in {"problem", "rank", "first"} /\ pc'[x] # "log" /\ task' = task /\ seen' = seen
        /\ Others /\ Tables
    BY <1>1, <1>9 DEF LockProblem, LockRank, LockFirst, Lock, ReadRow, Goto, locking, history
  <2>2. QED
    BY <1>4, <2>1
<1>10. ASSUME NEW u \in Users, NEW p \in Problems, ReadProfile(x, u, p) PROVE ProfileInv'
  <2>1. task'[x].user = u /\ seen'[x] = profile[u] /\ Others /\ Tables
    BY <1>1, <1>10 DEF ReadProfile, Goto, history
  <2>2. QED
    BY <1>3, <2>1
<1>11. ASSUME NEW s \in DOMAIN submissions, Deliver(x, s) PROVE ProfileInv'
  <2>1. pc'[x] = "request" /\ seen' = seen /\ Others /\ Tables
    BY <1>1, <1>11 DEF Deliver, Goto, history
  <2>2. QED
    BY <1>1, <1>2, <2>1
<1>12. QED
  BY <1>5, <1>6, <1>7, <1>8, <1>9, <1>10, <1>11

\* A submission that saves the profile it has read.
LEMMA SavesKeep ==
  ASSUME HeldInv, RankInv, ProfileInv, NEW x \in Threads, SaveProfile(x)
  PROVE  ProfileInv'
<1>1. PICK u, p, new : /\ u = task[x].user /\ p = task[x].problem
                       /\ new = [seen[x] EXCEPT !.status[p] = IF @ = "none" THEN "logged" ELSE @]
  OBVIOUS
<1>2. /\ pc[x] = "log" /\ profile' = [profile EXCEPT ![u] = new]
      /\ torn' = IF \E t \in Judging(u) : seen[t] # seen[x] THEN torn \cup {u} ELSE torn
  BY <1>1 DEF SaveProfile
<1>3. /\ u \in Users /\ p \in Problems /\ seen[x] \in Profiles /\ profile \in [Users -> Profiles]
      /\ (u \notin torn => AddsUp(seen[x]))
  <2>1. HeldProfile(x)
    BY DEF ProfileInv
  <2>2. QED
    BY <1>1, <1>2, <2>1 DEF RankInv, SeenInv, ProfileInv, HeldProfile
<1>4. new \in Profiles /\ Alike(seen[x], new) /\ (AddsUp(seen[x]) => AddsUp(new))
  BY <1>1, <1>3, LogAdds
<1>5. /\ pc'[x] \in {"idle", "request"} /\ seen' = [seen EXCEPT ![x] = NoProfile]
      /\ \A t \in Threads \ {x} : UNCHANGED <<pc[t], task[t], seen[t]>>
  BY DEF SaveProfile, End, Goto, HeldInv, ProfileInv
<1>6. profile' \in [Users -> Profiles] /\ seen' \in [Threads -> Profiles]
  BY <1>2, <1>3, <1>4, <1>5, ProfileStarts DEF ProfileInv
<1>7. \A v \in Users : profile'[v] = IF v = u THEN new ELSE profile[v]
  BY <1>2, <1>3
<1>8. torn \subseteq torn'
  BY <1>2
<1>9. ASSUME NEW v \in Users \ torn' PROVE AddsUp(profile'[v])
  <2>1. CASE v = u
    BY <1>3, <1>4, <1>7, <1>8, <1>9, <2>1
  <2>2. CASE v # u
    <3>1. profile'[v] = profile[v] /\ v \in Users \ torn
      BY <1>7, <1>8, <2>2
    <3>2. QED
      BY <3>1 DEF ProfileInv
  <2>3. QED
    BY <2>1, <2>2
<1>10. ASSUME NEW t \in Threads PROVE HeldProfile(t)'
  <2>1. CASE t = x
    BY <1>5, <2>1 DEF HeldProfile
  <2>2. CASE t # x
    <3>1. HeldProfile(t) /\ pc'[t] = pc[t] /\ task'[t] = task[t] /\ seen'[t] = seen[t]
      BY <1>5, <2>2 DEF ProfileInv
    <3>2. pc[t] \in {"problem", "rank", "first", "commit"} => task[t].user \in Users
      BY DEF RankInv, SeenInv
    <3>3. ASSUME pc[t] \in {"problem", "rank", "first", "commit"}, task[t].user \notin torn'
          PROVE  Alike(seen[t], profile'[task[t].user])
      <4>1. CASE task[t].user = u
        <5>1. seen[t] = seen[x]
          BY <1>2, <3>3, <4>1 DEF Judging
        <5>2. QED
          BY <1>3, <1>4, <1>7, <4>1, <5>1
      <4>2. CASE task[t].user # u
        BY <1>7, <1>8, <3>1, <3>2, <3>3, <4>2 DEF HeldProfile
      <4>3. QED
        BY <4>1, <4>2
    <3>4. pc[t] = "log" /\ task[t].user \notin torn' => AddsUp(seen[t])
      BY <1>8, <3>1 DEF HeldProfile
    <3>5. QED
      BY <3>1, <3>3, <3>4 DEF HeldProfile
  <2>3. QED
    BY <2>1, <2>2
<1>11. QED
  BY <1>6, <1>9, <1>10 DEF ProfileInv

\* A judgement of the same user holds the same row, so that there is no other.
LEMMA ProfileCommitsKeep ==
  ASSUME HeldInv, RankInv, CountInv, ProfileInv, NEW x \in Threads,
         CommitCounters(x) \/ CommitContest(x)
  PROVE  ProfileInv'
<1>1. PICK u, p, r : u = task[x].user /\ p = task[x].problem /\ r = answer[x]
  OBVIOUS
<1>2. /\ pc[x] = "commit" /\ End(x) /\ torn' = torn
  BY DEF CommitCounters, CommitContest, Release
<1>3. /\ u \in Users /\ p \in Problems /\ r \in Results
      /\ profile[u] \in Profiles /\ seen[x] \in Profiles
      /\ (u \notin torn => Alike(seen[x], profile[u]) /\ AddsUp(profile[u]))
  <2>1. HeldProfile(x)
    BY DEF ProfileInv
  <2>2. u \in Users /\ p \in Problems /\ r \in Results
    BY <1>1, <1>2 DEF RankInv, SeenInv, CountInv, ReadInv
  <2>3. QED
    BY <1>1, <1>2, <2>1, <2>2 DEF ProfileInv, HeldProfile
<1>4. /\ pc'[x] = "idle" /\ seen' = [seen EXCEPT ![x] = NoProfile]
      /\ \A t \in Threads \ {x} : UNCHANGED <<pc[t], task[t], seen[t]>>
  BY <1>2 DEF End, Goto, HeldInv, ProfileInv
<1>5. ASSUME profile' = profile PROVE ProfileInv'
  <2>1. HeldProfile(x)' /\ seen' = [t \in Threads |-> seen'[t]] /\ seen'[x] \in Profiles
    BY <1>4, ProfileStarts DEF HeldProfile, ProfileInv
  <2>2. QED
    BY <1>2, <1>4, <1>5, <2>1, ProfilesAlone
<1>6. ASSUME NEW new \in Profiles, profile' = [profile EXCEPT ![u] = new],
             u \notin torn => AddsUp(new)
      PROVE  ProfileInv'
  <2>1. \A v \in Users : profile'[v] = IF v = u THEN new ELSE profile[v]
    BY <1>6 DEF ProfileInv
  <2>2. profile' \in [Users -> Profiles] /\ seen' \in [Threads -> Profiles]
    BY <1>4, <1>6, ProfileStarts DEF ProfileInv
  <2>3. \A v \in Users \ torn' : AddsUp(profile'[v])
    BY <1>2, <1>6, <2>1 DEF ProfileInv
  <2>4. ASSUME NEW t \in Threads PROVE HeldProfile(t)'
    <3>1. CASE t = x
      BY <1>4, <3>1 DEF HeldProfile
    <3>2. CASE t # x
      <4>1. HeldProfile(t) /\ pc'[t] = pc[t] /\ task'[t] = task[t] /\ seen'[t] = seen[t]
        BY <1>4, <3>2 DEF ProfileInv
      <4>2. ASSUME pc[t] \in {"problem", "rank", "first", "commit"}
            PROVE  task[t].user \in Users /\ task[t].user # u
        <5>1. LockInv(t) /\ LockInv(x) /\ held[t] \cap held[x] = {}
          BY <3>2 DEF HeldInv
        <5>2. UserRow(t) \in held[t]
          BY <4>2, <5>1 DEF LockInv
        <5>3. UserRow(x) \in held[x]
          BY <1>2, <5>1 DEF LockInv
        <5>4. UserRow(t) # UserRow(x)
          BY <5>1, <5>2, <5>3
        <5>5. QED
          BY <1>1, <4>2, <5>4 DEF UserRow, RankInv, SeenInv
      <4>3. QED
        BY <1>2, <2>1, <4>1, <4>2 DEF HeldProfile
    <3>3. QED
      BY <3>1, <3>2
  <2>5. QED
    BY <2>2, <2>3, <2>4 DEF ProfileInv
<1>7. CASE CommitCounters(x)
  <2>1. p \notin Contest /\ \/ profile' = profile
                            \/ profile' = [profile EXCEPT ![u] = ProfileAfter(profile[u], seen[x], p, r)]
    BY <1>1, <1>7 DEF CommitCounters
  <2>2. /\ ProfileAfter(profile[u], seen[x], p, r) \in Profiles
        /\ u \notin torn => AddsUp(ProfileAfter(profile[u], seen[x], p, r))
    BY <1>3, <2>1, ProfileAdds
  <2>3. QED
    BY <1>5, <1>6, <2>1, <2>2
<1>8. CASE CommitContest(x)
  <2>1. p \in Contest /\ \/ profile' = profile
                         \/ profile' = [profile EXCEPT ![u] =
                                          ContestProfileAfter(profile[u], seen[x], p, r)]
    BY <1>1, <1>8 DEF CommitContest
  <2>2. /\ ContestProfileAfter(profile[u], seen[x], p, r) \in Profiles
        /\ u \notin torn => AddsUp(ContestProfileAfter(profile[u], seen[x], p, r))
    BY <1>3, <2>1, ContestProfileAdds
  <2>3. QED
    BY <1>5, <1>6, <2>1, <2>2
<1>9. QED
  BY <1>7, <1>8

\* ProfileInv is kept, given who holds which lock.
LEMMA ProfilesInductive == Spec => []ProfileInv
<1>1. Init => ProfileInv
  <2> SUFFICES ASSUME Init PROVE ProfileInv
    OBVIOUS
  <2>1. /\ profile = [u \in Users |-> NoProfile] /\ seen = [t \in Threads |-> NoProfile]
        /\ \A t \in Threads : pc[t] = "idle"
    BY DEF Init
  <2>2. QED
    BY <2>1, ProfileStarts DEF ProfileInv, HeldProfile
<1>2. HeldInv /\ RankInv /\ CountInv /\ ProfileInv /\ [Next]_vars => ProfileInv'
  <2> SUFFICES ASSUME HeldInv, RankInv, CountInv, ProfileInv, [Next]_vars PROVE ProfileInv'
    OBVIOUS
  <2>1. ASSUME UNCHANGED <<pc, task, seen, profile, torn>>
        PROVE  ProfileInv'
    BY <2>1 DEF ProfileInv, HeldProfile
  <2>2. CASE \E s \in DOMAIN submissions : Rejudge(s) \/ Redeliver(s)
    BY <2>1, <2>2 DEF Rejudge, Redeliver, locals, history
  <2>3. CASE UNCHANGED vars
    BY <2>1, <2>3 DEF vars, locals, history
  <2>4. QED
    BY <2>2, <2>3, ProfileReadsKeep, SavesKeep, ProfileCommitsKeep DEF Next, Step
<1>3. QED
  BY <1>1, <1>2, HeldInductive, RankInductive, CountsInductive, PTL DEF Spec

\* The numbers of a profile are those of its problems, unless a submission wrote an
\* old profile into a judgement.
THEOREM ProfilesStayTrue == Spec => []ProfileAddsUp
<1>1. ProfileInv => ProfileAddsUp
  BY DEF ProfileInv, ProfileAddsUp
<1>2. QED
  BY <1>1, ProfilesInductive, PTL
=============================================================================
