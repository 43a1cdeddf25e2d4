---- MODULE MCJudgeStats ----
(* JudgeStats for TLC: a, c have rule ACM and b, d have rule OI; c and d    *)
(* are in contests.                                                        *)
EXTENDS JudgeStats

CONSTANTS a, b, c, d, u1, u2

\* Two users race for one contest problem; one user submits to every kind of
\* problem; one user's submissions to one problem are judged again and again.
OneUser(which, again) ==
  [users |-> {u1}, problems |-> which, subs |-> 2, rejudges |-> again, faults |-> 0]

MCLoads == {
  [users |-> {u1, u2}, problems |-> {c}, subs |-> 3, rejudges |-> 0, faults |-> 1],
  OneUser({a, b, d}, 1), OneUser({a}, 2), OneUser({b}, 2)}

\* The loads of one user name u1 alone, and no other user occurs in them.
Sym == Permutations(Users) \cup Permutations(Threads)
====
