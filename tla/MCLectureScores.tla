---- MODULE MCLectureScores ----
(* LectureScores for TLC: two contests of one lecture with a problem each.  *)
EXTENDS LectureScores, TLC

CONSTANTS c1, c2, p1, p2

MCHome == (p1 :> c1) @@ (p2 :> c2)

\* Both contests with their problems change places at once.
Swap == (c1 :> c2) @@ (c2 :> c1) @@ (p1 :> p2) @@ (p2 :> p1)

Sym == Permutations(Threads) \cup Permutations(Types) \cup {Swap}
====
