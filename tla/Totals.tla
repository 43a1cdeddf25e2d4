---- MODULE Totals ----
(* The sums that the profiles, the ranks and the score trees keep.          *)
EXTENDS Integers, FiniteSets, FiniteSetsExt

\* values[x] over the members of S.
Total(values, S) == MapThenSumSet(LAMBDA x : values[x], S)
====
