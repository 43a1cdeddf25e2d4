---- MODULE MCServices ----
(***************************************************************************)
(* Services for TLC.                                                       *)
(***************************************************************************)
EXTENDS Services, TLC

Sym == Permutations(Threads) \cup Permutations(Students)
         \cup Permutations(Numbers) \cup Permutations(Lectures)

MCMaxRequests == [f \in Focuses |->
  CASE f \in {"files"} -> 2
    [] f \in {"sharing", "chat"} -> 3
    [] f \in {"accounts", "enrolment", "export"} -> 4
    [] f \in {"assistants", "keys", "options", "pages"} -> 5
    [] f \in {"sign-in", "attendance", "board", "throttle", "questions"} -> 6]

\* Three cases and two requests, or one case and more requests.
MCNCases == "files" :> 3 @@ "sharing" :> 1

MCMaxTime == "throttle" :> 5 @@ "options" :> 4

\* The sign-in: the account n1 was imported for s1, and each of the two has
\* the other's name.
Imported == [s \in {"s1", "s2"} |-> IF s = "s1" THEN "n1" ELSE None]
Named == [s \in {"s1", "s2"} |-> IF s = "s1" THEN "n2" ELSE "n1"]

\* Two contests, one of them with a problem to come.  The axes' sum of 23 is
\* the one that rounds down, a score above 10 is cut.
Placed == "p1" :> "c1" @@ "p2" :> "c2" @@ "p3" :> "c2"
Points == "p1" :> 7 @@ "p2" :> 10 @@ "p3" :> 3
Judged == "correctness" :> 6 @@ "algorithm" :> 12
            @@ "readability" :> 4 @@ "problem_understanding" :> 3
Graded == {None, Judged}
Typed == {"c1" :> "exam" @@ "c2" :> "contest", "c1" :> "practice" @@ "c2" :> "survey"}
Begun == {{"p1", "p2"}}
Asked == {[contests |-> {"c1", "c2"}, qual |-> "exam" :> "max" @@ "lab" :> "only" @@ "other" :> "true"],
          [contests |-> {"c2"}, qual |-> "exam" :> "no" @@ "other" :> "only"]}
MCWeights == "c1" :> 30 @@ "c2" :> 20
MCScales == "lab" :> 20 @@ "other" :> 0

MCRoll == <<"s1", "s2">>
====
