--------------------------- MODULE MCJudgeDispatch ---------------------------
EXTENDS JudgeDispatch, TLC

\* Submissions, and the threads that judge them, are interchangeable.
Sym == Permutations(Subs) \cup Permutations(Threads)
=============================================================================
