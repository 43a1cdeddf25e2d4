----------------------------- MODULE MCEvalQueue -----------------------------
EXTENDS EvalQueue, TLC
Sym == Permutations(Contests) \cup Permutations(Procs)
=============================================================================
