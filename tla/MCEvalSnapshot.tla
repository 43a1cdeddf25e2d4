---------------------------- MODULE MCEvalSnapshot ----------------------------
\* EvalSnapshot for TLC; pairs and codes are interchangeable.
EXTENDS EvalSnapshot, TLC

Sym == Permutations(Pairs) \cup Permutations(Codes)
=============================================================================
