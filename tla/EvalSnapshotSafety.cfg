SPECIFICATION Spec
SYMMETRY Sym
CONSTANTS
  Pairs = {k1, k2}
  Codes = {a, b}
  NoCode = NoCode
  MaxJobs = 2
  PairWorkers = 1
  Retries = 1
  MaxSubmits = 2
  MaxFaults = 1
INVARIANT EvaluationMatches
INVARIANT ErrorsAreReported
INVARIANT CountedIsStored
CHECK_DEADLOCK FALSE
