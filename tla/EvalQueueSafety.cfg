SPECIFICATION Spec
SYMMETRY Sym
CONSTANTS
  Contests = {c1, c2}
  NoContest = NoContest
  MaxJobs = 2
  Procs = {p1, p2}
  SlotLimits = {1}
  PairWorkers = 1
  MaxPairs = 1
  Faults = {"crash", "timelimit", "error", "counter", "promote", "dispatch"}
  MaxFaults = 1
INVARIANT RunningIsOwned
INVARIANT OneOrchestrator
INVARIANT NoLostWakeup
PROPERTY ImplementsLifecycle
