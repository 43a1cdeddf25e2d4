SPECIFICATION Spec
CONSTANTS
  Contests = {c1}
  NoContest = NoContest
  MaxJobs = 1
  Procs = {p1}
  SlotLimits = {1}
  PairWorkers = 2
  MaxPairs = 3
  Faults = {"crash", "timelimit", "error", "counter", "promote", "dispatch"}
  MaxFaults = 3
INVARIANT DoneIsComplete
INVARIANT CountersWithinTotal
