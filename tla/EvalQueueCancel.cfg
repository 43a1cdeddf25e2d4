SPECIFICATION Spec
CONSTANTS
  Contests = {c1, c2}
  NoContest = NoContest
  MaxJobs = 2
  Procs = {p1, p2}
  SlotLimits = {1}
  PairWorkers = 1
  MaxPairs = 1
  Faults = {}
  MaxFaults = 0
PROPERTY CancelIsFinal
