SPECIFICATION FairSpec
CONSTANTS
  Contests = {c1, c2}
  NoContest = NoContest
  MaxJobs = 2
  Procs = {p1}
  SlotLimits = {1}
  PairWorkers = 1
  MaxPairs = 1
  Faults = {"crash", "counter", "error"}
  MaxFaults = 1
PROPERTY EveryJobEnds
