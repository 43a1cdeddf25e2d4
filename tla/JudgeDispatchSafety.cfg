CONSTANTS
  Subs = {s1, s2}
  Threads = {t1, t2, t3}
  Servers = {v1}
  None = None
  Cores = 1
  MaxRejudges = 1
  MaxAdmin = 1
  MaxFaults = 1
SPECIFICATION Spec
SYMMETRY Sym
INVARIANTS LoadIsExact NoStranded NoDuplicate
CHECK_DEADLOCK FALSE
