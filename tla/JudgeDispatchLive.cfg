CONSTANTS
  Subs = {s1, s2}
  Threads = {t1, t2}
  Servers = {v1}
  None = None
  Cores = 1
  MaxRejudges = 0
  MaxAdmin = 1
  MaxFaults = 1
SPECIFICATION FairSpec
PROPERTY EveryoneIsJudged
CHECK_DEADLOCK FALSE
