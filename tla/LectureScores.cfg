CONSTANTS
  Threads = {t1, t2}
  Types = {practice, assign}
  Contests = {c1, c2}
  Problems = {p1, p2}
  c1 = c1
  c2 = c2
  p1 = p1
  p2 = p2
  Home <- MCHome
  Points = {2}
  MaxSubs = 2
  MaxOps = 4
  MaxRaces = 2
  None = None
SPECIFICATION Spec
SYMMETRY Sym
INVARIANTS UpToDate TotalsAddUp ListedOnce
CHECK_DEADLOCK FALSE
