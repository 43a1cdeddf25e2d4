CONSTANTS
  Users = {u1, u2}
  Threads = {t1, t2}
  Problems = {a, b, c, d}
  Acm = {a, c}
  Contest = {c, d}
  a = a
  b = b
  c = c
  d = d
  u1 = u1
  u2 = u2
  None = None
  Loads <- MCLoads
SPECIFICATION Spec
SYMMETRY Sym
INVARIANTS CountersAgree ProfileAddsUp RankAddsUp OneFirstAccepted AcceptedIsRanked NoDeadlock
CHECK_DEADLOCK FALSE
