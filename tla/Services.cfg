SPECIFICATION Spec
SYMMETRY Sym
CONSTANTS
  Threads = {t1, t2}
  None = None
  Students = {u1, u2}
  Numbers = {m1, m2}
  Lectures = {l1, l2}
  MaxRequests <- MCMaxRequests
  MaxTime <- MCMaxTime
  Accounts = {"n1", "n2"}
  Identities = {"s1", "s2"}
  Legacy <- Imported
  Username <- Named
  NCases <- MCNCases
  NEvents = 2
  Capacity = 2
  DefaultCapacity = 1
  TTL = 2
  Users = {"s1"}
  Contests = {"c1", "c2"}
  Home <- Placed
  Whole <- Points
  Answers <- Graded
  Typings <- Typed
  Beginnings <- Begun
  Requested <- Asked
  Weights <- MCWeights
  Scales <- MCScales
  Roll <- MCRoll
INVARIANT KeysUsable
INVARIANT OneAccountEach
INVARIANT AdministratorsNeedTfa
INVARIANT ListedIsLinked
INVARIANT RoleMatches
INVARIANT BoardFresh
INVARIANT FilesExist
INVARIANT InfoDescribesFiles
INVARIANT NoCaseLost
INVARIANT StoredIsShown
INVARIANT RateLimit
INVARIANT StaleBound
INVARIANT SheetsAgree
INVARIANT PagesAreTrue
INVARIANT TurnIsRight
PROPERTY LeftStaysLeft
PROPERTY RevokedForGood
CHECK_DEADLOCK FALSE
