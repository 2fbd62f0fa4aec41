CONSTANTS
  Finishes = {f1, f2, f3}
  Deposit = 3
  Costs = {1, 4, 6}
  Grants = {0, 3}
  MaxBonuses = 3
  Trips = {t1, t2, t3}
  Removals = {r1}
  Shots = {s1, s2}
  PageSize = 1
  LastTime = 3
  None = None
SPECIFICATION RunSpec
SYMMETRY Symmetry
INVARIANTS
  TypesOK
  SplitIsFair
  NoOverdraftAlone
  PaidInFull
  NothingIsLost
