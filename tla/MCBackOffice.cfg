CONSTANTS
  Debts = {d1, d2}
  Fines = {f1}
  Users = {u1}
  Calls = {k1, k2}
  Prices = {1, 2}
  Employees = {d1, d2}
  Emails = {o1, o2}
  Agents = {g1, g2}
  MaxTokens = 3
  MaxResets = 2
  Cities = {d1, d2}
  Franchises = {d1, d2}
  Owners = {o1, o2}
  Slugs = {o1, o2}
  MaxBatches = 2
  MaxEdits = 2
  NoUser = NoUser
  TopUp = TopUp
SPECIFICATION RunSpec
SYMMETRY RunSymmetry
INVARIANTS
  TypesOK
  PaidIsCovered
  ToldIsTrue
  BalanceWithinPayments
  RowsUnique
  ServesOnce
  TypesWhole
