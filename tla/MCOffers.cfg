CONSTANTS
  Users = {u1}
  Rows = {r1, r2}
  Calls = {k1, k2, k3}
  Sums = {1, 2}
  Tariffs = {k1, k2, k3}
  Requests = {r1, r2}
  MaxPlace = 3
  NoUser = NoUser
  NoRow = NoRow
SPECIFICATION RunSpec
SYMMETRY Symmetry
INVARIANTS
  TypesOK
  OnceUnlessOverlapped
  BooksExplainBonuses
  ListInOrder
