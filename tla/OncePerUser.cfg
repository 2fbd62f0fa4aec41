CONSTANTS
  Users = {u1}
  Rows = {r1}
  Calls = {k1, k2}
  Sums = {1}
  NoUser = NoUser
  NoRow = NoRow
SPECIFICATION Spec
SYMMETRY Symmetry
INVARIANT OncePerUser
