SPECIFICATION SubmitSpec
CONSTANTS
  Users = {u1}
  Markets = {m1, m2, m3}
  Keys = {k1, k2, k3}
  Allowances = {1, 2}
  Requests = {r1, r2}
  Null = Null
SYMMETRY Symmetry
INVARIANTS
  OnePickPerIntent
  OnePickPerMarket
  OvershootBounded
CHECK_DEADLOCK FALSE
