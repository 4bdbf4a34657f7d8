SPECIFICATION Spec
CONSTANTS
  ClaimIds = {c1, c2}
  Polls = {p1}
  Options = {o1, o2}
  Members = {m1, m2}
  Requests = {r1, r2}
  Closers = {k1}
  None = None
SYMMETRY Symmetry
INVARIANTS
  OneClaimPerPoll
  DisputesStayResolvable
PROPERTIES
  ResultIsFinal
CHECK_DEADLOCK FALSE
