CONSTANTS
  Users = {u1, u2, u3}
  Teams = {t1, t2}
  Slots = {s1, s2, s3}
  MaxRequests = 4
  Nobody = Nobody
SPECIFICATION Spec
SYMMETRY Symmetry
INVARIANTS
  ClaimsOneToOne
  AcceptedNamesClaimant
PROPERTIES
  RolesChangeByAuthority
  HandoffKeepsALeader
CHECK_DEADLOCK FALSE
