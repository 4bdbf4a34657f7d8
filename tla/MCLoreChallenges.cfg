SPECIFICATION Spec
CONSTANTS
  MaxClaims = 3
  Members = {}
  Choices = {}
  Submissions <- ChallengeSubmissions
  StewardActions = {"override", "veto"}
  InngestMock = TRUE
  None = None
  Requests = {r1, r2}
  Workers = {}
  VoteWindow = 1
  Skew = 0
  MaxTime = 1
  MaxAttempts = 1
SYMMETRY Symmetry
INVARIANTS
  TrailTellsStatus
  NeverBothStanding
  DisputedHasOpenChallenge
  ProvenanceKept
PROPERTIES
  Lifecycle
CHECK_DEADLOCK FALSE
