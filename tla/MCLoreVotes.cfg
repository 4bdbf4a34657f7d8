SPECIFICATION FairSpec
CONSTANTS
  MaxClaims = 1
  Members = {m1, m2, m3}
  Choices = {"affirm", "reject", "abstain"}
  Submissions <- VoteSubmissions
  StewardActions = {"tiebreak", "override", "extend", "veto"}
  InngestMock = FALSE
  None = None
  Requests = {r1}
  Workers = {w1}
  VoteWindow = 1
  Skew = 1
  MaxTime = 2
  MaxAttempts = 2
INVARIANTS
  DecidedOnce
  VoteCanonHasQuorum
PROPERTIES
  ScheduledVoteCloses
CHECK_DEADLOCK FALSE
