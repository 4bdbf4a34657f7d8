SPECIFICATION FairSpec
CONSTANTS
  Events = {e1}
  Leagues = {l1}
  Answers = {"home", "away", "push", "postponed", "canceled"}
  CentralReadSees = FALSE
  Attempts = 2
  Failures = 1
  None = None
PROPERTY
  PendingIsGraded
CHECK_DEADLOCK FALSE
