SPECIFICATION Spec
CONSTANTS
  Events = {e1}
  Leagues = {l1, l2}
  Answers = {"home", "away", "postponed", "canceled"}
  CentralReadSees = TRUE
  Attempts = 2
  Failures = 1
  None = None
SYMMETRY Symmetry
INVARIANTS
  NothingInvented
  MemoIsAnnounced
PROPERTY
  GradedOnce
CHECK_DEADLOCK FALSE
