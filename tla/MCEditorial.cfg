SPECIFICATION Spec
CONSTANTS
  Posts = {p1, p2, p3, p4}
  Column = column
  Clicks = {k1, k2, k3}
  Calls = {c1, c2}
  MaxCalls = 4
  MaxTrouble = 2
  None = None
SYMMETRY Symmetry
INVARIANTS
  OriginalRetires
  RetractionHolds
  StoryNeverLost
  PublishedOnce
PROPERTY
  Lifecycle
CHECK_DEADLOCK FALSE
