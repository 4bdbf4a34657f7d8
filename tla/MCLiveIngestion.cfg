SPECIFICATION Spec
CONSTANTS
  Matchups = {m1}
  Fields = {"home_score"}
  Values = {0, 1}
  Corrections = {1}
  Ingests = {j1, j2}
  Stewards = {s1}
  MaxPlays = 2
  MaxEdits = 1
  MaxKeys = 2
  Failures = 1
  None = None
SYMMETRY Symmetry
INVARIANTS
  FactsAreFinal
  FactsFollow
  FinalIsAnnounced
PROPERTIES
  EditsOutliveReads
CHECK_DEADLOCK FALSE
