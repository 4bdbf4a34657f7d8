SPECIFICATION FairSpec
CONSTANTS
  Jobs = {j1, j2, j3}
  Cap = 2
  MaxUnits = 2
  MaxFaults = 2
  MaxBilled = 14
INVARIANTS
  CounterBounded
  SpendBounded
PROPERTY
  DenialEnds
CHECK_DEADLOCK FALSE
