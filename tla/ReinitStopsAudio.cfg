SPECIFICATION Spec
CONSTANTS
  N = 2
  StalePkts = 1
  MaxStale = 1
  MaxGap = 2
INVARIANT StreamCaptures
