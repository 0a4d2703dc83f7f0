SPECIFICATION Spec
CONSTANTS
  Handles = {h1, h2}
  MaxChl = 2
  h1 = h1
  h2 = h2
INVARIANT CardStoppedBeforeFree
CHECK_DEADLOCK FALSE
