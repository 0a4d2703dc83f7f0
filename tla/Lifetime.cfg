SPECIFICATION FairSpec
CONSTANTS
  Handles = {h1, h2}
  MaxChl = 2
  h1 = h1
  h2 = h2
INVARIANTS
  TypeOK
  FreedLast
  UsersFindTheirMemory
  NothingLeaks
  ReadersWoken
PROPERTY RemoveReturns
CHECK_DEADLOCK FALSE
