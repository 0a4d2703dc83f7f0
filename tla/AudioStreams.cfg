SPECIFICATION FairSpec
CONSTANTS
  N = 2
  StalePkts = 1
  MaxStale = 1
  MaxGap = 2
INVARIANTS
  TypeOK
  BufferInUse
  SilenceAlive
  NoPacketStranded
  InOrder
  CleanStart
  SilenceInGap
PROPERTY GapFilled
