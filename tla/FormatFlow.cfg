SPECIFICATION FairSpec
CONSTANTS
  h1 = h1
  h2 = h2
  nobody = nobody
  Nobody = nobody
  Handles <- TwoHandles
  Sizes <- SmallSizes
  TableSizes <- TableOfOne
  DefaultSize = 1
  Inputs <- ThreeInputs
  Overlap <- Nothing
INVARIANTS
  TypeOK
  FrameFits
PROPERTIES
  DefaultWhenIdle
  ChangeAnnounced
