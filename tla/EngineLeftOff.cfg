SPECIFICATION Spec
CONSTANTS
  h1 = h1
  h2 = h2
  a1 = a1
  a2 = a2
  a3 = a3
  b1 = b1
  b2 = b2
  g1 = g1
  g2 = g2
  g3 = g3
  noBuf = noBuf
  Null = noBuf
  Ctxs <- TwoCtxs
  Bufs <- OneEach
  Owner <- OwnerOf
  Decimate <- EveryFrame
  Stoppers <- TwoCtxs
  ZcCtxs <- OnlyOne
  SmallBufs <- Nothing
  OutsideBufs <- Nothing
  Geoms <- OneGeom
  OutGeom = g1
  BadGeoms <- Nothing
  FifoDepth = 2
  MaxWaiting = 1
  MaxAge = 3
  Env <- Nothing
INVARIANTS
  EngineFollowsUsers
