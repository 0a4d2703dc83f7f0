SPECIFICATION Spec
CONSTANTS
  h1 = h1
  h2 = h2
  a1 = a1
  a2 = a2
  a3 = a3
  b1 = b1
  b2 = b2
  g1 = g1
  g2 = g2
  g3 = g3
  noBuf = noBuf
  Null = noBuf
  Ctxs <- OneCtx
  Bufs <- TwoA
  Owner <- OwnerOf
  Decimate <- EveryFrame
  Stoppers <- OneCtx
  ZcCtxs <- OnlyOne
  SmallBufs <- Nothing
  OutsideBufs <- OneA
  Geoms <- GoodAndBad
  OutGeom = g1
  BadGeoms <- BadGeom
  FifoDepth = 2
  MaxWaiting = 1
  MaxAge = 1
  Env <- Faults
VIEW Structure
INVARIANTS
  OnePlace
  InflightExact
  RegistersInFlight
  StopReturnsAll
  EngineFollowsUsers
