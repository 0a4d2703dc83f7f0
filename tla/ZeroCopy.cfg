SPECIFICATION Spec
CONSTANTS
  h1 = h1
  h2 = h2
  a1 = a1
  a2 = a2
  a3 = a3
  b1 = b1
  b2 = b2
  g1 = g1
  g2 = g2
  g3 = g3
  noBuf = noBuf
  Null = noBuf
  Ctxs <- OneCtx
  Bufs <- TwoA
  Owner <- OwnerOf
  Decimate <- EveryFrame
  Stoppers <- OneCtx
  ZcCtxs <- OnlyOne
  SmallBufs <- Nothing
  OutsideBufs <- Nothing
  Geoms <- TwoGeoms
  OutGeom = g1
  BadGeoms <- Nothing
  FifoDepth = 2
  MaxWaiting = 1
  MaxAge = 3
  Env <- Changes
INVARIANTS
  TypeOK
  NoMixedFrame
  LateCopyFails
  NoSequenceRepeat
  GoodFramesLeaveAtOnce
PROPERTIES
  ResizeAtRest
