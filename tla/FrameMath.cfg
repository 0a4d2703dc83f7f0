SPECIFICATION MathSpec
CONSTANTS
  HalfWrap = 8
  Jobs <- SmallJobs
  Sources = {2, 7, 8}
  Jitters = {0, 40}
  Pauses = {0, 30}
  Gaps = {60000, 500000}
  HasRegister = TRUE
  MaxMissed = 1
  MaxEvents = 2
  Moments = {0, 1, 20}
INVARIANTS
  MathTypeOK
  ReadsInside
  OutputWhole
  ColoursKept
  LinesDoubled
  RateExact
  AnswerFollowsInput
