\* It stops when every thread has its response, and when the broadcaster is gone.
CONSTANTS
  UpdateRate = 4
  ConveniencePublishRate = 2
  FrameBound = 4
  Callers = {c1, c2, c3}
  Pollers = {c3}
  Body = 2
  Breaks = TRUE
  None = None
SPECIFICATION HandOverSpec
INVARIANTS WholeFrames OwnResponse
PROPERTIES FreshFrames KeepsLatestFrame LastFramePublished StopReturns EveryoneAnswered
CHECK_DEADLOCK FALSE
