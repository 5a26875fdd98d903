SPECIFICATION FairSpec
CONSTANTS
  Kinds = {"motion"}
  Apis = {"loop"}
  Monitors = {}
  CanStop = TRUE
  CanClose = FALSE
  RejectsStop = FALSE
  CommandBound = 4
  StateBound = 4
PROPERTY CallsReturn
CHECK_DEADLOCK FALSE
