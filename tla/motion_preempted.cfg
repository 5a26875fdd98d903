SPECIFICATION Spec
CONSTANTS
  Kinds = {"motion", "both"}
  Apis = {"loop", "active"}
  Monitors = {}
  CanStop = TRUE
  CanClose = TRUE
  RejectsStop = TRUE
  CommandBound = 4
  StateBound = 4
INVARIANTS
  FinishedMeansSuccess
  RobotNotLeftMoving
CHECK_DEADLOCK FALSE
