SPECIFICATION Spec
CONSTANTS
  Kinds = {"motion", "torque"}
  Apis = {"loop", "active"}
  Monitors = {}
  CanStop = FALSE
  CanClose = FALSE
  RejectsStop = FALSE
  CommandBound = 4
  StateBound = 5
INVARIANTS
  TypeOK
  CommandAttributable
  FailuresHaveCause
PROPERTY MessageIdGrows
CHECK_DEADLOCK FALSE
