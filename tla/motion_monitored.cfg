SPECIFICATION FairSpec
CONSTANTS
  Kinds = {"motion"}
  Apis = {"active", "loop"}
  Monitors = {m1}
  CanStop = FALSE
  CanClose = FALSE
  RejectsStop = FALSE
  CommandBound = 3
  StateBound = 3
  m1 = m1
INVARIANT MoveResponseOwed
PROPERTY CallsReturn
CHECK_DEADLOCK FALSE
