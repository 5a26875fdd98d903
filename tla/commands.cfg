\* It stops when the device refuses the connection.
CONSTANTS
  Hosts = {"hardware", "python", "threads"}
  Setters = {"set_force_torque_collision_behavior", "set_full_collision_behavior"}
  \* The thresholds of a request have values of their own (Bound).
  Values = {1}
  MaxStates = 1
  NumCallers = 2
  None = None
SPECIFICATION FairSpec
INVARIANTS AnswersAreTrue ParametersAsRequested ReadIsNew
PROPERTIES EveryCallEnds StopEndsMovement
CHECK_DEADLOCK FALSE
