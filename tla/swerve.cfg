\* A description that is refused ends it.
CONSTANTS
  NaN = NaN
  Inf = Inf
  NegInf = NegInf
  Off = Off
  Speeds = {3}
  Turns = {1}
  Velocities = {3}
  Accelerations = {2}
  Jerks = {1}
  Retuned = FALSE
  Threshold = 1
  Timeout = 2
  Steps = {1, 2}
SPECIFICATION FairSpec
PROPERTIES StaleStops RampKept WheelsFollow
CHECK_DEADLOCK FALSE
