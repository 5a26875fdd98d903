CONSTANTS
  MaxTorqueRate = 2
  MaxJerk = 3
  MaxVelocity = 4
  EndStop = 10
  Deceleration = 1
  Offset = 0
  NaN = NaN
  LogSize = 2
  NoRow = NoRow
  Desired = {9}
  Torques = {4}
  Starts = {9}
  MaxRounds = 3
  MaxMotions = 2
  MaxTime = 5
SPECIFICATION Spec
INVARIANTS LimitsKept MotionIsCurrent
PROPERTY LogKeepsLatest
CHECK_DEADLOCK FALSE
