\* Requests fail, the spine may fault, nodes are shut down: each server may stop.
CONSTANTS
  Goals = {g1, g2}
  NoGoal = NoGoal
  Top = 1
  None = None
  Lossy = TRUE
  Faulty = TRUE
  StopFails = TRUE
  Checked = {g1}
  MaxGoals = 2
  Targets = {1, 2}
  Start = 3
  WrongSizes = TRUE
SPECIFICATION FairSpec
INVARIANTS OneMotion SuccessIsOwn OverIsDone
PROPERTIES LifeOfGoals GoalsEnd CancelEnds
CHECK_DEADLOCK FALSE
