\* One goal; requests get through, and the spine may fault.
CONSTANTS
  Goals = {g1}
  Top = 2
  Lossy = FALSE
  Faulty = TRUE
  None = None
  NoGoal = NoGoal
SPECIFICATION Spec
PROPERTY SuccessIsReached
CHECK_DEADLOCK FALSE
