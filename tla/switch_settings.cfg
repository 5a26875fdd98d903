\* The setting in turn; Over gives the other.
CONSTANTS
  Types = {"effort", "velocity", "position", "elbow", "cartvel", "cartpose"}
  Overlapped = FALSE
  Miscounted = FALSE
  Infinite = FALSE
  SameAgain = TRUE
SPECIFICATION SettingsSpec
INVARIANTS RightCommandSent ControlFollowsClaims
PROPERTY NothingSentDuringSwitch
