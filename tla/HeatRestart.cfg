CONSTANTS
  Comforts = {c1, c2}
  Setback = setback
  None = none
  MaxCrashes = 1
CHECK_DEADLOCK FALSE
SPECIFICATION FairSpec
PROPERTY RestoredAfterRestart
