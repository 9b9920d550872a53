CONSTANTS
  Comforts = {c1, c2}
  Setback = setback
  None = none
  MaxCrashes = 2
CHECK_DEADLOCK FALSE
SPECIFICATION FairSpec
INVARIANTS Restored LoweredIsRecoverable
PROPERTY VacancyTakesHold
