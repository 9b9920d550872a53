CONSTANTS
  Sessions = {s1}
  Servable = {s1}
  MaxStarts = 2
  MaxRestarts = 1
  DockerErrors = TRUE
SPECIFICATION FairSpec
CHECK_DEADLOCK FALSE
INVARIANTS OneHolder StoppedIsGone
PROPERTIES ContractSpec StopsComplete LossNoticed
