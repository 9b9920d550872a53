CONSTANTS
  MaxPushes = 2
  MaxCrashes = 1
  Models = {m1}
  Syncs = {s1, s2}
  Chunks = 1
  MaxQueued = 2
  None = none
SPECIFICATION PushesFairSpec
CHECK_DEADLOCK FALSE
INVARIANTS AckedIsOnDisk PresentIsWhole
PROPERTIES PushTakesEffect ModelsArrive
