CONSTANTS
  MaxRenters = 1
  MaxRestarts = 1
  MaxTimeouts = 0
  FallbackTicks = 1
  ChunkTicks = 1
  OverrunTicks = 2
  Setups = {{"heater"}, {"miner", "heater"}}
SPECIFICATION FairFallbackSpec
CHECK_DEADLOCK FALSE
INVARIANTS KnownVacantUnheated HeaterEndsWithMiner SilenceIsBounded
PROPERTY FallbackFollows
