CONSTANTS
  Callers = {demand, override}
  Unguarded = {demand}
  MaxRotations = 3
  MaxAgentCrashes = 1
SPECIFICATION FairTokenSpec
CHECK_DEADLOCK FALSE
INVARIANT TokenIsKnown
PROPERTIES NewestIsKept ReadsRecover
