CONSTANTS
  Tasks = {a, f}
  Blobs = {a}
  Fill = {f}
  Concurrency = 1
SPECIFICATION FairFillSpec
CHECK_DEADLOCK FALSE
INVARIANTS DirOutlivesHandler NoMinerAfterReport
PROPERTIES ContractSpec SlicesAreReported GuestIsYieldedTo
