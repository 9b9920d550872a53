CONSTANTS
  Assets = {a1, a2}
  None = none
  MaxCrashes = 1
  Asked = {a1}
SPECIFICATION FairServedSpec
CHECK_DEADLOCK FALSE
INVARIANTS PeersGetWhole AckedIsStored
PROPERTIES ReplicaSpec JobsEnd GarbageGoes
