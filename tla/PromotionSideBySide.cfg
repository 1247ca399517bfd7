SPECIFICATION Spec
CONSTANTS
  Docs = {"a", "b"}
  Chunks = {"a1", "a2", "b1"}
  DocOf <- MCDocOf
  Manual = {"route"}
  BatchSize = 2
  RequireVectors = TRUE
  Tombstoned = {}
  MaxFaults = 1
INVARIANT NothingLost
