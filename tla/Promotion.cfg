SPECIFICATION FairSpec
CONSTANTS
  Docs = {"a", "b"}
  Chunks = {"a1", "a2", "b1"}
  DocOf <- MCDocOf
  Manual = {}
  BatchSize = 2
  RequireVectors = TRUE
  Tombstoned = {}
  MaxFaults = 3
INVARIANTS PurgedIsServed  DoneMeansClean
PROPERTIES KeepsCustody QueueDrains
