SPECIFICATION Spec
CONSTANTS
  Docs <- MCDocs
  Research <- MCResearch
  Tier1 <- MCTier1
  Tier2 <- MCTier2
  Needs <- MCNeeds
  Workers = 2
  Ingesters = {i1}
  MaxIngests = 1
  MaxFaults = 1
INVARIANTS OneTopicEach
PROPERTIES PromotableIsQueued CyclesEnd
CHECK_DEADLOCK FALSE
