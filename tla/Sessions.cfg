SPECIFICATION MCSpec
CONSTANTS
  Sessions = {s1, s2}
  MaxToolRounds = 2
  MaxTurns = 2
PROPERTIES  IdleIsConsolidated NothingIsLost
CHECK_DEADLOCK FALSE
