SPECIFICATION Spec
CONSTANTS
  s1 = s1
  Sessions = {s1}
  MaxRoadmaps = 1
  MaxFaults = 0
PROPERTY ApprovedResearchEnds
CHECK_DEADLOCK FALSE
