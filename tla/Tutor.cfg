SPECIFICATION Spec
CONSTANTS
  s1 = s1
  s2 = s2
  Sessions = {s1, s2}
  MaxRoadmaps = 2
  MaxFaults = 1
SYMMETRY Symmetry
INVARIANT DecisionStands
CHECK_DEADLOCK FALSE
