SPECIFICATION MCSpec
CONSTANTS
  idle = idle
  drain = drain
  research = research
  Procs <- Users
  Faults <- AllFaults
  MaxFaults = 2
  Children = {1, 2, 3}
INVARIANTS OrderlyExclusion 
PROPERTIES DeadLockClears DashboardComesBack
CHECK_DEADLOCK FALSE
