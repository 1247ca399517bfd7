SPECIFICATION MCSpec
CONSTANTS
  Files = {f1, f2}
  IdleExit = 2
  PassChunks = 1
  MaxRuns = 2
  MaxFaults = 2
  Inputs = {"p1", "p2"}
  MaxRewrites = 2
  MaxMishaps = 2
  Papers = {"d1", "d2"}
  MaxReports = 2
  MaxHuman = 1
  MaxDead = 1
  MaxTopics = 4
  MaxGroup = 3
  MaxParents = 8
  MaxNamed = 2
  MaxPoints = 4
  Families = {"f", "g"}
  Clusters = {"k", "l"}
  MaxDocs = 3
  MinSize = 2
  MaxStops = 1
  Units = {"a", "b", "c"}
  MaxDepth = 1
  MaxAssess = 3
  MaxLapses = 1
  Races = TRUE
  Shows <- LessonShows
  Plans <- TaskPlans
  Retries = 2
  MaxCalls = 2
  MaxOthers = 2
  MaxCrashes = 1
  Facts = {"f1"}
  Requests = {"r1", "r2"}
  MaxProposals = 3
  MaxAnswers = 4
  MaxEpochs = 3
  TableKinds <- Tables
  Patterns = {"p", "q"}
  Window = 1
  Top = 1
  MaxUses = 2
  MaxRows = 3
  MaxCycles = 3
  MaxDecisions = 1
  Recallers = {"a", "b"}
  Items = {"goal"}
  StoreOf <- GoalIsUsers
  Cap = 1
  Batch = 1
  MaxVersions = 2
  MaxBreaks = 1
  Chunks = {1, 2, 3, 4, 5}
  BatchSize = 3
  Limit = 5
  Threshold = 3
  MaxErrors = 2
  Sessions = {s1, s2}
  Paths <- PermitPaths
  Globs <- PermitScopes
  MaxPermits = 2
  MaxKills = 1
  Return = FALSE
INVARIANTS
  ExitIsDrained 
  CommittedIsKept
  
  
  
  CourseCanEnd MasteryIsEvidenced
  
  GateIsTrue
  
  CompleteIsIndexed
  
PROPERTY AskedOnce
CHECK_DEADLOCK FALSE
