SPECIFICATION MCSpec
CONSTANTS
  Docs = {"d1", "d2", "d3"}
  Urls = {"u", "v"}
  Texts = {"x", "y"}
  MaxStops = 1
  Worlds <- MCWorlds
  Runs = {"r1", "r2"}
  Reviewers = {worker, t2batch}
  MaxFaults = 2
  Paths = {p1, p2}
  Contents = {c1, c2}
  MaxWrites = 2
  FileWorlds <- WorldSet
  p1 = p1
  p2 = p2
  c1 = c1
  c2 = c2
INVARIANTS   IndexedIsQueryable DuplicateHasOriginal
PROPERTIES EveryRunIsTold EveryDocumentSettles
CHECK_DEADLOCK FALSE
