SPECIFICATION Spec
CONSTANTS
  c1 = c1
  r1 = r1
  o1 = o1
  o2 = o2
  o3 = o3
  o4 = o4
  NoModel = NoModel
  Requests <- ChatSet
  Reviewers <- ReviewerSet
  Providers <- ProviderSet
SYMMETRY Symmetry
VIEW View
INVARIANT OneEngine
