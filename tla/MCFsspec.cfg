SPECIFICATION Spec
CONSTANTS
  t1 = t1
  t2 = t2
  h1 = h1
  h2 = h2
SYMMETRY Symmetry
INVARIANTS
  NeverReplayed
  ReadsTrue
  CacheCoherent
  NeverPartial
PROPERTIES
  StepsKept
CHECK_DEADLOCK FALSE
