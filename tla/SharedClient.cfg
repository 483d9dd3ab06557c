SPECIFICATION Spec
CONSTANTS
  Threads = {t1, t2}
  Handles = {h1, h2}
  None = None
INVARIANTS
  CleanupOwned
  DrainedBeforeUse
  IntoInnerClean
