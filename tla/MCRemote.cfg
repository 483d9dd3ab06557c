SPECIFICATION Spec
INVARIANTS
  SequentialOutcome
  PositionsKept
  FailuresAttributed
  ConflictsOrdered
  OwnedOnce
  SequentialWrites
  NamesTrue
