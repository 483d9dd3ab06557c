SPECIFICATION Spec
CONSTANTS
  t1 = t1
  t2 = t2
  u1 = u1
  u2 = u2
SYMMETRY Symmetry
INVARIANTS
  EngineTruthful
  NamesInside
  AnswersInPlace
  TreesWhole
  AliasesShareClient
