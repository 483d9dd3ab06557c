SPECIFICATION Spec
CONSTANTS
  NoEnd = NoEnd
  t1 = t1
  t2 = t2
SYMMETRY Symmetry
INVARIANTS
  HandlesOwned
  ItemsTrue
  
  NeverMisrouted
PROPERTIES
  PoisonFinal
CHECK_DEADLOCK FALSE
