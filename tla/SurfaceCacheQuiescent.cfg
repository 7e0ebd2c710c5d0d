SPECIFICATION FairSpec
CONSTANTS
  Threads = {t1, t2, t3}
  MaxSetShape = 2
  MaxThrows = 2
  Overlap = FALSE
  VoidShapes <- NoVoidShape
INVARIANTS
  TypeOK
  OneBuilder
  BuildOnlyOnMiss
  HoldersSeeCurrentShape
PROPERTIES
  ReadersUndisturbed
  ImplementsSingleFlight
  EveryCallReturns
