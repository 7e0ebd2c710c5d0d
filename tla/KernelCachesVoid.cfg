SPECIFICATION Spec
CONSTANTS
  Threads = {t1, t2}
  Kinds <- BothSources
  MaxSetShape = 2
  Overlap = FALSE
  VoidShapes <- FirstShapeVoid
INVARIANTS
  BoundsDescribeShape
