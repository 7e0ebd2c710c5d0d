SPECIFICATION Spec
CONSTANTS
  Threads = {t1, t2, t3}
  MaxSetShape = 3
  MaxThrows = 1
  Overlap = TRUE
  VoidShapes <- FirstShapeVoid
  EmptyShapes <- FirstTwoEmpty
SYMMETRY ThreadSymmetry
INVARIANTS
  TypeOK
  OneBuilder
  SleepersHaveBuilder
  PolyhedronStampSound
  AnswerNotOlder
