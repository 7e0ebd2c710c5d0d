SPECIFICATION Spec
CONSTANTS
  Threads = {t1, t2}
  Kinds <- BothSources
  MaxSetShape = 2
  Overlap = TRUE
  VoidShapes <- FirstShapeVoid
SYMMETRY ThreadSymmetry
INVARIANTS
  TypeOK
  TagsSound
  UsesCurrentFaces
  MeasureCurrent
