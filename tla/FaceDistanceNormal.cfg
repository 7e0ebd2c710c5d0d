SPECIFICATION Spec
CONSTANTS
  NumFaces = 3
  FaceData <- PlateWithHole
  Tolerance = 1
  Infinity = 100
INVARIANTS
  NormalOfNearestFace
