SPECIFICATION Spec
CONSTANTS
  NumFaces = 2
  FaceData <- PatchAndBulge
  Tolerance = 1
  Infinity = 100
INVARIANTS
  SafetyConservative
