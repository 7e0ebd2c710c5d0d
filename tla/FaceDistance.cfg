SPECIFICATION Spec
CONSTANTS
  NumFaces = 3
  FaceData <- AllFaceData
  Tolerance = 1
  Infinity = 100
INVARIANTS
  TypeOK
  ScanFindsNearest
  ScannedNormalIsNearest
  ExactDistancesExact
  SafetyOverestimate
