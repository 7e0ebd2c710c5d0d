SPECIFICATION Spec
CONSTANTS
  Points <- Line
  Distance <- LineDistance
  Shapes <- LineShapes
  Tolerance = 1
  MaxSpheres = 3
  MaxSeeds = 2
  MaxSetShape = 3
INVARIANTS
  TypeOK
  FastPathSound
  OrderedAndBounded
PROPERTIES
  NothingBetterEvicted
