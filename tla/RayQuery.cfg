SPECIFICATION RaySpec
CONSTANTS
  Solids <- MCSolids
  Targets <- MCTargets
  Width = 8
INVARIANTS
  ClassifyRight
  NoMatterSkipped
