SPECIFICATION DisplaySpec
CONSTANTS
  Threads = {t1, t2}
  MaxSetShape = 2
  MaxThrows = 1
  Overlap = TRUE
  VoidShapes <- FirstShapeVoid
  Drawer = t1
INVARIANTS
  DisplaySound
  StampSound
PROPERTIES
  EveryDrawReturns
