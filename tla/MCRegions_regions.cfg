CONSTANTS
  t1 = t1
  t2 = t2
  Thread = {t1, t2}
  UnitSize = 2
  Blocks <- MCBlocks
  Sections <- MCSections
  AccessSizes = {1, 2}
  MaxAllocs = 4
SPECIFICATION Spec
INVARIANT TablesFollowMemory
SYMMETRY Symmetry
CHECK_DEADLOCK FALSE
