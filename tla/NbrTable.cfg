SPECIFICATION Spec
CONSTANTS
  Addr = {a1, a2, a3}
  Dest = {d1, d2}
  NBR_TABLE_MAX_NEIGHBORS = 2
  NULL = NULL
SYMMETRY Symmetry
VIEW View
INVARIANTS NbrTypeOK ItemsOwned PointersKept
PROPERTY LockedStays
