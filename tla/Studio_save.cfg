SPECIFICATION StudioSpec
CONSTANTS
  Paths = {"w", "c"}
  Windows = {"w"}
  MaxPending = 2
INVARIANT SavesItsChanges
CHECK_DEADLOCK FALSE
