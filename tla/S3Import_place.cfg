SPECIFICATION Spec
CONSTANTS
  Folders = {p, q}
  MaxRuns = 2
  MaxEdits = 0
INVARIANT FromEntry
CHECK_DEADLOCK FALSE
