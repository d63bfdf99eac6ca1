SPECIFICATION Spec
CONSTANTS
  Folders = {p, q}
  MaxRuns = 3
  MaxEdits = 2
SYMMETRY FolderSymmetry
INVARIANTS TypeOK UsesCurrent ImportsComplete FirstRunWins
CHECK_DEADLOCK FALSE
