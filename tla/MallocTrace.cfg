SPECIFICATION Spec
CONSTANTS
  Threads = {main, t1}
  Main = main
  Addrs = {a, b}
  Nil = nil
  Sites = {x, y}
  Sizes = {2}
  Counts = {1, 2}
SYMMETRY NameSymmetry
INVARIANTS TypeOK ReportIsTrue NoFalseAlarm Totals
CHECK_DEADLOCK FALSE
