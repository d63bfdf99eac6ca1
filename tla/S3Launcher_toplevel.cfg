SPECIFICATION Spec
CONSTANTS
  MaxSent = 2
  Commands = {"run", "quit", "interrupt"}
  Malformed = {}
  IgnoreKI = TRUE
  AppMayCatch = FALSE
  MaxRedeliver = 0
  SqsMayFail = FALSE
INVARIANT TopLevelIgnoresInterrupt
CHECK_DEADLOCK FALSE
