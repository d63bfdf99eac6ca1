SPECIFICATION Spec
CONSTANTS
  MaxSent = 3
  Commands <- AllCommands
  Malformed = {"run"}
  IgnoreKI = TRUE
  AppMayCatch = TRUE
  MaxRedeliver = 1
  SqsMayFail = TRUE
INVARIANTS TypeOK ServedInOrder AtMostOnce InterruptBudget OrderlyEnd
PROPERTIES Contained NothingIgnored ImplementsQueue
CHECK_DEADLOCK FALSE
