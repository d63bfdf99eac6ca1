SPECIFICATION FairSpec
CONSTANTS
  MaxSent = 3
  Commands = {"run", "quit", "interrupt", "telnet", "work"}
  Malformed = {"interrupt"}
  IgnoreKI = TRUE
  AppMayCatch = FALSE
  MaxRedeliver = 1
  SqsMayFail = TRUE
PROPERTIES QuitCompletes InterruptObeyed Drained
CHECK_DEADLOCK FALSE
