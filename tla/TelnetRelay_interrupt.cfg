SPECIFICATION Spec
CONSTANTS
  MaxSessions = 1
  MaxPrints = 1
  MaxInterrupts = 1
INVARIANT LockIsReleased
CHECK_DEADLOCK FALSE
