SPECIFICATION FairSpec
CONSTANTS
  MaxSessions = 2
  MaxPrints = 2
  MaxInterrupts = 1
INVARIANTS TypeOK RelayedInOrder OneRelay
PROPERTIES StopCompletes BufferDrained
CHECK_DEADLOCK FALSE
