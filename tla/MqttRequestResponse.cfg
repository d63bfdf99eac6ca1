SPECIFICATION Spec
CONSTANTS
  Commands <- AllCommands
  MaxRequests = 3
  MaxBreaks = 2
INVARIANTS TypeOK OwnAnswer NoTopicLeft
PROPERTIES StoredOnce CallReturns
CHECK_DEADLOCK FALSE
