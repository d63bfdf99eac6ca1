SPECIFICATION Spec
CONSTANTS
  Answers <- MCAnswers
  MaxRuns = 3
INVARIANTS TypeOK CompleteAndConsistent
PROPERTY NothingOverwritten
CHECK_DEADLOCK FALSE
