SPECIFICATION Spec
CONSTANTS
  Genesis = g
  Nodes = {n1}
  MaxRequests = 4
  MaxReorgs = 1
  MaxFaults = 2
INVARIANTS OneSecret AnswerNotMissed
PROPERTY SecretObtained
CHECK_DEADLOCK FALSE
