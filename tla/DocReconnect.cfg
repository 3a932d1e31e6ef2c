SPECIFICATION Spec
CONSTANTS
  MaxConnections = 3
  MaxChunks = 1
  MaxServerSeq = 2
  MaxUserSeq = 2
  ConfiguredLimit = 1
  PolicyLimit = 1
INVARIANTS
  DropIsRetried
CHECK_DEADLOCK FALSE
