SPECIFICATION DesktopSpec
CONSTANTS
  MaxConnections = 2
  MaxChunks = 3
  MaxServerSeq = 2
  MaxUserSeq = 3
  ConfiguredLimit = 2
  PolicyLimit = 1
  MaxStarts = 2
  MaxBatches = 2
  MaxPresses = 2
  Batches = 2
  Capacity = 1
  MaxAttempts = 2
  MaxCompletions = 2
  MaxCalls = 3
INVARIANTS
  PartsTypeOK
  Accounted
  HeardInOrder
  CountersAgree
  PauseIsSilent
  TimelineCovers
  BoundToAttempt
  RefreshUsable
PROPERTIES
  Reattaches
  MicrophoneReleased
  SignInEnds
CHECK_DEADLOCK FALSE
