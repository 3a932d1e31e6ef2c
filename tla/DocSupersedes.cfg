SPECIFICATION StreamSpec
CONSTANTS
  Streams = {mic}
  MaxChunks = 3
  MaxPosition = 4
  MaxUtterances = 2
INVARIANT FinalSupersedes
CHECK_DEADLOCK FALSE
