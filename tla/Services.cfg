SPECIFICATION ServicesSpec
CONSTANTS
  c1 = c1
  c2 = c2
  g1 = g1
  i1 = i1
  i2 = i2
  m1 = m1
  m2 = m2
  None = None
  Connections = {c1, c2}
  Segments = {g1}
  StartOf <- MCStartOf
  Retaining = {c1, c2}
  Slots = {i1, i2}
  Window = 2
  MaxServerSeq = 3
  MaxUser = 2
  Founder = 1
  MaxMutations = 3
  Streams = {"mic", "sys"}
  MaxChunks = 4
  MaxPosition = 4
  MaxUtterances = 2
  Meetings = {m1, m2}
  Notes = {"n"}
  Default = "indefinite"
  MaxCreates = 2
  MaxWrites = 2
  Nobody = Nobody
  Callers = {"c", "d"}
  Requests = {"q1", "q2", "q3"}
  RateWindow = 3
  MaxAdmitted = 1
  Second = 2
  MaxBuckets = 1
  MaxClock = 5
  Readers = {"ann", "bob"}
  RoleOf <- MCRoleOf
  TagLists <- MCTagLists
  Vocabulary = {"x", "y"}
  Texts <- MCTexts
  Queries <- MCQueries
  AllowedLists <- MCAllowedLists
  TopK = 1
  WordLength = 2
  MaxChunkChars = 6
  MaxDocuments = 2
  Bodies <- MCBodies
  SourceLists <- MCSourceLists
  Transcripts <- MCTranscripts
  MaxSourceTokens = 14
  MaxTranscriptTokens = 6
  MaxTranscriptChars = 4
  MaxInputTokens = 18
  MaxOutputTokens = 5
  MaxOutputChars = 3
  Warning = 3
SYMMETRY Interchangeable
INVARIANTS
  ServicesTypeOK
  ReplayCovers
  KeptIsStored
  ClosedSuppression
  LastOwner
  FinalsKept
  ReviewIsComplete
  RetryAfterHonoured
  NoneTurnedAway
  SearchAgreesWithDetail
  TokensAddUp
  SourcesFit
PROPERTIES
  AuthorizedNow
CHECK_DEADLOCK FALSE
