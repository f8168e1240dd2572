SPECIFICATION KnowledgeSpec
CONSTANTS
  ConflictTypes = {"currency", "percentage", "date", "duration"}
  CasedTypes = {"location", "product"}
  DurationUnits <- MCDurationUnits
  ScopeWords <- MCScopeWords
  Threshold = 1
  Chunks <- MCChunks
  ChunkIndex <- MCChunkIndex
  RrfK = 1
  Scale = 12
  DocOf <- MCDocOf
  Titles <- MCTitles
  Requests <- MCRequests
  Areas <- MCScopes
  Scores = {0, 1, 2}
  MaxBlocks = 2
  Pool = 3
  Budget = 6
  MaxQueries = 2
  MaxAttempts = 2
  Window = 2
  MaxUsage = 3
  MaxChanges = 1
  Unscoped = Unscoped
  NoAnswer = NoAnswer
  Uploads = {d1}
  Handlers = {h1, h2, h3}
  Columns = {"provider", "model"}
  Providers <- Configurations
  Settings <- ChunkSettings
  MaxWords = 3
  LibraryNone = LibraryNone
SYMMETRY HandlersAlike
CONSTRAINT Unended
INVARIANTS
  DecisionIsRight
  RankingIsFair
  ReplyIsTrue
  TextIsChunked
  FilesBehindRows
  FoundWhole
CHECK_DEADLOCK FALSE
