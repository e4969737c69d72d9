SPECIFICATION FairSpec
CONSTANTS
  Commits <- Some
  Anc <- Ancestors
  Requests <- AllRequests
  Indexes <- StagedFiles
  Shapings <- SomeShapings
  Clones <- Repositories
  Origins <- Pushes
  ForkTips <- Elsewhere
  MaxMoves = 2
INVARIANTS
  Outcome
  SentIsAllowed
  StatsAgree
PROPERTIES
  KeepsContract
  SourceEnds
CHECK_DEADLOCK FALSE
