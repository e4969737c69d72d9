SPECIFICATION Spec
CONSTANTS
  Commits <- Some
  AuthorOf <- Authors
  PrefixOf <- Prefixed
  ChangesOf <- Changes
  Names <- InOrder
  TopFilesLimit = 2
  Heights <- Terminals
  Anc <- Ancestors
  Recent <- Newer
  Requests <- SomeRequests
  Abs <- Absolute
  RepoAt <- Disk
  Histories <- SomeHistories
  Heads <- Tips
  TrendRows <- Rows
  MaxMoves = 2
INVARIANTS
  ReportSound
  LinesMatch
  ViewInBounds
PROPERTIES
  NoLineSkipped
  ReachesEnd
CHECK_DEADLOCK FALSE
