SPECIFICATION Spec
CONSTANTS
  ShortLen = 1
  Lower <- LowerMC
  Scenarios <- ScenariosMC
  Incoming <- IncomingMC
  Answers <- AnswersMC
  Junk <- JunkMC
  Estimate = 20
  MaxRuns = 2
  MaxMoves = 1
INVARIANTS
  LinesAreCommits
  MarksAgree
  SpendsAndShows
  SettingsSound
CHECK_DEADLOCK FALSE
