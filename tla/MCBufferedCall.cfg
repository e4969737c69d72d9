SPECIFICATION FairSpec
CONSTANTS
  Settings <- RetrySettings
  BackoffBase = 5
  BackoffMax = 12
  WordBits = 7
  Statuses = {404, 429, 503}
  Texts <- AnswerTexts
  Bodies <- Answered
INVARIANTS
  CallSound
  CleanReport
PROPERTIES
  Ends
CHECK_DEADLOCK FALSE
