SPECIFICATION FairSpec
CONSTANTS
  p1 = p1
  p2 = p2
  Procs = {p1, p2}
  Configs <- Pairs
  Answers <- TwoAnswers
  MaxRetries = 1
INVARIANTS
  OneReview
  SpendsRight
PROPERTIES
  KeepsContract
  Ends
