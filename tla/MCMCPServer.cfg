SPECIFICATION FairSpec
CONSTANTS
  id1 = id1
  id2 = id2
  review = review
  Ids = {id1, id2}
  AbsentId = AbsentId
  NullId = NullId
  Tools = {review}
  NoTool = NoTool
  OtherTool = OtherTool
  Lines <- ClientLines
  MaxLines = 3
INVARIANTS
  Conversation
  EndOfInput
PROPERTIES
  CancelStops
  EveryRequestAnswered
