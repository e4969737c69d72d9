SPECIFICATION Spec
CONSTANTS
  Byte <- Bytes
  Marker <- RiskMarker
  Leads <- LeadBytes
  Drops <- Controls
  Letters <- TagLetters
  Texts <- AllAnswers
  Conforming <- Demanded
INVARIANTS
  CutAtMarker
  Timely
  TerminalSound
  PathsAgree
