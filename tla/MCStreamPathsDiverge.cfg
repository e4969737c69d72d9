SPECIFICATION Spec
CONSTANTS
  Byte <- Bytes
  Marker <- RiskMarker
  Leads <- LeadBytes
  Drops <- Controls
  Letters <- TagLetters
  Texts <- Quoting
  Conforming = {}
INVARIANTS
  PathsNeverDiverge
