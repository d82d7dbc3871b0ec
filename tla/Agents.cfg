\* Two scans of three vaults by a local and a cloud model that answer anything
\* or nothing, with edits, other settings and another day at any moment.
SPECIFICATION GovernedSpec
CONSTANTS
  o1 = o1
  h1 = h1
  x1 = x1
  Configs = {o1, h1, x1}
  Valid = {o1, h1}
  Default = o1
  Kind <- MCKind
  Vaults <- MCVaults
  Texts <- MCTexts
  Policy <- MCPolicy
  Required <- MCRequired
  EvidenceLines = 2
  MaxEntries = 2
  StaleAfter = 2
  MaxDay = 2
  MaxScans = 2
  MaxSettings = 1
  MaxEdits = 1
CHECK_DEADLOCK FALSE
INVARIANTS
  AnalysisOwned
  FindingsGrounded
  
  
PROPERTY ScanEnds
