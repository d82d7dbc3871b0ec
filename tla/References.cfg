SPECIFICATION Spec
CONSTANTS
  PathOrder <- MCPathOrder
  AnchorOrder <- MCAnchorOrder
  Tokens <- MCTokens
  NewNotes <- MCNewNotes
  Bodies <- MCBodies
  Vaults <- MCVaults
  Typed <- MCTyped
  Duplicates <- MCDuplicates
  HeaderLines = 1
  MaxCandidates = 2
  MaxOperations = 3
  MaxChanges = 2
  MaxScans = 2
  MaxRepairs = 1
CHECK_DEADLOCK FALSE
INVARIANTS VerifiedIsMoved 
  
