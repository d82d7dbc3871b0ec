\* Two notes and three paths; changes, a repair and a failure at any point of
\* the scans.
SPECIFICATION FairSpec
CONSTANTS
  Files = {f1, f2}
  Paths = {a, b, c}
  None = None
  MaxChanges = 2
  MaxFailures = 1
CHECK_DEADLOCK FALSE
INVARIANTS
  ScanTypeOK
  NothingMissed
  PathsUnambiguous
  ReindexedIsFresh
PROPERTY CatchesUp
