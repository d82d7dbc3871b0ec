\* The workspace while a scheduled scan may complete and a note may change.
SPECIFICATION FairSpec
CONSTANTS
  Past = {"late"}
  ValidDates = {"late"}
  SafeValues = {"ann", "bob", "on", "p", "q"}
  Required <- MCRequired
  Meant <- MCMeant
  Rationales = {"why"}
  Duplicates <- MCDuplicates
  MaxPrepared = 5
  MaxItems = 20
  MaxSuffix = 3
  Vaults <- MCVaults
  Edits <- MCEdits
  Nothing = Nothing
  Targets = {"p"}
  MaxScans = 2
  MaxEdits = 1
  MaxRounds = 2
CHECK_DEADLOCK FALSE
INVARIANTS
  ShownIsWritten
  OfferedFromOneScan
PROPERTIES
  EveryPressEnds
