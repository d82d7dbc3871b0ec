\* Two notes with links to one that is judged to be the same as another.
SPECIFICATION Spec
CONSTANTS
  Past = {"late"}
  ValidDates = {"late"}
  SafeValues = {"ann", "bob", "on", "p", "q"}
  Required <- MCRequired
  Meant <- MCMeant
  Rationales = {"why"}
  Duplicates <- MCDuplicates
  MaxPrepared = 5
  MaxItems = 20
  MaxSuffix = 3
  Vaults <- MCLinked
  Edits <- MCEdits
  Nothing = Nothing
  Targets = {"p"}
  MaxScans = 2
  MaxEdits = 1
  MaxRounds = 2
CHECK_DEADLOCK FALSE
INVARIANT WholeOfferCanBeApplied
