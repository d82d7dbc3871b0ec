\* Two scans of two findings of one place, failing at any
\* statement, with deletions, two retention periods and a clock set back once.
SPECIFICATION StoreSpec
CONSTANTS
  Findings = {1, 2}
  Place <- MCPlace
  Traceable = {1, 2}
  Days = {1, 2}
  MaxScans = 2
  MaxTime = 3
  MaxSetBacks = 1
CHECK_DEADLOCK FALSE
INVARIANTS
  
  ViewsAgree
  RetentionKept
PROPERTY ViewStands
