\* Proposals reviewed and applied one at a time, with abort signals.
SPECIFICATION Spec
CONSTANTS
  p1 = p1  p2 = p2  p3 = p3
  n1 = n1  n2 = n2
  c1 = c1  c2 = c2
  t1 = t1  t2 = t2
  Proposals = {p1, p2}
  Notes = {n1, n2}
  Calls = {c1, c2}
  Texts = {t1, t2}
  Operations <- MCOperations
  Finding <- MCFinding
  Scan <- MCScan
  Batches <- MCBatches
  EntryPoints = {"act", "apply", "signal"}
  MaxBatch = 2
  MaxEdits = 2
  Unread = Unread
SYMMETRY Symmetry
CHECK_DEADLOCK FALSE
INVARIANTS
  UserTextKept
  OneOwner
  ApprovalPrecedesWrite
  TrailMatchesStatus
PROPERTY DecidedForGood
