\* Prepared batches: two calls over three proposals of one scan and two notes.  No
\* symmetry: it is not sound for liveness.  The notes start from one text.
SPECIFICATION FromOneText
CONSTANTS
  p1 = p1  p2 = p2  p3 = p3
  n1 = n1  n2 = n2
  c1 = c1  c2 = c2
  t1 = t1  t2 = t2
  Proposals = {p1, p2, p3}
  Notes = {n1, n2}
  Calls = {c1, c2}
  Texts = {t1, t2}
  Operations <- MCOperations
  Finding <- MCFinding
  Scan <- MCScan
  Batches <- MCBatches
  EntryPoints = {"batch"}
  MaxBatch = 2
  MaxEdits = 1
  Unread = Unread
CHECK_DEADLOCK FALSE
INVARIANTS
  WorkflowInv
  NothingLeftBehind
  AppliedIsWhole
  SpliceNeverThrows
PROPERTIES
  CallsEnd
  KeepsLedger
