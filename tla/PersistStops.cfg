\* Repairs of two notes, cut off at any point by a crash or a reload, and the
\* repair of what they left.
SPECIFICATION PersistSpec
CONSTANTS
  p1 = p1  p2 = p2
  n1 = n1  n2 = n2
  c1 = c1  c2 = c2
  t1 = t1  t2 = t2
  Proposals = {p1, p2}
  Notes = {n1, n2}
  Calls = {c1, c2}
  Texts = {t1}
  Operations <- MCOperations
  Finding <- MCFinding
  Scan <- MCScan
  Batches <- MCBatches
  EntryPoints = {"batch"}
  MaxBatch = 1
  MaxEdits = 1
  Unread = Unread
  Stops = {"crash", "reload"}
  MaxStops = 1
  MaxWrites = 2
SYMMETRY Symmetry
CHECK_DEADLOCK FALSE
INVARIANTS
  PersistTypeOK
  NoDoubleRepair
  AtRestRecorded
  DiskAppliedIsWhole
