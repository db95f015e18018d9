CONSTANTS
  c1 = c1
  c2 = c2
  c3 = c3
  Drainer = Drainer
  NoData = 0
  Clients = {c1, c2}
  SyncMode = "fsync"
  Faults = {"write", "sync", "open", "magic"}
  Tearing = TRUE
  CrashKinds = {"process", "power"}
  BatchSizes = {1, 2}
  MaxBatches = 2
  MaxTruncates = 1
  MaxCrashes = 2
SPECIFICATION Spec
SYMMETRY MCSymmetry
INVARIANTS TypeOK SequenceOrder AckedOnDisk
CHECK_DEADLOCK FALSE
