CONSTANTS
  c1 = c1
  c2 = c2
  c3 = c3
  Drainer = Drainer
  NoData = 0
  Clients = {c1, c2}
  SyncMode = "flush"
  Faults = {"write", "open"}
  Tearing = FALSE
  CrashKinds = {"process"}
  BatchSizes = {1, 2}
  MaxBatches = 3
  MaxTruncates = 1
  MaxCrashes = 1
SPECIFICATION Spec
INVARIANT AckedReadable
PROPERTY PromisesKept
CHECK_DEADLOCK FALSE
