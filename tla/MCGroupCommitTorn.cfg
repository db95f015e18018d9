CONSTANTS
  c1 = c1
  c2 = c2
  c3 = c3
  Drainer = Drainer
  NoData = 0
  Clients = {c1, c2}
  SyncMode = "flush"
  Faults = {}
  Tearing = TRUE
  CrashKinds = {"process"}
  BatchSizes = {1, 2}
  MaxBatches = 2
  MaxTruncates = 1
  MaxCrashes = 1
SPECIFICATION Spec
INVARIANT AckedReadable
CHECK_DEADLOCK FALSE
