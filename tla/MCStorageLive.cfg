CONSTANTS
  m = m
  c1 = c1
  c2 = c2
  t1 = t1
  k1 = k1
  k2 = k2
  v1 = v1
  v2 = v2
  Drainer = Drainer
  NoData = NoData
  Absent = Absent
  NoTable = NoTable
  NoSnapshot = NoSnapshot
  Main = m
  Clients = {m}
  Tables = {t1}
  Keys = {k1}
  Values = {v1, v2}
  JsonLossy = {}
  Degraded = v1
  BootTables = {t1}
  Workloads <- MCOneOfEach
  SyncMode = "fsync"
  Faults = {"sync", "snapshot"}
  Tearing = FALSE
  Admitted = {}
  CrashKinds = {"process", "power"}
  MaxCommits = 2
SPECIFICATION Spec
INVARIANT TypeOK
PROPERTY CallsReturn
CHECK_DEADLOCK FALSE
