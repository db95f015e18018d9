CONSTANTS
  m = m
  c1 = c1
  c2 = c2
  t1 = t1
  k1 = k1
  k2 = k2
  v1 = v1
  v2 = v2
  Drainer = Drainer
  NoData = NoData
  Absent = Absent
  NoTable = NoTable
  NoSnapshot = NoSnapshot
  Main = m
  Clients = {m, c1}
  Tables = {t1}
  Keys = {k1, k2}
  Values = {v1, v2}
  JsonLossy = {}
  Degraded = v1
  BootTables = {t1}
  Workloads <- MCCommitsOnly
  SyncMode = "flush"
  Faults = {}
  Tearing = FALSE
  Admitted = {}
  CrashKinds = {"process"}
  MaxCommits = 2
SPECIFICATION Spec
INVARIANT PublishOrder
CHECK_DEADLOCK FALSE
