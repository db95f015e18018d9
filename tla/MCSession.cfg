SPECIFICATION Spec
CONSTANTS
  Callers = {g1}
  Tables = {"t", "u"}
  Stored <- MCStored
  Keys = {"k"}
  Columns = {"a", "A"}
  Vals = {1, 2}
  Upper <- MCUpper
  Batches <- MCBatches
  NoRow = NoRow
  NoTable = NoTable
  MaxCalls = 1
  Conns = {c1, c2}
  Fds = {f1, f2}
  Nobody = Nobody
  Queries <- MCQueries
  Reductions <- MCReductions
  NoWhere = NoWhere
  Evaluate <- MCEvaluate
  MaxSubs = 2
  MaxRequests = 2
INVARIANTS IndexesAgree NothingLeftBehind EventsInOrder NoMissedChange OneEventPerCommit
SYMMETRY Symmetry
CHECK_DEADLOCK FALSE
