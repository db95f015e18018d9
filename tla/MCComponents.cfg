\* One component at a time: a byte stream, a table, or a call of an algorithm.
CONSTANTS
  Base = 4
  Short = 2
  LongBytes = 3
  MaskBytes = 4
  BitXor <- MCXor
  Traffic <- MCTraffic
  MaxPending = 24
  Chunks = {1, 2, 5, 9}
  r1 = r1
  r2 = r2
  w1 = w1
  Readers = {r1, r2}
  Writers = {w1}
  RowKeys <- MCRowKeys
  Byte = 3
  Scans <- MCScans
  Tombstone = Tombstone
  MaxWrites = 5
  Calls <- MCCalls
  Int64Bound = 1000
  Characters <- MCCharacters
  Clauses <- MCClauses
  Rows <- MCRows
  Pending = Pending
SPECIFICATION Spec
CHECK_DEADLOCK FALSE
INVARIANTS
  FramesDelivered
  ServerFramesParse
  CacheFresh
  ScanComplete
  RecordsRoundTrip
  EventSurvives
  ParsesByPrecedence
  NullsCollapsed
  LikeMatches
  ValuesSurvive
  VersionsOrdered
