CONSTANTS
  Subs = {s1, s2}
  Tables = {t1}
  AnyTable = AnyTable
  Patterns = {AnyTable, t2}
  DeliveryThreads = 2
  MaxLagEntries = 2
  MaxEvents = 3
  MaxStarts = 2
SPECIFICATION Spec
INVARIANTS TypeOK DeliveredInOrder NoGap OffsetTracksDelivery HistoryIsSuffix
SYMMETRY Symmetry
CHECK_DEADLOCK FALSE
