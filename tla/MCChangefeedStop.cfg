CONSTANTS
  Subs = {s1}
  Tables = {t1}
  AnyTable = AnyTable
  Patterns = {AnyTable}
  DeliveryThreads = 1
  MaxLagEntries = 2
  MaxEvents = 1
  MaxStarts = 1
SPECIFICATION Spec
PROPERTY StopReturns
CHECK_DEADLOCK FALSE
