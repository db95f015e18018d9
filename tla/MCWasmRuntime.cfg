CONSTANTS
  h1 = h1
  h2 = h2
  w1 = w1
  c1 = c1
  subs = subs
  main1 = main1
  m = m
  a = a
  Actors <- MCActors
  Names = {m}
  Tables = {a}
  Keys = {1, 2}
  NoTable = NoTable
  NoRow = NoRow
  CellOrder <- MCCellOrder
  Guest <- MCGuest
  Reserved <- MCReserved
  MaxObjects = 2
  Clients = {c1}
  SubThread = subs
  Requests <- MCRequests
  MaxWasmSubs = 1
  Handlers = {h1, h2}
  Workers = {w1}
  Main = main1
  Deployments <- MCDeployments
  Ticked = {m}
  Installed <- MCInstalled
  NoFile = NoFile
  NoName = NoName
  MaxWork = 3
SPECIFICATION Spec
SYMMETRY Symmetry
CHECK_DEADLOCK FALSE
INVARIANTS
  Serialized
  FailedCallsSilent
  TickCoalesced
  DeployedPairs
  QuietBeforeEngineGoes
  EveryEventEmitted
PROPERTY SilentAfterDisconnect
