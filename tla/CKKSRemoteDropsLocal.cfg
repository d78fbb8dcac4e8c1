SPECIFICATION CKSpec
CONSTANTS
  Item = {1}
  Value = {v1, v2}
  NoValue = NoValue
  NoEntry = NoEntry
  NoUpload = NoUpload
  NoFetch = NoFetch
  OutgoingItemsAtOnce = 2
  IncomingItemsAtOnce = 1
  MaxEdits = 2
  MaxRemote = 1
  MaxFailures = 1
INVARIANTS RemoteChangeDropsLocal
CHECK_DEADLOCK FALSE
