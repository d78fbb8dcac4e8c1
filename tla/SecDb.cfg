SPECIFICATION SecDbFairSpec
CONSTANTS
  c1 = c1
  c2 = c2
  k1 = k1
  k2 = k2
  k3 = k3
  Client = {c1, c2}
  NoClient = NoClient
  Conn = {k1, k2, k3}
  NoConn = NoConn
  MaxReaders = 1
  MaxIdleHandles = 2
  AllowRepair = TRUE
  MaxTx = 1
  MaxEvents = 2
INVARIANTS SecDbTypeOK OneWriter ReturnedFindsRoom PooledIsClean AnnouncementsTrue CommittedWasAnnounced
PROPERTIES DeletionWasAskedFor EveryCallReturns
