SPECIFICATION RecoverySpec
CONSTANTS
  Invoices = {i1, i2}
  Tokens = {}
  Addresses = {a1}
  Txs = {t1, t2}
  Workers = {w1}
  Pays <- OnePays
  Rejectable <- Txs
  Faults <- FaultKinds
  MaxCrashes = 2
  MaxKeyUpdates = 1
  None = None
CHECK_DEADLOCK FALSE
INVARIANTS WatchedHasTimer ResolvedNotWatched ConfirmedWasPaid
PROPERTIES NoFlipWithoutReuse
