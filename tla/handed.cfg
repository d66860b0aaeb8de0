SPECIFICATION RecoverySpec
CONSTANTS
  Invoices = {i1, i2}
  Tokens = {}
  Addresses = {a1}
  Txs = {t1}
  Workers = {w1}
  Pays <- AllPay
  Rejectable = {}
  Faults = {}
  MaxCrashes = 1
  MaxKeyUpdates = 0
  None = None
CHECK_DEADLOCK FALSE
PROPERTY ReturnedIsWatched
