SPECIFICATION FairRecoverySpec
CONSTANTS
  Invoices = {i1}
  Tokens = {}
  Addresses = {a1}
  Txs = {t1, t2}
  Workers = {w1, w2}
  Pays <- AllPay
  Rejectable = {}
  Faults = {}
  MaxCrashes = 2
  MaxKeyUpdates = 1
  None = None
CHECK_DEADLOCK FALSE
PROPERTIES InvoiceResolves WatchEnds AddressReleased
