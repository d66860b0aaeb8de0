SPECIFICATION FairSpec
CONSTANTS
  Invoices = {i1, i2}
  Tokens = {}
  Addresses = {a1}
  Txs = {t1}
  Workers = {w1, w2}
  Pays <- AllPay
  Rejectable = {}
  Faults = {}
  None = None
CHECK_DEADLOCK FALSE
PROPERTY InvoiceResolves
