SPECIFICATION FairSpec
CONSTANTS
  Invoices = {i1}
  Tokens = {}
  Addresses = {a1}
  Txs = {t1}
  Workers = {w1, w2}
  Pays <- AllPay
  Rejectable <- Txs
  Faults = {}
  None = None
CHECK_DEADLOCK FALSE
PROPERTY InvoiceResolves
