SPECIFICATION Spec
CONSTANTS
  Invoices = {i1, i2}
  Tokens = {i2}
  Addresses = {a1, a2}
  Txs = {t1}
  Workers = {w1, w2}
  Pays <- AllPay
  Rejectable <- Txs
  Faults <- StatementFaults
  None = None
SYMMETRY Symmetry
CHECK_DEADLOCK FALSE
INVARIANTS TypeOK OneClaim ConfirmedCreditsOneTx
PROPERTIES NoFlipWithoutReuse ImplementsLease
