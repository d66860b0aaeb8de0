SPECIFICATION FairSpec
CONSTANTS
  Txs = {t1, t2}
  MaxEntries = 2
  Faults = {"list", "fetch", "timeout"}
INVARIANTS TypeOK OncePerStay
PROPERTY NewTxSent
