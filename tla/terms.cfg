SPECIFICATION FairSpec
CONSTANTS
  Half16 = 4
  Mod32 = 16
  Mod64 = 32
  Second = 2
  MinSyncTimeout = 3
  Configured = {"XMR", "BTC", "ETH", "BNB"}
  Requests <- MCRequests
  Payments <- MCPayments
  MaxHeight = 3
  MaxReorgs = 1
  MaxFailures = 1
  None = None
INVARIANTS TypeOK ToldAsAsked OnItsChain CreditedIsPaid
PROPERTIES ConfirmedIsBuried EnoughIsSeen DeepIsConfirmed
CHECK_DEADLOCK FALSE
