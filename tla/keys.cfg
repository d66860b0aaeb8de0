SPECIFICATION FairSpec
CONSTANTS
  k1 = k1
  k2 = k2
  Users = {u1, u2}
  Coins = {1, 2}
  Keys = {k1, k2}
  Updates <- FewUpdates
  Family <- OneFamily
  Handlers = {h1, h2}
  MaxMinor = 1
  MaxRequests = 4
  None = None
INVARIANTS TypeOK KeyIsOwn DerivedIsNew
PROPERTIES AcceptedKeysAreUsed RequestsEnd
CHECK_DEADLOCK FALSE
