SPECIFICATION FairAppSpec
CONSTANTS
  Streams = {s1}
  Requests = {r1}
  Tasks = {t1, t2}
  Health = health
  PoolSize = 2
  MaxOutages = 1
INVARIANTS AppTypeOK NoLeak AnsweredIsStored
PROPERTIES RequestsEnd ShutdownEnds HealthTold
CHECK_DEADLOCK FALSE
