\* A time limit set above the lease, so that attempts may overlap; fair workers and time.
SPECIFICATION FairSpec
CONSTANTS
  s1 = s1
  a1 = a1
  t1 = t1
  t2 = t2
  Subs = {s1}
  Arts = {a1}
  Tasks = {t1, t2}
  PairOf <- OnePair
  Lease = 2
  TimeLimit = 2
  MaxRetries = 1
  Backoff = 1
  BackoffCap = 2
  MaxCrashes = 0
PROPERTY DeliveredIsFinal
PROPERTY AttemptsRunOut
PROPERTY EveryTaskEnds
CHECK_DEADLOCK FALSE
