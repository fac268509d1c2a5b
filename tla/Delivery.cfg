\* The lease outlasts the time limit, as configured; two messages for one pair.
SPECIFICATION Spec
CONSTANTS
  s1 = s1
  a1 = a1
  t1 = t1
  t2 = t2
  Subs = {s1}
  Arts = {a1}
  Tasks = {t1, t2}
  PairOf <- OnePair
  Lease = 3
  TimeLimit = 2
  MaxRetries = 1
  Backoff = 1
  BackoffCap = 2
  MaxCrashes = 1
SYMMETRY MessageSymmetry
INVARIANT OneSender
INVARIANT HolderKeepsLease
INVARIANT NoDuplicateWithoutLoss
PROPERTY ImplementsOutbox
CHECK_DEADLOCK FALSE
