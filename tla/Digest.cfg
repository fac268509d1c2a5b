\* Two digests that may overlap, two articles, one PATCH, one crash.
SPECIFICATION Spec
CONSTANTS
  Subs = {s1}
  Arts = {a1, a2}
  Runs = {d1, d2}
  Requests = {r1}
  Null = Null
  Day = 2
  Limit = 1
  MaxTime = 4
  MaxCrashes = 1
SYMMETRY RowSymmetry
INVARIANT TypeOK
INVARIANT MissedOnlyIfLate
CHECK_DEADLOCK FALSE
