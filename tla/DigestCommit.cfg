\* An INSERT that commits after the digest has looked; no crash, no PATCH.
SPECIFICATION Spec
CONSTANTS
  Subs = {s1}
  Arts = {a1, a2}
  Runs = {d1}
  Requests = {}
  Null = Null
  Day = 2
  Limit = 1
  MaxTime = 5
  MaxCrashes = 0
INVARIANT NotNeither
CHECK_DEADLOCK FALSE
