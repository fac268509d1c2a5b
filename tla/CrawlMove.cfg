SPECIFICATION Spec
CONSTANTS
  Feeds = {f1, f2}
  Urls = {u1, u2}
  Tasks = {t1}
  Rounds = {b1}
  Requests = {q1}
  NewUrls = {u1}
  MovedTo <- Moving
  Intervals = {1}
  MaxErrors = 1
  Pause = 1
  MinGap = 1
  TimeLimit = 1
  Validators = {"etag"}
  MaxEntries = 1
  SizeOf <- Shrinking
  MaxVersion = 1
  MaxCrashes = 0
  HostOf <- OneHost
  h1 = h1
  NoUrl = NoUrl
  NoFeed = NoFeed
SYMMETRY FeedSymmetry
INVARIANTS TypeOK ValidatorIsQueued
PROPERTY StaffDecides
