SPECIFICATION FairSpec
CONSTANTS
  Feeds = {f1}
  Urls = {u1}
  Tasks = {t1, t2}
  Rounds = {b1}
  Requests = {}
  NewUrls = {}
  MovedTo <- Staying
  Intervals = {1}
  MaxErrors = 1
  Pause = 2
  MinGap = 1
  TimeLimit = 1
  Validators = {"etag"}
  MaxEntries = 1
  SizeOf <- Short
  MaxVersion = 2
  MaxCrashes = 1
  HostOf <- OneHost
  h1 = h1
  NoUrl = NoUrl
  NoFeed = NoFeed
INVARIANT ValidatorIsQueued
PROPERTY KeepsBeingQueued
