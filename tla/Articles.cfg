\* Three messages, two guids or none, two contents, one crash.
SPECIFICATION Spec
CONSTANTS
  Guids = {g1, g2}
  NoGuid = NoGuid
  Hashes = {h1, h2}
  Ids = {i1, i2, i3}
  Tasks = {t1, t2, t3}
  BadEntry = BadEntry
  NoArticle = NoArticle
  MaxCrashes = 1
SYMMETRY KeySymmetry
 
INVARIANT AnnouncedOnce
INVARIANT OneClaimer
INVARIANT ClaimedOrOrphaned
INVARIANT StoredIsInHand
CHECK_DEADLOCK FALSE
