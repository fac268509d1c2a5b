\* A crash between the claim and the publication.
SPECIFICATION Spec
CONSTANTS
  Guids = {g1, g2}
  NoGuid = NoGuid
  Hashes = {h1, h2}
  Ids = {i1, i2, i3}
  Tasks = {t1}
  BadEntry = BadEntry
  NoArticle = NoArticle
  MaxCrashes = 1
INVARIANT DoneIsQueued
CHECK_DEADLOCK FALSE
