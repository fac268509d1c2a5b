\* An entry becomes an article, gets its tags and is fanned out.
SPECIFICATION Spec
CONSTANTS
  tag = tag
  any = any
  both = both
  s1 = s1
  s2 = s2
  en = en
  fr = fr
  Texts <- MCTexts
  Ids = {i1}
  Tags = {tag}
  Rules = {r1}
  Forms <- MCForms
  Keywords = {any, both}
  Languages = {en, fr}
  AnyLanguage = AnyLanguage
  Subs = {s1, s2}
  TagIds <- MCTagIds
  Msgs = {m1, m2}
  MaxEdits = 1
  MaxRestarts = 1
  Guids = {g1}
  NoGuid = NoGuid
  Hashes = {h1}
  Tasks = {t1}
  BadEntry = BadEntry
  NoArticle = NoArticle
  MaxCrashes = 1
INVARIANTS TagTypeOK TagsAreCalledFor FilteredOnNewTagsIsQueued
PROPERTY StoredIsFannedOut
CHECK_DEADLOCK FALSE
