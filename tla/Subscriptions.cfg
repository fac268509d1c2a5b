SPECIFICATION Spec
CONSTANTS
  Subs = {s1, s2, s3}
  Requests = {q1, q2, q3, q4, q5}
  Targets = {hook, hookVariant, email}
  Webhooks = {hook, hookVariant}
  MaxPerOwner = 1
  MaxAccounts = 1
  OwnerOf <- OwnOne
  KeyOf <- OneKey
  s1 = s1
  s2 = s2
  s3 = s3
  o1 = o1
  o2 = o2
  hook = hook
  hookVariant = hookVariant
  email = email
  Nobody = Nobody
  NoSub = NoSub
  NoTarget = NoTarget
SYMMETRY RequestSymmetry
INVARIANTS TypeOK OwnerCapButRevived TargetCapButStale WebhookHasSecret
