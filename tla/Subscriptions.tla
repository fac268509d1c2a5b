--------------------------- MODULE Subscriptions ----------------------------
(***************************************************************************)
(* Owners edit their subscriptions (apps/subscriptions/serializers.py,     *)
(* views.py, models.py) while daily_digest saves them too: the caps on     *)
(* subscriptions per owner and on accounts per target, the target key they *)
(* are counted by, and the webhook secret.                                 *)
(*                                                                         *)
(* A target stands for the delivery and its address or URL.  Every request *)
(* loads the row, works on its copy and saves it: PATCH all columns, the   *)
(* others some, and save() always writes target_key.  Locks are held until *)
(* the transaction ends.  Nothing keeps two requests from working on one   *)
(* row at the same time, each with its own copy.                           *)
(***************************************************************************)
EXTENDS Integers, FiniteSets

CONSTANTS
  Subs,         \* ids of subscriptions_subscription
  OwnerOf,      \* the owner an id is handed out to
  Targets,      \* addresses and URLs, in any spelling
  Webhooks,     \* the URLs among them
  KeyOf,        \* target_key(): what the spellings of a target have in common
  Requests,     \* API requests and digest steps, each used once
  MaxPerOwner,  \* MAX_SUBSCRIPTIONS_PER_USER
  MaxAccounts,  \* MAX_ACCOUNTS_PER_TARGET
  Nobody,       \* no request holds the lock
  NoSub,        \* no subscription yet
  NoTarget      \* no target yet

Owners == {OwnerOf[s] : s \in Subs}
Keys == {KeyOf[t] : t \in Targets}

ASSUME SubscriptionsAssumption ==
  /\ IsFiniteSet(Subs)
  /\ IsFiniteSet(Requests)
  /\ DOMAIN OwnerOf = Subs
  /\ DOMAIN KeyOf = Targets
  /\ Webhooks \subseteq Targets
  /\ MaxPerOwner \in Nat \ {0}
  /\ MaxAccounts \in Nat \ {0}
  /\ Nobody \notin Requests
  /\ NoSub \notin Subs
  /\ NoTarget \notin Targets

VARIABLES
  used,       \* ids handed out so far
  stored,     \* ids of the rows
  target,     \* delivery with webhook_url or email_to
  key,        \* target_key
  secret,     \* webhook_secret, 0 for none
  pc,         \* where each request is
  sub,        \* the subscription it works on
  was,        \* the target in its copy of the row
  want,       \* the target it is about to save
  known,      \* the secret in its copy of the row
  ownerLock,  \* SELECT ... FOR UPDATE of the user
  keyLock,    \* pg_advisory_xact_lock of the key
  secrets,    \* secrets made so far
  given,      \* history: the secrets each subscription's owner was given
  revived,    \* history: rows a PATCH inserted again after they were deleted
  stale       \* history: rows whose target or key was last written, unchecked, from a copy
              \* older than the row

rows == <<used, stored, target, key, secret>>
copies == <<sub, was, want, known>>
locks == <<ownerLock, keyLock>>
history == <<given, revived, stale>>
vars == <<rows, pc, copies, locks, secrets, history>>

Init ==
  /\ used = {}
  /\ stored = {}
  /\ target = [s \in Subs |-> NoTarget]
  /\ key = [s \in Subs |-> NoTarget]
  /\ secret = [s \in Subs |-> 0]
  /\ pc = [q \in Requests |-> "idle"]
  /\ sub = [q \in Requests |-> NoSub]
  /\ was = [q \in Requests |-> NoTarget]
  /\ want = [q \in Requests |-> NoTarget]
  /\ known = [q \in Requests |-> 0]
  /\ ownerLock = [o \in Owners |-> Nobody]
  /\ keyLock = [k \in Keys |-> Nobody]
  /\ secrets = 0
  /\ given = [s \in Subs |-> {}]
  /\ revived = {}
  /\ stale = {}

-----------------------------------------------------------------------------
Goto(q, at) == pc' = [pc EXCEPT ![q] = at]

\* Mutant: a session lock, which outlives the transaction.
Unlocked_Kept(lock, q) == lock

Unlocked(lock, q) == [x \in DOMAIN lock |-> IF lock[x] = q THEN Nobody ELSE lock[x]]

\* The transaction commits or rolls back and the request is answered.
Finish(q) ==
  /\ Goto(q, "answered")
  /\ ownerLock' = Unlocked(ownerLock, q)
  /\ keyLock' = Unlocked(keyLock, q)
  /\ sub' = [sub EXCEPT ![q] = NoSub]
  /\ was' = [was EXCEPT ![q] = NoTarget]
  /\ want' = [want EXCEPT ![q] = NoTarget]
  /\ known' = [known EXCEPT ![q] = 0]

\* Answered with 400: nothing is written.
Refuse(q) == Finish(q) /\ UNCHANGED <<rows, secrets, history>>

\* Subscription.save() computes the key from the target in the copy.
NewKey(t) == KeyOf[t]

\* Mutant: a secret is made for new subscriptions only, not on a switch to a webhook.
NeedsSecret_OnCreate(q, t) == t \in Webhooks /\ pc[q] = "insert"

\* _ensure_secret
NeedsSecret(q, t) == t \in Webhooks /\ known[q] = 0

\* Writes all columns of request q's copy of row s, with target t, and returns a secret
\* made for it.
SaveAll(q, s, t) ==
  LET fresh == NeedsSecret(q, t)
      new == IF fresh THEN secrets + 1 ELSE known[q]
  IN /\ stored' = stored \union {s}
     /\ target' = [target EXCEPT ![s] = t]
     /\ key' = [key EXCEPT ![s] = NewKey(t)]
     /\ secret' = [secret EXCEPT ![s] = new]
     /\ secrets' = IF fresh THEN secrets + 1 ELSE secrets
     /\ given' = IF fresh THEN [given EXCEPT ![s] = @ \union {new}] ELSE given

-----------------------------------------------------------------------------
(* POST /subscriptions/ *)

\* The request is validated and its transaction begins.
Post(q, s, t) ==
  /\ pc[q] = "idle"
  /\ s \notin used /\ \A p \in Requests : sub[p] # s
  /\ Goto(q, "lock_owner")
  /\ sub' = [sub EXCEPT ![q] = s]
  /\ want' = [want EXCEPT ![q] = t]
  /\ UNCHANGED <<rows, was, known, locks, secrets, history>>

LockOwner(q) ==
  LET o == OwnerOf[sub[q]] IN
  /\ pc[q] = "lock_owner"
  /\ ownerLock[o] = Nobody
  /\ ownerLock' = [ownerLock EXCEPT ![o] = q]
  /\ Goto(q, "count_own")
  /\ UNCHANGED <<rows, copies, keyLock, secrets, history>>

\* Mutant: one more than the limit is let through.
BelowOwnerCap_OneMore(o) == Cardinality({s \in stored : OwnerOf[s] = o}) <= MaxPerOwner

BelowOwnerCap(o) == Cardinality({s \in stored : OwnerOf[s] = o}) < MaxPerOwner

CountOwn(q) ==
  /\ pc[q] = "count_own"
  /\ IF BelowOwnerCap(OwnerOf[sub[q]])
     THEN Goto(q, "lock_key") /\ UNCHANGED <<rows, copies, locks, secrets, history>>
     ELSE Refuse(q)

\* Mutant: the advisory lock is not taken.
KeyIsFree_Always(k) == TRUE

KeyIsFree(k) == keyLock[k] = Nobody

\* _check_target: the lock, then the count.
LockKey(q) ==
  LET k == KeyOf[want[q]] IN
  /\ pc[q] = "lock_key"
  /\ KeyIsFree(k)
  /\ keyLock' = [keyLock EXCEPT ![k] = q]
  /\ Goto(q, "count_others")
  /\ UNCHANGED <<rows, copies, ownerLock, secrets, history>>

\* The accounts other than o that have k as target_key.
Others(o, k) == {OwnerOf[s] : s \in {x \in stored : key[x] = k}} \ {o}

CountOthers(q) ==
  /\ pc[q] = "count_others"
  /\ IF Cardinality(Others(OwnerOf[sub[q]], KeyOf[want[q]])) < MaxAccounts
     THEN Goto(q, IF sub[q] \in used THEN "save" ELSE "insert")
          /\ UNCHANGED <<rows, copies, locks, secrets, history>>
     ELSE Refuse(q)

\* The INSERT and the commit.
Insert(q) ==
  /\ pc[q] = "insert"
  /\ used' = used \union {sub[q]}
  /\ SaveAll(q, sub[q], want[q])
  /\ UNCHANGED <<revived, stale>>
  /\ Finish(q)

-----------------------------------------------------------------------------
(* PATCH, DELETE, rotate-secret and the digest *)

\* get_object(), or the digest's SELECT.
Load(q, s) ==
  /\ pc[q] = "idle"
  /\ s \in stored
  /\ sub' = [sub EXCEPT ![q] = s]
  /\ was' = [was EXCEPT ![q] = target[s]]
  /\ known' = [known EXCEPT ![q] = secret[s]]

\* update(): the target is checked only if it differs from the one in the copy.
Patch(q, s, t) ==
  /\ Load(q, s)
  /\ want' = [want EXCEPT ![q] = t]
  /\ Goto(q, IF t = target[s] THEN "save" ELSE "lock_key")
  /\ UNCHANGED <<rows, locks, secrets, history>>

\* _check_target has let the target through, and its key is still locked.
Checked(q) == keyLock[KeyOf[want[q]]] = q

\* The row is as request q has loaded it, as far as the target goes.
SameRow(q) == sub[q] \in stored /\ target[sub[q]] = was[q]

\* save() updates the row, or inserts it again if it is gone, and the transaction commits.
SavePatch(q) ==
  LET s == sub[q] IN
  /\ pc[q] = "save"
  /\ SaveAll(q, s, want[q])
  /\ revived' = IF s \in stored THEN revived ELSE revived \union {s}
  /\ stale' = IF Checked(q) THEN stale \ {s}
              ELSE IF SameRow(q) THEN stale
              ELSE stale \union {s}
  /\ UNCHANGED used
  /\ Finish(q)

\* rotate-secret loads a webhook subscription; the digest loads any.
StartRotate(q, s) ==
  /\ Load(q, s)
  /\ target[s] \in Webhooks
  /\ Goto(q, "rotate")
  /\ UNCHANGED <<rows, want, locks, secrets, history>>

StartDigest(q, s) ==
  /\ Load(q, s)
  /\ Goto(q, "digest")
  /\ UNCHANGED <<rows, want, locks, secrets, history>>

\* save(update_fields=["webhook_secret"]): a row that is gone is an error.
Rotate(q) ==
  LET s == sub[q] IN
  /\ pc[q] = "rotate"
  /\ IF s \in stored
     THEN /\ secrets' = secrets + 1
          /\ secret' = [secret EXCEPT ![s] = secrets + 1]
          /\ key' = [key EXCEPT ![s] = NewKey(was[q])]
          /\ given' = [given EXCEPT ![s] = @ \union {secrets + 1}]
     ELSE UNCHANGED <<secrets, secret, key, given>>
  /\ stale' = IF s \in stored /\ ~SameRow(q) THEN stale \union {s} ELSE stale
  /\ UNCHANGED <<used, stored, target, revived>>
  /\ Finish(q)

\* save(update_fields=["last_notified_at"])
SaveDigest(q) ==
  LET s == sub[q] IN
  /\ pc[q] = "digest"
  /\ key' = IF s \in stored THEN [key EXCEPT ![s] = NewKey(was[q])] ELSE key
  /\ stale' = IF s \in stored /\ ~SameRow(q) THEN stale \union {s} ELSE stale
  /\ UNCHANGED <<used, stored, target, secret, secrets, given, revived>>
  /\ Finish(q)

Delete(q, s) ==
  /\ pc[q] = "idle"
  /\ s \in stored
  /\ stored' = stored \ {s}
  /\ Goto(q, "answered")
  /\ UNCHANGED <<used, target, key, secret, copies, locks, secrets, history>>

\* Nothing is in flight, and no further request needs to come.
Done ==
  /\ \A q \in Requests : pc[q] \in {"idle", "answered"}
  /\ UNCHANGED vars

Next ==
  \/ \E q \in Requests :
       \/ LockOwner(q) \/ CountOwn(q) \/ LockKey(q) \/ CountOthers(q) \/ Insert(q)
       \/ SavePatch(q) \/ Rotate(q) \/ SaveDigest(q)
       \/ \E s \in Subs, t \in Targets : Post(q, s, t) \/ Patch(q, s, t)
       \/ \E s \in Subs : StartRotate(q, s) \/ StartDigest(q, s) \/ Delete(q, s)
  \/ Done

Spec == Init /\ [][Next]_vars

-----------------------------------------------------------------------------
(* Properties *)

States == {"idle", "lock_owner", "count_own", "lock_key", "count_others", "insert", "save",
           "rotate", "digest", "answered"}

\* Rows, copies and locks hold what they can hold; a request that waits for nothing holds no
\* lock.
TypeOK ==
  /\ stored \subseteq used /\ used \subseteq Subs
  /\ target \in [Subs -> Targets \union {NoTarget}]
  /\ key \in [Subs -> Keys \union {NoTarget}]
  /\ secrets \in 0..Cardinality(Requests)
  /\ secret \in [Subs -> 0..secrets]
  /\ given \in [Subs -> SUBSET (1..secrets)]
  /\ revived \subseteq used /\ stale \subseteq used
  /\ pc \in [Requests -> States]
  /\ sub \in [Requests -> Subs \union {NoSub}]
  /\ was \in [Requests -> Targets \union {NoTarget}]
  /\ want \in [Requests -> Targets \union {NoTarget}]
  /\ known \in [Requests -> 0..secrets]
  /\ ownerLock \in [Owners -> Requests \union {Nobody}]
  /\ keyLock \in [Keys -> Requests \union {Nobody}]
  /\ \A o \in Owners : ownerLock[o] # Nobody => pc[ownerLock[o]] \notin {"idle", "answered"}
  /\ \A k \in Keys : keyLock[k] # Nobody => pc[keyLock[k]] \in {"count_others", "insert", "save"}

\* The subscriptions of owner o among the rows in set, and the accounts that use key k.
OwnedIn(set, o) == {s \in set : OwnerOf[s] = o}
AccountsIn(set, k) == {OwnerOf[s] : s \in {x \in set : KeyOf[target[x]] = k}}

\* However many requests are in flight, only rows that the save of a PATCH inserted again, after
\* they had been deleted under it, take an owner above the limit of create() in serializers.py.
OwnerCapButRevived ==
  \A o \in Owners : Cardinality(OwnedIn(stored \ revived, o)) <= MaxPerOwner

\* However many requests of however many accounts are in flight, and in whatever spellings they
\* write a target, only rows that were written back from a copy older than the row, without the
\* check of _check_target, take a target above MAX_ACCOUNTS_PER_TARGET accounts.
TargetCapButStale ==
  \A k \in Keys : Cardinality(AccountsIn(stored \ stale, k)) <= MaxAccounts

\* docs/THREAT_MODEL.md: a webhook subscription without a secret is "only possible by editing the
\* database".  However stale the copies that are saved, a webhook is signed with a secret its
\* owner was given in the answer that made it (create, switch to webhook, rotate-secret).
WebhookHasSecret == \A s \in stored : target[s] \in Webhooks => secret[s] \in given[s]

(* What the documentation says of the code, and overlapping requests refute *)

\* docs/GETTING_STARTED.md: each user can keep up to MAX_SUBSCRIPTIONS_PER_USER subscriptions.
OwnerCap == \A o \in Owners : Cardinality(OwnedIn(stored, o)) <= MaxPerOwner

\* docs/GETTING_STARTED.md: one email address or webhook URL can be used by at most
\* MAX_ACCOUNTS_PER_TARGET accounts.
TargetCap == \A k \in Keys : Cardinality(AccountsIn(stored, k)) <= MaxAccounts

\* models.py: target_key is kept in sync by save().
KeyInSync == \A s \in stored : key[s] = KeyOf[target[s]]

\* docs/GETTING_STARTED.md: a lost or leaked secret is replaced by a new one with rotate-secret.  So
\* a webhook is signed with the secret its owner was given last.
OwnerHasSecret ==
  \A s \in stored : target[s] \in Webhooks => \A n \in given[s] : n <= secret[s]
====
