------------------------ MODULE SubscriptionsProofs -------------------------
(***************************************************************************)
(* Proofs about module Subscriptions, for any number of owners, targets    *)
(* and requests, and any caps.                                             *)
(***************************************************************************)
EXTENDS Subscriptions, FiniteSetTheorems, TLAPS

-----------------------------------------------------------------------------
(* Types *)

Ended == {"idle", "answered"}
Posting == {"lock_owner", "count_own", "lock_key", "count_others", "insert", "save"}

RowsOK ==
  /\ stored \subseteq used /\ used \subseteq Subs
  /\ target \in [Subs -> Targets \union {NoTarget}]
  /\ key \in [Subs -> Keys \union {NoTarget}]
  /\ revived \subseteq used /\ stale \subseteq used

SecretsOK ==
  /\ secrets \in Nat
  /\ secret \in [Subs -> 0..secrets]
  /\ given \in [Subs -> SUBSET (1..secrets)]
  /\ known \in [Requests -> 0..secrets]

RequestsOK ==
  /\ pc \in [Requests -> States]
  /\ sub \in [Requests -> Subs \union {NoSub}]
  /\ was \in [Requests -> Targets \union {NoTarget}]
  /\ want \in [Requests -> Targets \union {NoTarget}]

LocksOK ==
  /\ ownerLock \in [Owners -> Requests \union {Nobody}]
  /\ keyLock \in [Keys -> Requests \union {Nobody}]
  /\ \A o \in Owners : ownerLock[o] # Nobody => pc[ownerLock[o]] \notin Ended
  /\ \A k \in Keys : keyLock[k] # Nobody => pc[keyLock[k]] \in {"count_others", "insert", "save"}

\* A stored row has a target; a request works on a subscription exactly while it is in flight.
WorkOK ==
  /\ \A s \in stored : target[s] \in Targets
  /\ \A q \in Requests : IF pc[q] \in Ended THEN sub[q] = NoSub ELSE sub[q] \in Subs
  /\ \A q \in Requests : pc[q] \in Posting => want[q] \in Targets
  /\ \A q \in Requests : pc[q] \in {"rotate", "digest"} => was[q] \in Targets
  /\ \A q \in Requests : pc[q] \in {"save", "rotate", "digest"} => sub[q] \in used

AnsweredRequests == {q \in Requests : pc[q] = "answered"}

\* Every secret was made by a request that has been answered, and each made one at most.
Counted == secrets <= Cardinality(AnsweredRequests)

TypeInv == RowsOK /\ SecretsOK /\ RequestsOK /\ LocksOK /\ WorkOK /\ Counted

\* One more request is answered.
LEMMA AnsweredCount ==
  ASSUME RequestsOK, NEW q \in Requests, pc[q] # "answered", Goto(q, "answered")
  PROVE  /\ Cardinality(AnsweredRequests) \in Nat
         /\ Cardinality(AnsweredRequests)' = Cardinality(AnsweredRequests) + 1
<1>1. AnsweredRequests' = AnsweredRequests \union {q} /\ q \notin AnsweredRequests
  BY DEF AnsweredRequests, RequestsOK, Goto
<1>2. IsFiniteSet(AnsweredRequests)
  BY FS_Subset, SubscriptionsAssumption DEF AnsweredRequests
<1> QED
  BY <1>1, <1>2, FS_AddElement, FS_CardinalityType

\* A request that is not answered yet stays so.
LEMMA AnsweredSame ==
  ASSUME RequestsOK, NEW q \in Requests, pc[q] # "answered",
         NEW at \in States \ {"answered"}, Goto(q, at)
  PROVE  AnsweredRequests' = AnsweredRequests
  BY DEF AnsweredRequests, RequestsOK, Goto

\* The end of a transaction leaves no lock, no copy and no target behind.
LEMMA FinishType ==
  ASSUME TypeInv, NEW q \in Requests, pc[q] \notin Ended, Finish(q),
         secrets' \in Nat, secrets <= secrets', secrets' <= secrets + 1,
         used \subseteq used', used' \subseteq Subs, \A s \in stored' : target'[s] \in Targets
  PROVE  /\ RequestsOK' /\ LocksOK' /\ WorkOK' /\ Counted'
         /\ known' \in [Requests -> 0..secrets']
<1>1. /\ Goto(q, "answered")
      /\ sub' = [sub EXCEPT ![q] = NoSub]
      /\ was' = [was EXCEPT ![q] = NoTarget]
      /\ want' = [want EXCEPT ![q] = NoTarget]
      /\ known' = [known EXCEPT ![q] = 0]
  BY DEF Finish
<1>2. pc' = [pc EXCEPT ![q] = "answered"]
  BY <1>1 DEF Goto
<1>3. RequestsOK'
  BY <1>1, <1>2 DEF TypeInv, RequestsOK, States
<1>4. /\ pc'[q] = "answered" /\ sub'[q] = NoSub
      /\ \A p \in Requests : p # q => /\ pc'[p] = pc[p] /\ sub'[p] = sub[p]
                                      /\ was'[p] = was[p] /\ want'[p] = want[p]
  BY <1>1, <1>2 DEF TypeInv, RequestsOK
<1>5. WorkOK'
  BY <1>4 DEF TypeInv, WorkOK, Ended, Posting
<1>6. Counted'
  <2>1. /\ Cardinality(AnsweredRequests) \in Nat
        /\ Cardinality(AnsweredRequests)' = Cardinality(AnsweredRequests) + 1
    BY <1>1, AnsweredCount DEF TypeInv, Ended
  <2>2. secrets <= Cardinality(AnsweredRequests) /\ secrets \in Nat
    BY DEF TypeInv, Counted, SecretsOK
  <2> QED
    BY <2>1, <2>2 DEF Counted
<1>7. known' \in [Requests -> 0..secrets']
  <2>1. known \in [Requests -> 0..secrets] /\ secrets \in Nat
    BY DEF TypeInv, SecretsOK
  <2>2. 0..secrets \subseteq 0..secrets' /\ 0 \in 0..secrets'
    BY <2>1
  <2> QED
    BY <1>1, <2>1, <2>2
<1>8. LocksOK'
  <2>1. /\ ownerLock \in [Owners -> Requests \union {Nobody}]
        /\ keyLock \in [Keys -> Requests \union {Nobody}]
    BY DEF TypeInv, LocksOK
  <2>2. /\ ownerLock' = [o \in Owners |-> IF ownerLock[o] = q THEN Nobody ELSE ownerLock[o]]
        /\ keyLock' = [k \in Keys |-> IF keyLock[k] = q THEN Nobody ELSE keyLock[k]]
    BY <2>1 DEF Finish, Unlocked
  <2>3. /\ ownerLock' \in [Owners -> Requests \union {Nobody}]
        /\ keyLock' \in [Keys -> Requests \union {Nobody}]
    BY <2>1, <2>2
  <2>4. q # Nobody
    BY SubscriptionsAssumption
  <2>5. ASSUME NEW o \in Owners, ownerLock'[o] # Nobody
        PROVE  ownerLock'[o] = ownerLock[o] /\ ownerLock[o] \in Requests \ {q}
    BY <2>1, <2>2, <2>4, <2>5
  <2>6. ASSUME NEW k \in Keys, keyLock'[k] # Nobody
        PROVE  keyLock'[k] = keyLock[k] /\ keyLock[k] \in Requests \ {q}
    BY <2>1, <2>2, <2>4, <2>6
  <2> QED
    BY <1>4, <2>3, <2>5, <2>6 DEF TypeInv, LocksOK
<1> QED
  BY <1>3, <1>5, <1>6, <1>7, <1>8

\* A request that goes on, or begins, keeps the locks of the others.
LEMMA GoesOnType ==
  ASSUME TypeInv, NEW q \in Requests, pc[q] # "answered",
         NEW at \in States \ Ended, Goto(q, at), RequestsOK', UNCHANGED <<rows, secrets, history>>,
         sub'[q] \in Subs, at \in Posting => want'[q] \in Targets,
         at \in {"rotate", "digest"} => was'[q] \in Targets,
         at \in {"save", "rotate", "digest"} => sub'[q] \in used,
         \A p \in Requests : p # q => /\ sub'[p] = sub[p] /\ was'[p] = was[p]
                                      /\ want'[p] = want[p],
         known' \in [Requests -> 0..secrets], LocksOK'
  PROVE  TypeInv'
<1>1. RowsOK'
  BY DEF TypeInv, RowsOK, rows, history
<1>2. SecretsOK'
  BY DEF TypeInv, SecretsOK, rows, history
<1>3. Counted'
  <2>1. AnsweredRequests' = AnsweredRequests
    BY AnsweredSame DEF TypeInv, Ended
  <2> QED
    BY <2>1 DEF TypeInv, Counted
<1>4. pc'[q] = at /\ \A p \in Requests : p # q => pc'[p] = pc[p]
  BY DEF Goto, TypeInv, RequestsOK
<1>5. WorkOK'
  BY <1>4 DEF TypeInv, WorkOK, rows
<1> QED
  BY <1>1, <1>2, <1>3, <1>5 DEF TypeInv

\* The locks do not change, and their holders go on.
LEMMA LocksStay ==
  ASSUME TypeInv, NEW q \in Requests, UNCHANGED locks, NEW at \in States \ Ended, Goto(q, at),
         pc[q] \in {"count_others", "insert", "save"} => at \in {"count_others", "insert", "save"}
  PROVE  LocksOK'
<1>1. pc'[q] = at /\ \A p \in Requests : p # q => pc'[p] = pc[p]
  BY DEF Goto, TypeInv, RequestsOK
<1> QED
  BY <1>1 DEF TypeInv, LocksOK, locks, Ended

\* The steps up to the save.
LEMMA ProgressType ==
  ASSUME TypeInv, NEW q \in Requests,
         \/ LockOwner(q) \/ CountOwn(q) \/ LockKey(q) \/ CountOthers(q)
         \/ \E s \in Subs, t \in Targets : Post(q, s, t) \/ Patch(q, s, t)
         \/ \E s \in Subs : StartRotate(q, s) \/ StartDigest(q, s)
  PROVE  TypeInv'
<1>1. RowsOK /\ SecretsOK /\ RequestsOK /\ LocksOK /\ WorkOK
  BY DEF TypeInv
<1>2. ASSUME NEW at \in States, Goto(q, at), UNCHANGED copies
      PROVE  RequestsOK' /\ known' \in [Requests -> 0..secrets]
  BY <1>1, <1>2 DEF RequestsOK, SecretsOK, Goto, copies
<1>3. ASSUME pc[q] \notin Ended, Refuse(q) PROVE TypeInv'
  <2>1. UNCHANGED <<used, stored, target, key, secret, secrets, given, revived, stale>> /\ Finish(q)
    BY <1>3 DEF Refuse, rows, history
  <2>2. secrets \in Nat /\ secrets' = secrets /\ used \subseteq Subs
    BY <1>1, <2>1 DEF SecretsOK, RowsOK
  <2>3. /\ RequestsOK' /\ LocksOK' /\ WorkOK' /\ Counted'
        /\ known' \in [Requests -> 0..secrets']
    BY <1>1, <1>3, <2>1, <2>2, FinishType DEF WorkOK
  <2> QED
    BY <1>1, <2>1, <2>3 DEF TypeInv, RowsOK, SecretsOK
<1>4. CASE LockOwner(q)
  <2> DEFINE o == OwnerOf[sub[q]]
  <2>1. /\ pc[q] = "lock_owner" /\ Goto(q, "count_own") /\ UNCHANGED <<rows, copies, secrets, history>>
        /\ ownerLock[o] = Nobody /\ ownerLock' = [ownerLock EXCEPT ![o] = q] /\ UNCHANGED keyLock
    BY <1>4 DEF LockOwner
  <2>2. sub[q] \in Subs /\ want[q] \in Targets
    BY <1>1, <2>1 DEF WorkOK, Ended, Posting
  <2>3. pc'[q] = "count_own" /\ \A p \in Requests : p # q => pc'[p] = pc[p]
    BY <1>1, <2>1 DEF Goto, RequestsOK
  <2>4. LocksOK'
    <3>1. /\ ownerLock' \in [Owners -> Requests \union {Nobody}]
          /\ \A x \in Owners : ownerLock'[x] = q \/ ownerLock'[x] = ownerLock[x]
      BY <1>1, <2>1 DEF LocksOK
    <3>2. \A k \in Keys : keyLock[k] # q
      BY <1>1, <2>1, SubscriptionsAssumption DEF LocksOK
    <3> QED
      BY <1>1, <2>1, <2>3, <3>1, <3>2 DEF LocksOK, Ended
  <2> QED
    BY <1>2, <2>1, <2>2, <2>4, GoesOnType DEF States, Ended, Posting, copies
<1>5. CASE CountOwn(q)
  <2>1. pc[q] = "count_own" /\ sub[q] \in Subs /\ want[q] \in Targets
    BY <1>1, <1>5 DEF CountOwn, WorkOK, Ended, Posting
  <2>2. CASE Goto(q, "lock_key") /\ UNCHANGED <<rows, copies, locks, secrets, history>>
    <3>1. LocksOK'
      BY <2>1, <2>2, LocksStay DEF States, Ended
    <3> QED
      BY <1>2, <2>1, <2>2, <3>1, GoesOnType DEF States, Ended, Posting, copies
  <2>3. CASE Refuse(q)
    BY <1>3, <2>1, <2>3 DEF Ended
  <2> QED
    BY <1>5, <2>2, <2>3 DEF CountOwn
<1>6. CASE LockKey(q)
  <2> DEFINE k == KeyOf[want[q]]
  <2>1. /\ pc[q] = "lock_key" /\ Goto(q, "count_others") /\ UNCHANGED <<rows, copies, secrets, history>>
        /\ keyLock' = [keyLock EXCEPT ![k] = q] /\ UNCHANGED ownerLock
    BY <1>6 DEF LockKey
  <2>2. sub[q] \in Subs /\ want[q] \in Targets
    BY <1>1, <2>1 DEF WorkOK, Ended, Posting
  <2>3. pc'[q] = "count_others" /\ \A p \in Requests : p # q => pc'[p] = pc[p]
    BY <1>1, <2>1 DEF Goto, RequestsOK
  <2>4. LocksOK'
    <3>1. /\ keyLock' \in [Keys -> Requests \union {Nobody}]
          /\ \A x \in Keys : keyLock'[x] = q \/ keyLock'[x] = keyLock[x]
      BY <1>1, <2>1 DEF LocksOK
    <3> QED
      BY <1>1, <2>1, <2>3, <3>1 DEF LocksOK, Ended
  <2> QED
    BY <1>2, <2>1, <2>2, <2>4, GoesOnType DEF States, Ended, Posting, copies
<1>7. CASE CountOthers(q)
  <2>1. pc[q] = "count_others" /\ sub[q] \in Subs /\ want[q] \in Targets
    BY <1>1, <1>7 DEF CountOthers, WorkOK, Ended, Posting
  <2>2. CASE /\ Goto(q, IF sub[q] \in used THEN "save" ELSE "insert")
             /\ UNCHANGED <<rows, copies, locks, secrets, history>>
    <3>1. PICK at \in {"save", "insert"} : Goto(q, at) /\ (at = "save" => sub[q] \in used)
      BY <2>2
    <3>2. LocksOK'
      BY <2>2, <3>1, LocksStay DEF States, Ended
    <3>3. RequestsOK' /\ known' \in [Requests -> 0..secrets]
      BY <1>2, <2>2, <3>1 DEF States
    <3> QED
      BY <2>1, <2>2, <3>1, <3>2, <3>3, GoesOnType DEF States, Ended, Posting, copies
  <2>3. CASE Refuse(q)
    BY <1>3, <2>1, <2>3 DEF Ended
  <2> QED
    BY <1>7, <2>2, <2>3 DEF CountOthers
<1>8. ASSUME NEW s \in Subs, NEW t \in Targets, Post(q, s, t) PROVE TypeInv'
  <2>1. /\ pc[q] = "idle" /\ Goto(q, "lock_owner")
        /\ UNCHANGED <<rows, was, known, locks, secrets, history>>
        /\ sub' = [sub EXCEPT ![q] = s] /\ want' = [want EXCEPT ![q] = t]
    BY <1>8 DEF Post
  <2>2. RequestsOK' /\ known' \in [Requests -> 0..secrets]
    BY <1>1, <2>1 DEF RequestsOK, SecretsOK, Goto, States
  <2>3. LocksOK'
    BY <2>1, LocksStay DEF States, Ended
  <2>4. /\ sub'[q] = s /\ want'[q] = t
        /\ \A p \in Requests : p # q => sub'[p] = sub[p] /\ want'[p] = want[p]
    BY <1>1, <2>1 DEF RequestsOK
  <2> QED
    BY <2>1, <2>2, <2>3, <2>4, GoesOnType DEF States, Ended, Posting
<1>9. ASSUME NEW s \in Subs, NEW at \in {"save", "lock_key", "rotate", "digest"},
             NEW t \in Targets \union {NoTarget}, Load(q, s), Goto(q, at),
             want' = [want EXCEPT ![q] = t], at \in Posting => t \in Targets,
             UNCHANGED <<rows, locks, secrets, history>>
      PROVE  TypeInv'
  <2>1. /\ pc[q] = "idle" /\ s \in stored
        /\ sub' = [sub EXCEPT ![q] = s]
        /\ was' = [was EXCEPT ![q] = target[s]]
        /\ known' = [known EXCEPT ![q] = secret[s]]
    BY <1>9 DEF Load
  <2>2. target[s] \in Targets /\ secret[s] \in 0..secrets /\ s \in used
    BY <1>1, <2>1 DEF WorkOK, SecretsOK, RowsOK
  <2>3. RequestsOK' /\ known' \in [Requests -> 0..secrets]
    BY <1>1, <1>9, <2>1, <2>2 DEF RequestsOK, SecretsOK, Goto, States
  <2>4. LocksOK'
    BY <1>9, <2>1, LocksStay DEF States, Ended
  <2>5. /\ sub'[q] = s /\ want'[q] = t /\ was'[q] = target[s]
        /\ \A p \in Requests : p # q => /\ sub'[p] = sub[p] /\ want'[p] = want[p]
                                        /\ was'[p] = was[p]
    BY <1>1, <1>9, <2>1 DEF RequestsOK
  <2> QED
    BY <1>9, <2>1, <2>2, <2>3, <2>4, <2>5, GoesOnType DEF States, Ended, Posting
<1>10. ASSUME NEW s \in Subs, NEW t \in Targets, Patch(q, s, t) PROVE TypeInv'
  <2>1. PICK at \in {"save", "lock_key"} : Goto(q, at)
    BY <1>10 DEF Patch
  <2> QED
    BY <1>9, <1>10, <2>1 DEF Patch, Posting
<1>11. ASSUME NEW s \in Subs, StartRotate(q, s) \/ StartDigest(q, s) PROVE TypeInv'
  <2>1. PICK at \in {"rotate", "digest"} : Goto(q, at)
    BY <1>11 DEF StartRotate, StartDigest
  <2>2. want' = [want EXCEPT ![q] = want[q]] /\ want[q] \in Targets \union {NoTarget}
    BY <1>1, <1>11 DEF StartRotate, StartDigest, RequestsOK
  <2> QED
    BY <1>9, <1>11, <2>1, <2>2 DEF StartRotate, StartDigest, Posting
<1> QED
  BY <1>4, <1>5, <1>6, <1>7, <1>8, <1>10, <1>11

\* Insert and SavePatch write all columns of the copy.
LEMMA SaveAllType ==
  ASSUME TypeInv, NEW q \in Requests, pc[q] \in {"insert", "save"},
         SaveAll(q, sub[q], want[q]), Finish(q), used' = used \union {sub[q]},
         revived' \subseteq used', stale' \subseteq used'
  PROVE  TypeInv'
<1>1. RowsOK /\ SecretsOK /\ RequestsOK /\ LocksOK /\ WorkOK
  BY DEF TypeInv
<1> DEFINE s == sub[q]
           t == want[q]
<1>2. s \in Subs /\ t \in Targets
  BY <1>1 DEF WorkOK, Ended, Posting
<1> DEFINE new == IF NeedsSecret(q, t) THEN secrets + 1 ELSE known[q]
<1>3. /\ secret' = [secret EXCEPT ![s] = new]
      /\ \/ new = secrets + 1 /\ secrets' = secrets + 1
         \/ new = known[q] /\ secrets' = secrets
      /\ \/ given' = [given EXCEPT ![s] = @ \union {new}] /\ new = secrets + 1
         \/ given' = given
  <2>1. secret' = [secret EXCEPT ![s] = new]
    BY DEF SaveAll
  <2>2. CASE NeedsSecret(q, t)
    <3>1. /\ secrets' = secrets + 1 /\ new = secrets + 1
          /\ given' = [given EXCEPT ![s] = @ \union {new}]
      BY <2>2 DEF SaveAll
    <3> QED
      BY <2>1, <3>1
  <2>3. CASE ~NeedsSecret(q, t)
    BY <2>1, <2>3 DEF SaveAll
  <2> QED
    BY <2>2, <2>3
<1>4. /\ stored' = stored \union {s}
      /\ target' = [target EXCEPT ![s] = t]
      /\ key' = [key EXCEPT ![s] = KeyOf[t]]
  BY DEF SaveAll, NewKey
<1>5. KeyOf[t] \in Keys
  BY <1>2 DEF Keys
<1> HIDE DEF s, t, new
<1>6. RowsOK'
  BY <1>1, <1>2, <1>4, <1>5 DEF RowsOK, s
<1>7. /\ secrets' \in Nat /\ secrets <= secrets' /\ secrets' <= secrets + 1 /\ new \in 0..secrets'
      /\ 0..secrets \subseteq 0..secrets'
  BY <1>1, <1>3 DEF SecretsOK
<1>8. \A x \in stored' : target'[x] \in Targets
  BY <1>1, <1>2, <1>4 DEF WorkOK, RowsOK
<1>9. used \subseteq used' /\ used' \subseteq Subs
  BY <1>6 DEF RowsOK
<1>10. /\ RequestsOK' /\ LocksOK' /\ WorkOK' /\ Counted'
       /\ known' \in [Requests -> 0..secrets']
  BY <1>7, <1>8, <1>9, FinishType DEF Ended
<1>11. secret' \in [Subs -> 0..secrets'] /\ given' \in [Subs -> SUBSET (1..secrets')]
  <2>1. 1..secrets \subseteq 1..secrets' /\ (new = secrets + 1 => new \in 1..secrets')
    BY <1>1, <1>3, <1>7 DEF SecretsOK
  <2> QED
    BY <1>1, <1>2, <1>3, <1>7, <2>1 DEF SecretsOK
<1> QED
  BY <1>6, <1>7, <1>10, <1>11 DEF TypeInv, SecretsOK

\* Rotate and SaveDigest write some of the columns of the copy, and target_key.
LEMMA SaveSomeType ==
  ASSUME TypeInv, NEW q \in Requests, Rotate(q) \/ SaveDigest(q)
  PROVE  TypeInv'
<1>1. RowsOK /\ SecretsOK /\ RequestsOK /\ LocksOK /\ WorkOK
  BY DEF TypeInv
<1> DEFINE s == sub[q]
           k == KeyOf[was[q]]
<1>2. pc[q] \in {"rotate", "digest"} /\ Finish(q) /\ UNCHANGED <<used, stored, target>>
  BY DEF Rotate, SaveDigest
<1>3. s \in Subs /\ was[q] \in Targets
  BY <1>1, <1>2 DEF WorkOK, Ended
<1>4. k \in Keys
  BY <1>3 DEF Keys
<1>5. PICK new \in Nat :
        /\ key' = [key EXCEPT ![s] = k] \/ key' = key
        /\ \/ /\ new = secrets + 1 /\ secrets' = new
              /\ secret' = [secret EXCEPT ![s] = new]
              /\ given' = [given EXCEPT ![s] = @ \union {new}]
           \/ new = secrets /\ UNCHANGED <<secrets, secret, given>>
  <2>1. CASE Rotate(q)
    BY <1>1, <2>1 DEF Rotate, NewKey, SecretsOK
  <2>2. CASE SaveDigest(q)
    BY <1>1, <2>2 DEF SaveDigest, NewKey, SecretsOK
  <2> QED
    BY <2>1, <2>2
<1> HIDE DEF s, k
<1>6. RowsOK'
  <2>1. revived' = revived /\ stale' \subseteq stale \union stored
    BY DEF Rotate, SaveDigest
  <2> QED
    BY <1>1, <1>2, <1>3, <1>4, <1>5, <2>1 DEF RowsOK
<1>7. /\ secrets' \in Nat /\ secrets <= secrets' /\ secrets' <= secrets + 1 /\ new \in 0..secrets'
      /\ 0..secrets \subseteq 0..secrets'
  BY <1>1, <1>5 DEF SecretsOK
<1>8. \A x \in stored' : target'[x] \in Targets
  BY <1>1, <1>2 DEF WorkOK
<1>9. used \subseteq used' /\ used' \subseteq Subs
  BY <1>1, <1>2 DEF RowsOK
<1>10. /\ RequestsOK' /\ LocksOK' /\ WorkOK' /\ Counted'
       /\ known' \in [Requests -> 0..secrets']
  BY <1>2, <1>7, <1>8, <1>9, FinishType DEF Ended
<1>11. secret' \in [Subs -> 0..secrets'] /\ given' \in [Subs -> SUBSET (1..secrets')]
  <2>1. 1..secrets \subseteq 1..secrets' /\ (new = secrets + 1 => new \in 1..secrets')
    BY <1>1, <1>5, <1>7 DEF SecretsOK
  <2> QED
    BY <1>1, <1>3, <1>5, <1>7, <2>1 DEF SecretsOK
<1> QED
  BY <1>6, <1>7, <1>10, <1>11 DEF TypeInv, SecretsOK

\* DELETE is one statement: it takes no lock and keeps no copy.
LEMMA DeleteType ==
  ASSUME TypeInv, NEW q \in Requests, NEW s \in Subs, Delete(q, s)
  PROVE  TypeInv'
<1>1. RowsOK /\ SecretsOK /\ RequestsOK /\ LocksOK /\ WorkOK /\ Counted
  BY DEF TypeInv
<1>2. /\ pc[q] = "idle" /\ Goto(q, "answered") /\ stored' = stored \ {s}
      /\ UNCHANGED <<used, target, key, secret, secrets, given, revived, stale>>
      /\ UNCHANGED <<sub, was, want, known, ownerLock, keyLock>>
  BY DEF Delete, copies, locks, history
<1>3. pc'[q] = "answered" /\ \A p \in Requests : p # q => pc'[p] = pc[p]
  BY <1>1, <1>2 DEF Goto, RequestsOK
<1>4. RowsOK' /\ SecretsOK'
  BY <1>1, <1>2 DEF RowsOK, SecretsOK
<1>5. RequestsOK'
  BY <1>1, <1>2 DEF RequestsOK, Goto, States
<1>6. /\ \A o \in Owners : ownerLock[o] # q
      /\ \A k \in Keys : keyLock[k] # q
  BY <1>1, <1>2, SubscriptionsAssumption DEF LocksOK, Ended
<1>7. LocksOK'
  BY <1>1, <1>2, <1>3, <1>6 DEF LocksOK
<1>8. WorkOK'
  BY <1>1, <1>2, <1>3 DEF WorkOK, Ended, Posting
<1>9. Counted'
  <2>1. /\ Cardinality(AnsweredRequests) \in Nat
        /\ Cardinality(AnsweredRequests)' = Cardinality(AnsweredRequests) + 1
    BY <1>1, <1>2, AnsweredCount
  <2>2. secrets \in Nat
    BY <1>1 DEF SecretsOK
  <2> QED
    BY <1>1, <1>2, <2>1, <2>2 DEF Counted
<1> QED
  BY <1>4, <1>5, <1>7, <1>8, <1>9 DEF TypeInv

\* The types hold at first.
LEMMA TypeInit ==
  ASSUME Init
  PROVE  TypeInv
<1>1. RowsOK /\ SecretsOK /\ RequestsOK /\ LocksOK /\ WorkOK
  BY DEF Init, RowsOK, SecretsOK, RequestsOK, LocksOK, WorkOK, States, Ended, Posting
<1>2. Counted
  <2>1. AnsweredRequests = {}
    BY DEF Init, AnsweredRequests
  <2> QED
    BY <2>1, FS_EmptySet DEF Counted, Init
<1> QED
  BY <1>1, <1>2 DEF TypeInv

\* Every step keeps the types.
LEMMA TypeStep ==
  ASSUME TypeInv, [Next]_vars
  PROVE  TypeInv'
<1>1. ASSUME UNCHANGED vars PROVE TypeInv'
  BY <1>1 DEF vars, rows, copies, locks, history, TypeInv, RowsOK, SecretsOK, RequestsOK, LocksOK, WorkOK,
     Counted, AnsweredRequests
<1>2. ASSUME NEW q \in Requests,
             \/ LockOwner(q) \/ CountOwn(q) \/ LockKey(q) \/ CountOthers(q)
             \/ \E s \in Subs, t \in Targets : Post(q, s, t) \/ Patch(q, s, t)
             \/ \E s \in Subs : StartRotate(q, s) \/ StartDigest(q, s)
      PROVE  TypeInv'
  BY <1>2, ProgressType
<1>3. ASSUME NEW q \in Requests, Insert(q) PROVE TypeInv'
  <2>1. UNCHANGED <<revived, stale>> /\ used \subseteq used'
    BY <1>3 DEF Insert
  <2>2. revived' \subseteq used' /\ stale' \subseteq used'
    BY <2>1 DEF TypeInv, RowsOK
  <2> QED
    BY <1>3, <2>2, SaveAllType DEF Insert
<1>4. ASSUME NEW q \in Requests, SavePatch(q) PROVE TypeInv'
  <2>1. used' = used \union {sub[q]}
    BY <1>4 DEF SavePatch, TypeInv, WorkOK
  <2>2. /\ revived' \subseteq revived \union {sub[q]} /\ stale' \subseteq stale \union {sub[q]}
    BY <1>4 DEF SavePatch
  <2>3. revived' \subseteq used' /\ stale' \subseteq used'
    BY <2>1, <2>2 DEF TypeInv, RowsOK
  <2> QED
    BY <1>4, <2>1, <2>3, SaveAllType DEF SavePatch
<1>5. ASSUME NEW q \in Requests, Rotate(q) \/ SaveDigest(q) PROVE TypeInv'
  BY <1>5, SaveSomeType
<1>6. ASSUME NEW q \in Requests, NEW s \in Subs, Delete(q, s) PROVE TypeInv'
  BY <1>6, DeleteType
<1> QED
  BY <1>1, <1>2, <1>3, <1>4, <1>5, <1>6 DEF Next, Done

\* The types hold always.
LEMMA TypeInvariant == Spec => []TypeInv
<1>1. Init => TypeInv
  BY TypeInit
<1>2. TypeInv /\ [Next]_vars => TypeInv'
  BY TypeStep
<1> QED
  BY <1>1, <1>2, PTL DEF Spec

\* Rows, copies and locks hold what they can hold, locks are held by requests in flight, and
\* no more secrets are made than there are requests.
THEOREM SubscriptionsTypeCorrect == Spec => []TypeOK
<1>1. TypeInv => TypeOK
  <2> SUFFICES ASSUME TypeInv PROVE TypeOK
    OBVIOUS
  <2>1. RowsOK /\ SecretsOK /\ RequestsOK /\ LocksOK /\ Counted
    BY DEF TypeInv
  <2>2. /\ Cardinality(AnsweredRequests) \in Nat /\ Cardinality(Requests) \in Nat
        /\ Cardinality(AnsweredRequests) <= Cardinality(Requests)
    <3>1. IsFiniteSet(Requests)
      BY SubscriptionsAssumption
    <3>2. AnsweredRequests \subseteq Requests
      BY DEF AnsweredRequests
    <3> QED
      BY <3>1, <3>2, FS_Subset, FS_CardinalityType
  <2>3. secrets \in 0..Cardinality(Requests)
    BY <2>1, <2>2 DEF Counted, SecretsOK
  <2> QED
    BY <2>1, <2>3 DEF TypeOK, RowsOK, SecretsOK, RequestsOK, LocksOK, Ended
<1> QED
  BY <1>1, TypeInvariant, PTL

-----------------------------------------------------------------------------
(* New ids, and secrets *)

\* POST works on an id that is not in use, and that no other request works on.
FreshIds ==
  /\ \A q \in Requests : pc[q] \in {"lock_owner", "count_own", "insert"} => sub[q] \notin used
  /\ \A p, q \in Requests : sub[p] \in Subs \ used /\ sub[p] = sub[q] => p = q

\* Every step keeps the ids of POST fresh.
LEMMA FreshStep ==
  ASSUME TypeInv, FreshIds, [Next]_vars
  PROVE  FreshIds'
<1>1. RowsOK /\ RequestsOK /\ WorkOK /\ NoSub \notin Subs
  BY SubscriptionsAssumption DEF TypeInv
<1>2. ASSUME UNCHANGED vars PROVE FreshIds'
  BY <1>2 DEF vars, rows, copies, FreshIds
<1>3. ASSUME NEW q \in Requests, NEW at \in States, Goto(q, at), UNCHANGED <<sub, used>>,
             at \in {"lock_owner", "count_own", "insert"} => sub[q] \notin used
      PROVE  FreshIds'
  <2>1. pc'[q] = at /\ \A p \in Requests : p # q => pc'[p] = pc[p]
    BY <1>1, <1>3 DEF Goto, RequestsOK
  <2> QED
    BY <1>3, <2>1 DEF FreshIds
<1>4. ASSUME NEW q \in Requests, Finish(q), UNCHANGED used PROVE FreshIds'
  <2>1. /\ pc'[q] = "answered" /\ sub'[q] = NoSub
        /\ \A p \in Requests : p # q => pc'[p] = pc[p] /\ sub'[p] = sub[p]
    BY <1>1, <1>4 DEF Finish, Goto, RequestsOK
  <2> QED
    BY <1>1, <1>4, <2>1 DEF FreshIds
<1>5. ASSUME NEW q \in Requests, LockOwner(q) \/ CountOwn(q) \/ LockKey(q) \/ CountOthers(q)
      PROVE  FreshIds'
  <2>1. CASE Refuse(q)
    BY <1>4, <2>1 DEF Refuse, rows
  <2>2. CASE LockOwner(q)
    <3>1. pc[q] = "lock_owner" /\ Goto(q, "count_own") /\ UNCHANGED <<sub, used>>
      BY <2>2 DEF LockOwner, rows, copies
    <3> QED
      BY <1>3, <3>1 DEF FreshIds, States
  <2>3. CASE Goto(q, "lock_key") /\ UNCHANGED <<rows, copies>>
    BY <1>3, <2>3 DEF States, rows, copies
  <2>4. CASE LockKey(q)
    BY <1>3, <2>4 DEF LockKey, States, rows, copies
  <2>5. CASE Goto(q, IF sub[q] \in used THEN "save" ELSE "insert") /\ UNCHANGED <<rows, copies>>
    <3>1. CASE sub[q] \in used
      BY <1>3, <2>5, <3>1 DEF States, rows, copies
    <3>2. CASE sub[q] \notin used
      BY <1>3, <2>5, <3>2 DEF States, rows, copies
    <3> QED
      BY <3>1, <3>2
  <2>6. CASE CountOwn(q)
    BY <2>1, <2>3, <2>6 DEF CountOwn
  <2>7. CASE CountOthers(q)
    BY <2>1, <2>5, <2>7 DEF CountOthers
  <2> QED
    BY <1>5, <2>2, <2>4, <2>6, <2>7
<1>6. ASSUME NEW q \in Requests, Insert(q) PROVE FreshIds'
  <2>1. pc[q] = "insert" /\ Finish(q) /\ used' = used \union {sub[q]}
    BY <1>6 DEF Insert
  <2>2. sub[q] \in Subs \ used
    BY <1>1, <2>1 DEF FreshIds, WorkOK, Ended
  <2>3. \A p \in Requests : p # q => sub[p] # sub[q]
    BY <2>2 DEF FreshIds
  <2>4. /\ pc'[q] = "answered" /\ sub'[q] = NoSub
        /\ \A p \in Requests : p # q => pc'[p] = pc[p] /\ sub'[p] = sub[p]
    BY <1>1, <2>1 DEF Finish, Goto, RequestsOK
  <2> QED
    BY <1>1, <2>1, <2>3, <2>4 DEF FreshIds
<1>7. ASSUME NEW q \in Requests, SavePatch(q) \/ Rotate(q) \/ SaveDigest(q) PROVE FreshIds'
  BY <1>4, <1>7 DEF SavePatch, Rotate, SaveDigest
<1>8. ASSUME NEW q \in Requests, NEW s \in Subs, NEW t \in Targets, Post(q, s, t) PROVE FreshIds'
  <2>1. /\ s \notin used /\ \A p \in Requests : sub[p] # s
        /\ Goto(q, "lock_owner") /\ sub' = [sub EXCEPT ![q] = s] /\ UNCHANGED used
    BY <1>8 DEF Post, rows
  <2>2. /\ pc'[q] = "lock_owner" /\ sub'[q] = s
        /\ \A p \in Requests : p # q => pc'[p] = pc[p] /\ sub'[p] = sub[p]
    BY <1>1, <2>1 DEF Goto, RequestsOK
  <2> QED
    BY <2>1, <2>2 DEF FreshIds
<1>9. ASSUME NEW q \in Requests, NEW s \in Subs, Load(q, s), UNCHANGED used,
             NEW at \in {"save", "lock_key", "rotate", "digest"}, Goto(q, at)
      PROVE  FreshIds'
  <2>1. s \in used
    BY <1>1, <1>9 DEF Load, RowsOK
  <2>2. /\ pc'[q] = at /\ sub'[q] = s
        /\ \A p \in Requests : p # q => pc'[p] = pc[p] /\ sub'[p] = sub[p]
    BY <1>1, <1>9 DEF Load, Goto, RequestsOK
  <2> QED
    BY <1>9, <2>1, <2>2 DEF FreshIds
<1>10. ASSUME NEW q \in Requests, NEW s \in Subs, NEW t \in Targets, Patch(q, s, t) PROVE FreshIds'
  <2>1. PICK at \in {"save", "lock_key"} : Goto(q, at)
    BY <1>10 DEF Patch
  <2> QED
    BY <1>9, <1>10, <2>1 DEF Patch, rows
<1>11. ASSUME NEW q \in Requests, NEW s \in Subs, StartRotate(q, s) \/ StartDigest(q, s) PROVE FreshIds'
  <2>1. PICK at \in {"rotate", "digest"} : Goto(q, at)
    BY <1>11 DEF StartRotate, StartDigest
  <2> QED
    BY <1>9, <1>11, <2>1 DEF StartRotate, StartDigest, rows
<1>12. ASSUME NEW q \in Requests, NEW s \in Subs, Delete(q, s) PROVE FreshIds'
  BY <1>3, <1>12 DEF Delete, copies, States
<1> QED
  BY <1>2, <1>5, <1>6, <1>7, <1>8, <1>10, <1>11, <1>12 DEF Next, Done

\* The ids of POST are fresh always.
LEMMA FreshInvariant == Spec => [](TypeInv /\ FreshIds)
<1>1. Init => FreshIds
  BY SubscriptionsAssumption DEF Init, FreshIds
<1>2. TypeInv /\ FreshIds /\ [Next]_vars => FreshIds'
  BY FreshStep
<1> QED
  BY <1>1, <1>2, TypeInvariant, PTL DEF Spec

\* Every secret, in a row or in a copy of it, was given to the owner of that row, and a webhook
\* has one.
SecretInv ==
  /\ \A s \in Subs : secret[s] = 0 \/ secret[s] \in given[s]
  /\ \A s \in stored : target[s] \in Webhooks => secret[s] # 0
  /\ \A q \in Requests : known[q] = 0 \/ (sub[q] \in Subs /\ known[q] \in given[sub[q]])

\* A step of q that takes no secret back, and leaves q a copy of a secret that was given, or none.
LEMMA SecretFrame ==
  ASSUME TypeInv, SecretInv, NEW q \in Requests,
         \A s \in Subs : given[s] \subseteq given'[s],
         \A s \in Subs : secret'[s] = 0 \/ secret'[s] \in given'[s],
         \A s \in stored' : target'[s] \in Webhooks => secret'[s] # 0,
         \A p \in Requests : p # q => sub'[p] = sub[p] /\ known'[p] = known[p],
         known'[q] = 0 \/ (sub'[q] \in Subs /\ known'[q] \in given'[sub'[q]])
  PROVE  SecretInv'
<1>1. ASSUME NEW p \in Requests
      PROVE  known'[p] = 0 \/ (sub'[p] \in Subs /\ known'[p] \in given'[sub'[p]])
  BY <1>1 DEF SecretInv
<1> QED
  BY <1>1 DEF SecretInv

\* A save of all columns writes the secret in the copy, or a new one if the copy has none.
LEMMA SecretSave ==
  ASSUME TypeInv, SecretInv, NEW q \in Requests, pc[q] \in {"insert", "save"},
         SaveAll(q, sub[q], want[q]), Finish(q)
  PROVE  SecretInv'
<1>1. RowsOK /\ SecretsOK /\ RequestsOK /\ WorkOK
  BY DEF TypeInv
<1> DEFINE s == sub[q]
           t == want[q]
           new == IF NeedsSecret(q, t) THEN secrets + 1 ELSE known[q]
<1>2. s \in Subs /\ t \in Targets /\ secrets \in Nat /\ stored \subseteq Subs
  BY <1>1 DEF WorkOK, Ended, Posting, SecretsOK, RowsOK
<1>3. /\ stored' = stored \union {s} /\ target' = [target EXCEPT ![s] = t]
      /\ secret' = [secret EXCEPT ![s] = new]
  BY DEF SaveAll
<1>4. /\ \A x \in Subs : given[x] \subseteq given'[x]
      /\ new = 0 \/ new \in given'[s]
  <2>1. CASE NeedsSecret(q, t)
    <3>1. given' = [given EXCEPT ![s] = @ \union {new}]
      BY <2>1 DEF SaveAll
    <3> HIDE DEF new, s
    <3> QED
      BY <1>1, <1>2, <3>1 DEF SecretsOK
  <2>2. CASE ~NeedsSecret(q, t)
    <3>1. given' = given /\ new = known[q]
      BY <2>2 DEF SaveAll
    <3> QED
      BY <3>1 DEF SecretInv
  <2> QED
    BY <2>1, <2>2
<1>5. t \in Webhooks => new # 0
  BY <1>2 DEF NeedsSecret
<1>6. /\ known'[q] = 0
      /\ \A p \in Requests : p # q => sub'[p] = sub[p] /\ known'[p] = known[p]
  BY <1>1 DEF Finish, RequestsOK, SecretsOK
<1> HIDE DEF s, t, new
<1>7. /\ target'[s] = t /\ secret'[s] = new
      /\ \A x \in Subs : x # s => target'[x] = target[x] /\ secret'[x] = secret[x]
  BY <1>1, <1>2, <1>3 DEF RowsOK, SecretsOK
<1>8. \A x \in Subs : secret'[x] = 0 \/ secret'[x] \in given'[x]
  BY <1>4, <1>7 DEF SecretInv
<1>9. \A x \in stored' : target'[x] \in Webhooks => secret'[x] # 0
  BY <1>2, <1>3, <1>5, <1>7 DEF SecretInv
<1> QED
  BY <1>4, <1>6, <1>8, <1>9, SecretFrame

\* rotate-secret writes a new secret; the digest writes none.
LEMMA SecretSaveSome ==
  ASSUME TypeInv, SecretInv, NEW q \in Requests, Rotate(q) \/ SaveDigest(q)
  PROVE  SecretInv'
<1>1. RowsOK /\ SecretsOK /\ RequestsOK /\ WorkOK
  BY DEF TypeInv
<1> DEFINE s == sub[q]
<1>2. Finish(q) /\ UNCHANGED <<stored, target>> /\ pc[q] \in {"rotate", "digest"}
  BY DEF Rotate, SaveDigest
<1>3. s \in Subs /\ secrets \in Nat /\ stored \subseteq Subs
  BY <1>1, <1>2 DEF WorkOK, Ended, SecretsOK, RowsOK
<1>4. /\ known'[q] = 0
      /\ \A p \in Requests : p # q => sub'[p] = sub[p] /\ known'[p] = known[p]
  BY <1>1, <1>2 DEF Finish, RequestsOK, SecretsOK
<1>5. CASE UNCHANGED <<secret, given>>
  BY <1>2, <1>4, <1>5, SecretFrame DEF SecretInv
<1>6. CASE /\ secret' = [secret EXCEPT ![s] = secrets + 1]
           /\ given' = [given EXCEPT ![s] = @ \union {secrets + 1}]
  <2> HIDE DEF s
  <2>1. /\ secret'[s] = secrets + 1 /\ secrets + 1 # 0 /\ secrets + 1 \in given'[s]
        /\ \A x \in Subs : given[x] \subseteq given'[x]
        /\ \A x \in Subs : x # s => secret'[x] = secret[x]
    BY <1>1, <1>3, <1>6 DEF SecretsOK
  <2>2. \A x \in Subs : secret'[x] = 0 \/ secret'[x] \in given'[x]
    BY <2>1 DEF SecretInv
  <2>3. \A x \in stored' : target'[x] \in Webhooks => secret'[x] # 0
    BY <1>2, <1>3, <2>1 DEF SecretInv
  <2> QED
    BY <1>4, <2>1, <2>2, <2>3, SecretFrame
<1>7. CASE Rotate(q)
  BY <1>5, <1>6, <1>7 DEF Rotate
<1>8. CASE SaveDigest(q)
  BY <1>5, <1>8 DEF SaveDigest
<1> QED
  BY <1>7, <1>8

\* Every step keeps secrets with their owners.
LEMMA SecretStep ==
  ASSUME TypeInv, SecretInv, [Next]_vars
  PROVE  SecretInv'
<1>1. RowsOK /\ SecretsOK /\ RequestsOK /\ WorkOK /\ NoSub \notin Subs
  BY SubscriptionsAssumption DEF TypeInv
<1>2. ASSUME UNCHANGED <<stored, target, secret, given, sub, known>> PROVE SecretInv'
  BY <1>2 DEF SecretInv
<1>3. ASSUME NEW q \in Requests, Refuse(q) PROVE SecretInv'
  <2>1. UNCHANGED <<stored, target, secret, given>> /\ Finish(q)
    BY <1>3 DEF Refuse, rows, history
  <2>2. /\ known'[q] = 0
        /\ \A p \in Requests : p # q => sub'[p] = sub[p] /\ known'[p] = known[p]
    BY <1>1, <2>1 DEF Finish, RequestsOK, SecretsOK
  <2> QED
    BY <2>1, <2>2, SecretFrame DEF SecretInv
<1>4. ASSUME NEW q \in Requests, LockOwner(q) \/ CountOwn(q) \/ LockKey(q) \/ CountOthers(q)
      PROVE  SecretInv'
  BY <1>2, <1>3, <1>4 DEF LockOwner, CountOwn, LockKey, CountOthers, rows, copies, history
<1>5. ASSUME NEW q \in Requests, Insert(q) \/ SavePatch(q) PROVE SecretInv'
  BY <1>5, SecretSave DEF Insert, SavePatch
<1>6. ASSUME NEW q \in Requests, Rotate(q) \/ SaveDigest(q) PROVE SecretInv'
  BY <1>6, SecretSaveSome
<1>7. ASSUME NEW q \in Requests, NEW s \in Subs, NEW t \in Targets, Post(q, s, t) PROVE SecretInv'
  <2>1. /\ UNCHANGED <<stored, target, secret, given, known>> /\ pc[q] = "idle"
        /\ sub' = [sub EXCEPT ![q] = s]
    BY <1>7 DEF Post, rows, history
  <2>2. known[q] = 0
    BY <1>1, <2>1 DEF SecretInv, WorkOK, Ended
  <2>3. \A p \in Requests : p # q => sub'[p] = sub[p]
    BY <1>1, <2>1 DEF RequestsOK
  <2> QED
    BY <2>1, <2>2, <2>3, SecretFrame DEF SecretInv
<1>8. ASSUME NEW q \in Requests, NEW s \in Subs, Load(q, s), UNCHANGED <<rows, history>> PROVE SecretInv'
  <2>1. /\ UNCHANGED <<stored, target, secret, given>>
        /\ sub' = [sub EXCEPT ![q] = s] /\ known' = [known EXCEPT ![q] = secret[s]]
    BY <1>8 DEF Load, rows, history
  <2>2. /\ sub'[q] = s /\ known'[q] = secret[s]
        /\ \A p \in Requests : p # q => sub'[p] = sub[p] /\ known'[p] = known[p]
    BY <1>1, <2>1 DEF RequestsOK, SecretsOK
  <2> QED
    BY <2>1, <2>2, SecretFrame DEF SecretInv
<1>9. ASSUME NEW q \in Requests, NEW s \in Subs, NEW t \in Targets, Patch(q, s, t) PROVE SecretInv'
  BY <1>8, <1>9 DEF Patch
<1>10. ASSUME NEW q \in Requests, NEW s \in Subs, StartRotate(q, s) \/ StartDigest(q, s) PROVE SecretInv'
  BY <1>8, <1>10 DEF StartRotate, StartDigest
<1>11. ASSUME NEW q \in Requests, NEW s \in Subs, Delete(q, s) PROVE SecretInv'
  <2>1. stored' \subseteq stored /\ UNCHANGED <<target, secret, given, sub, known>>
    BY <1>11 DEF Delete, copies, history
  <2> QED
    BY <2>1 DEF SecretInv
<1>12. ASSUME UNCHANGED vars PROVE SecretInv'
  BY <1>2, <1>12 DEF vars, rows, copies, history
<1> QED
  BY <1>4, <1>5, <1>6, <1>7, <1>9, <1>10, <1>11, <1>12 DEF Next, Done

\* However the requests on it overlap, a webhook subscription has a secret, and one its owner was
\* given.
THEOREM WebhookHasSecretAlways == Spec => []WebhookHasSecret
<1>1. Init => SecretInv
  BY DEF Init, SecretInv
<1>2. TypeInv /\ SecretInv /\ [Next]_vars => SecretInv'
  BY SecretStep
<1>3. TypeInv /\ SecretInv => WebhookHasSecret
  BY DEF TypeInv, RowsOK, SecretInv, WebhookHasSecret
<1> QED
  BY <1>1, <1>2, <1>3, TypeInvariant, PTL DEF Spec

-----------------------------------------------------------------------------
(* The cap on subscriptions per owner *)

\* The subscriptions of an owner that no PATCH has inserted again.
Owned(o) == OwnedIn(stored \ revived, o)

\* From the count to the INSERT, POST holds the lock of the owner, who has room for one more.
Admitted(q) ==
  /\ pc[q] \in {"count_own", "lock_key", "count_others", "insert"} /\ sub[q] \notin used
       => ownerLock[OwnerOf[sub[q]]] = q
  /\ pc[q] \in {"lock_key", "count_others", "insert"} /\ sub[q] \notin used
       => Cardinality(Owned(OwnerOf[sub[q]])) < MaxPerOwner

CapInv == OwnerCapButRevived /\ \A q \in Requests : Admitted(q)

\* An owner has finitely many subscriptions.
LEMMA OwnedFinite ==
  ASSUME TypeInv, NEW o
  PROVE  IsFiniteSet(Owned(o)) /\ Cardinality(Owned(o)) \in Nat
<1>1. Owned(o) \subseteq Subs
  BY DEF TypeInv, RowsOK, Owned, OwnedIn
<1> QED
  BY <1>1, FS_Subset, FS_CardinalityType, SubscriptionsAssumption

\* An owner whose subscriptions were at most deleted is as far below the cap.
LEMMA OwnedLess ==
  ASSUME TypeInv, TypeInv', NEW o, Owned(o)' \subseteq Owned(o)
  PROVE  /\ Cardinality(Owned(o)) < MaxPerOwner => Cardinality(Owned(o)') < MaxPerOwner
         /\ Cardinality(Owned(o)) <= MaxPerOwner => Cardinality(Owned(o)') <= MaxPerOwner
<1>1. /\ IsFiniteSet(Owned(o)) /\ Cardinality(Owned(o)) \in Nat /\ Cardinality(Owned(o)') \in Nat
  <2>1. IsFiniteSet(Owned(o)) /\ Cardinality(Owned(o)) \in Nat
    BY OwnedFinite
  <2> QED
    BY <2>1, FS_Subset, FS_CardinalityType
<1>2. Cardinality(Owned(o)') <= Cardinality(Owned(o))
  BY <1>1, FS_Subset
<1>3. MaxPerOwner \in Nat
  BY SubscriptionsAssumption
<1> QED
  BY <1>1, <1>2, <1>3

\* The count of create() includes rows that were inserted again.
LEMMA OwnedBelow ==
  ASSUME TypeInv, NEW o, BelowOwnerCap(o)
  PROVE  Cardinality(Owned(o)) < MaxPerOwner
<1> DEFINE all == {s \in stored : OwnerOf[s] = o}
<1>1. Owned(o) \subseteq all /\ all \subseteq Subs /\ IsFiniteSet(Subs)
  BY SubscriptionsAssumption DEF Owned, OwnedIn, TypeInv, RowsOK
<1>2. Cardinality(all) < MaxPerOwner
  BY DEF BelowOwnerCap
<1>3. MaxPerOwner \in Nat
  BY SubscriptionsAssumption
<1> HIDE DEF all
<1>4. IsFiniteSet(all)
  BY <1>1, FS_Subset
<1>5. /\ Cardinality(Owned(o)) <= Cardinality(all) /\ Cardinality(all) \in Nat
      /\ Cardinality(Owned(o)) \in Nat
  BY <1>1, <1>4, FS_Subset, FS_CardinalityType
<1> QED
  BY <1>2, <1>3, <1>5

\* A step of q that adds no row, or one that was deleted, leaves the other requests admitted and the owners below the
\* cap.
LEMMA CapFrame ==
  ASSUME TypeInv, TypeInv', CapInv, NEW q \in Requests,
         stored' \ revived' \subseteq stored \ revived, UNCHANGED used,
         \A p \in Requests : p # q => pc'[p] = pc[p] /\ sub'[p] = sub[p],
         \A p \in Requests, o \in Owners : p # q /\ ownerLock[o] = p => ownerLock'[o] = p,
         Admitted(q)'
  PROVE  CapInv'
<1>1. \A o : Owned(o)' \subseteq Owned(o)
  BY DEF Owned, OwnedIn
<1>2. OwnerCapButRevived'
  <2>1. \A o \in Owners : Cardinality(Owned(o)) <= MaxPerOwner
    BY DEF CapInv, OwnerCapButRevived, Owned
  <2>2. \A o \in Owners : Cardinality(Owned(o)') <= MaxPerOwner
    BY <1>1, <2>1, OwnedLess
  <2> QED
    BY <2>2 DEF OwnerCapButRevived, Owned
<1>3. ASSUME NEW p \in Requests, p # q PROVE Admitted(p)'
  <2>1. Admitted(p)
    BY DEF CapInv
  <2> DEFINE o == OwnerOf[sub[p]]
  <2>2. Cardinality(Owned(o)) < MaxPerOwner => Cardinality(OwnedIn(stored' \ revived', o)) < MaxPerOwner
    <3>1. PICK y \in {o} : y = o
      OBVIOUS
    <3>2. Cardinality(Owned(y)) < MaxPerOwner => Cardinality(Owned(y)') < MaxPerOwner
      BY <1>1, OwnedLess
    <3> QED
      BY <3>1, <3>2 DEF Owned, OwnedIn
  <2>3. pc'[p] = pc[p] /\ sub'[p] = sub[p]
    BY <1>3
  <2>4. pc[p] \in {"count_own", "lock_key", "count_others", "insert"} => OwnerOf[sub[p]] \in Owners
    BY DEF TypeInv, WorkOK, Ended, Owners
  <2>5. pc[p] \in {"lock_key", "count_others", "insert"} /\ sub[p] \notin used
          => Cardinality(OwnedIn(stored' \ revived', o)) < MaxPerOwner
    BY <2>1, <2>2 DEF Admitted
  <2> QED
    BY <1>3, <2>1, <2>3, <2>4, <2>5 DEF Admitted, Owned, OwnedIn
<1> QED
  BY <1>2, <1>3 DEF CapInv

\* Of the locks, Finish releases those of its request only.
LEMMA FinishFrame ==
  ASSUME TypeInv, NEW q \in Requests, Finish(q)
  PROVE  /\ pc'[q] = "answered" /\ sub'[q] = NoSub
         /\ \A p \in Requests : p # q => /\ pc'[p] = pc[p] /\ sub'[p] = sub[p]
                                         /\ want'[p] = want[p] /\ was'[p] = was[p]
         /\ \A p \in Requests, o \in Owners : p # q /\ ownerLock[o] = p => ownerLock'[o] = p
         /\ \A p \in Requests, k \in Keys : p # q => (keyLock'[k] = p <=> keyLock[k] = p)
<1>1. /\ pc'[q] = "answered" /\ sub'[q] = NoSub
      /\ \A p \in Requests : p # q => /\ pc'[p] = pc[p] /\ sub'[p] = sub[p]
                                      /\ want'[p] = want[p] /\ was'[p] = was[p]
  BY DEF Finish, Goto, TypeInv, RequestsOK
<1>2. DOMAIN ownerLock = Owners /\ DOMAIN keyLock = Keys /\ Nobody \notin Requests
  BY SubscriptionsAssumption DEF TypeInv, LocksOK
<1> QED
  BY <1>1, <1>2 DEF Finish, Unlocked

\* The INSERT adds one row to the owner whose lock it holds.
LEMMA CapInsert ==
  ASSUME TypeInv, TypeInv', FreshIds, CapInv, NEW q \in Requests, Insert(q)
  PROVE  CapInv'
<1> DEFINE s == sub[q]
           o == OwnerOf[s]
<1>1. /\ pc[q] = "insert" /\ Finish(q) /\ used' = used \union {s} /\ stored' = stored \union {s}
      /\ revived' = revived
  BY DEF Insert, SaveAll
<1>2. s \in Subs /\ s \notin used /\ s \notin stored /\ s \notin revived /\ o \in Owners
  BY <1>1 DEF TypeInv, WorkOK, Ended, RowsOK, FreshIds, Owners
<1>3. ownerLock[o] = q /\ Cardinality(Owned(o)) < MaxPerOwner
  BY <1>1, <1>2 DEF CapInv, Admitted
<1>4. /\ pc'[q] = "answered"
      /\ \A p \in Requests : p # q => pc'[p] = pc[p] /\ sub'[p] = sub[p]
      /\ \A p \in Requests, x \in Owners : p # q /\ ownerLock[x] = p => ownerLock'[x] = p
  BY <1>1, FinishFrame
<1> HIDE DEF s, o
<1>5. OwnerCapButRevived'
  <2>1. IsFiniteSet(Owned(o)) /\ Cardinality(Owned(o)) \in Nat
    BY OwnedFinite
  <2>2. OwnedIn(stored' \ revived', o) = Owned(o) \union {s} /\ s \notin Owned(o)
    BY <1>1, <1>2 DEF Owned, OwnedIn, o
  <2>3. Cardinality(OwnedIn(stored' \ revived', o)) <= MaxPerOwner
    <3>1. Cardinality(Owned(o) \union {s}) = Cardinality(Owned(o)) + 1
      BY <2>1, <2>2, FS_AddElement
    <3>2. MaxPerOwner \in Nat
      BY SubscriptionsAssumption
    <3>3. Cardinality(OwnedIn(stored' \ revived', o)) = Cardinality(Owned(o)) + 1
      BY <2>2, <3>1
    <3> QED
      BY <1>3, <2>1, <3>2, <3>3
  <2>4. ASSUME NEW y \in Owners, y # o
        PROVE  Cardinality(OwnedIn(stored' \ revived', y)) <= MaxPerOwner
    <3>1. OwnedIn(stored' \ revived', y) = OwnedIn(stored \ revived, y)
      BY <1>1, <2>4 DEF o, OwnedIn
    <3> QED
      BY <3>1 DEF CapInv, OwnerCapButRevived
  <2> QED
    BY <2>3, <2>4 DEF OwnerCapButRevived
<1>6. ASSUME NEW p \in Requests PROVE Admitted(p)'
  <2>1. CASE p = q
    BY <1>4, <2>1 DEF Admitted
  <2>2. CASE p # q
    <3> DEFINE y == OwnerOf[sub[p]]
    <3>1. pc'[p] = pc[p] /\ sub'[p] = sub[p] /\ Admitted(p)
      BY <1>4, <2>2 DEF CapInv
    <3> SUFFICES ASSUME pc[p] \in {"count_own", "lock_key", "count_others", "insert"},
                        sub[p] \notin used
                 PROVE  Admitted(p)'
      BY <1>1, <3>1 DEF Admitted
    <3>2. ownerLock[y] = p /\ y \in Owners
      BY <3>1 DEF Admitted, TypeInv, WorkOK, Ended, Owners
    <3>3. ownerLock'[y] = p /\ y # o
      BY <1>3, <1>4, <2>2, <3>2
    <3>4. OwnedIn(stored' \ revived', y) = OwnedIn(stored \ revived, y)
      BY <1>1, <3>3 DEF o, OwnedIn
    <3> QED
      BY <3>1, <3>3, <3>4 DEF Admitted, Owned
  <2> QED
    BY <2>1, <2>2
<1> QED
  BY <1>5, <1>6 DEF CapInv

\* Every step keeps owners within their cap.
LEMMA CapStep ==
  ASSUME TypeInv, FreshIds, CapInv, [Next]_vars
  PROVE  CapInv'
<1>1. TypeInv'
  BY TypeStep
<1>2. RowsOK /\ RequestsOK /\ LocksOK /\ WorkOK
  BY DEF TypeInv
<1>3. ASSUME UNCHANGED vars PROVE CapInv'
  BY <1>3 DEF vars, rows, copies, locks, history, CapInv, OwnerCapButRevived, Admitted, Owned, OwnedIn
<1>4. ASSUME NEW q \in Requests, Finish(q), UNCHANGED used, stored' \ revived' \subseteq stored \ revived
      PROVE  CapInv'
  <2>1. Admitted(q)'
    BY <1>4, FinishFrame DEF Admitted
  <2> QED
    BY <1>1, <1>4, <2>1, FinishFrame, CapFrame
<1>5. ASSUME NEW q \in Requests, NEW at \in States, Goto(q, at), UNCHANGED <<rows, locks, history>>,
             \A p \in Requests : p # q => sub'[p] = sub[p], Admitted(q)'
      PROVE  CapInv'
  <2>1. \A p \in Requests : p # q => pc'[p] = pc[p]
    BY <1>2, <1>5 DEF Goto, RequestsOK
  <2>2. stored' \ revived' \subseteq stored \ revived /\ UNCHANGED <<used, ownerLock>>
    BY <1>5 DEF rows, locks, history
  <2> QED
    BY <1>1, <1>5, <2>1, <2>2, CapFrame
<1>6. ASSUME NEW q \in Requests, LockOwner(q) PROVE CapInv'
  <2> DEFINE o == OwnerOf[sub[q]]
  <2>1. /\ Goto(q, "count_own") /\ pc[q] = "lock_owner" /\ ownerLock[o] = Nobody
        /\ ownerLock' = [ownerLock EXCEPT ![o] = q]
        /\ UNCHANGED <<used, stored, revived, sub>>
    BY <1>6 DEF LockOwner, rows, copies, history
  <2>2. pc'[q] = "count_own" /\ \A p \in Requests : p # q => pc'[p] = pc[p]
    BY <1>2, <2>1 DEF Goto, RequestsOK
  <2>3. o \in Owners
    BY <1>2, <2>1 DEF WorkOK, Ended, Owners
  <2>4. /\ ownerLock'[o] = q
        /\ \A p \in Requests, x \in Owners : p # q /\ ownerLock[x] = p => ownerLock'[x] = p
    <3>1. Nobody \notin Requests /\ ownerLock \in [Owners -> Requests \union {Nobody}]
      BY <1>2, SubscriptionsAssumption DEF LocksOK
    <3> HIDE DEF o
    <3> QED
      BY <2>1, <2>3, <3>1
  <2>5. Admitted(q)'
    BY <2>1, <2>2, <2>4 DEF Admitted
  <2> QED
    BY <1>1, <2>1, <2>2, <2>4, <2>5, CapFrame
<1>7. ASSUME NEW q \in Requests, CountOwn(q) PROVE CapInv'
  <2>1. CASE Refuse(q)
    BY <1>4, <2>1 DEF Refuse, rows, history
  <2>2. CASE /\ BelowOwnerCap(OwnerOf[sub[q]]) /\ Goto(q, "lock_key")
             /\ UNCHANGED <<rows, copies, locks, history>>
    <3>1. pc[q] = "count_own" /\ sub[q] \notin used /\ pc'[q] = "lock_key"
      BY <1>2, <1>7, <2>2 DEF CountOwn, FreshIds, Goto, RequestsOK
    <3>2. ownerLock[OwnerOf[sub[q]]] = q
      BY <3>1 DEF CapInv, Admitted
    <3>3. UNCHANGED <<used, stored, revived, sub, ownerLock>>
      BY <2>2 DEF rows, copies, locks, history
    <3>4. Cardinality(Owned(OwnerOf[sub[q]])) < MaxPerOwner
      BY <2>2, OwnedBelow
    <3>5. Admitted(q)'
      BY <3>1, <3>2, <3>3, <3>4 DEF Admitted, Owned, OwnedIn
    <3> QED
      BY <1>5, <2>2, <3>3, <3>5 DEF States
  <2> QED
    BY <1>7, <2>1, <2>2 DEF CountOwn
<1>8. ASSUME NEW q \in Requests, LockKey(q) PROVE CapInv'
  <2>1. /\ Goto(q, "count_others") /\ pc[q] = "lock_key"
        /\ UNCHANGED <<used, stored, revived, sub, ownerLock>>
    BY <1>8 DEF LockKey, rows, copies, history
  <2>2. pc'[q] = "count_others" /\ \A p \in Requests : p # q => pc'[p] = pc[p]
    BY <1>2, <2>1 DEF Goto, RequestsOK
  <2>3. Admitted(q)'
    BY <2>1, <2>2 DEF CapInv, Admitted, Owned, OwnedIn
  <2> QED
    BY <1>1, <2>1, <2>2, <2>3, CapFrame
<1>9. ASSUME NEW q \in Requests, CountOthers(q) PROVE CapInv'
  <2>1. CASE Refuse(q)
    BY <1>4, <2>1 DEF Refuse, rows, history
  <2>2. CASE /\ Goto(q, IF sub[q] \in used THEN "save" ELSE "insert")
             /\ UNCHANGED <<rows, copies, locks, history>>
    <3>1. PICK at \in {"save", "insert"} : Goto(q, at)
      BY <2>2
    <3>2. pc[q] = "count_others" /\ pc'[q] = at
      BY <1>2, <1>9, <3>1 DEF CountOthers, Goto, RequestsOK
    <3>3. UNCHANGED <<used, stored, revived, sub, ownerLock>>
      BY <2>2 DEF rows, copies, locks, history
    <3>4. Admitted(q)'
      BY <3>2, <3>3 DEF CapInv, Admitted, Owned, OwnedIn
    <3> QED
      BY <1>5, <2>2, <3>1, <3>3, <3>4 DEF States
  <2> QED
    BY <1>9, <2>1, <2>2 DEF CountOthers
<1>10. ASSUME NEW q \in Requests, SavePatch(q) PROVE CapInv'
  <2>1. /\ Finish(q) /\ stored' = stored \union {sub[q]} /\ UNCHANGED used
        /\ revived' = IF sub[q] \in stored THEN revived ELSE revived \union {sub[q]}
    BY <1>10 DEF SavePatch, SaveAll
  <2>2. stored' \ revived' \subseteq stored \ revived
    BY <2>1
  <2> QED
    BY <1>4, <2>1, <2>2
<1>11. ASSUME NEW q \in Requests, Rotate(q) \/ SaveDigest(q) PROVE CapInv'
  <2>1. Finish(q) /\ UNCHANGED <<used, stored, revived>>
    BY <1>11 DEF Rotate, SaveDigest
  <2> QED
    BY <1>4, <2>1
<1>12. ASSUME NEW q \in Requests, NEW s \in Subs, NEW t \in Targets, Post(q, s, t) PROVE CapInv'
  <2>1. Goto(q, "lock_owner") /\ UNCHANGED <<rows, locks, history>> /\ sub' = [sub EXCEPT ![q] = s]
    BY <1>12 DEF Post, locks
  <2>2. pc'[q] = "lock_owner" /\ \A p \in Requests : p # q => sub'[p] = sub[p]
    BY <1>2, <2>1 DEF Goto, RequestsOK
  <2>3. Admitted(q)'
    BY <2>2 DEF Admitted
  <2> QED
    BY <1>5, <2>1, <2>2, <2>3 DEF States
<1>13. ASSUME NEW q \in Requests, NEW s \in Subs, Load(q, s), UNCHANGED <<rows, locks, history>>,
              NEW at \in {"save", "lock_key", "rotate", "digest"}, Goto(q, at)
       PROVE  CapInv'
  <2>1. sub'[q] = s /\ s \in used /\ \A p \in Requests : p # q => sub'[p] = sub[p]
    BY <1>2, <1>13 DEF Load, RequestsOK, RowsOK
  <2>2. Admitted(q)'
    BY <1>13, <2>1 DEF Admitted, rows
  <2> QED
    BY <1>5, <1>13, <2>1, <2>2 DEF States
<1>14. ASSUME NEW q \in Requests, NEW s \in Subs, NEW t \in Targets, Patch(q, s, t) PROVE CapInv'
  <2>1. PICK at \in {"save", "lock_key"} : Goto(q, at)
    BY <1>14 DEF Patch
  <2> QED
    BY <1>13, <1>14, <2>1 DEF Patch
<1>15. ASSUME NEW q \in Requests, NEW s \in Subs, StartRotate(q, s) \/ StartDigest(q, s) PROVE CapInv'
  <2>1. PICK at \in {"rotate", "digest"} : Goto(q, at)
    BY <1>15 DEF StartRotate, StartDigest
  <2> QED
    BY <1>13, <1>15, <2>1 DEF StartRotate, StartDigest
<1>16. ASSUME NEW q \in Requests, NEW s \in Subs, Delete(q, s) PROVE CapInv'
  <2>1. /\ Goto(q, "answered") /\ stored' \ revived' \subseteq stored \ revived
        /\ UNCHANGED <<used, sub, ownerLock>>
    BY <1>16 DEF Delete, copies, locks, history
  <2>2. pc'[q] = "answered" /\ \A p \in Requests : p # q => pc'[p] = pc[p]
    BY <1>2, <2>1 DEF Goto, RequestsOK
  <2>3. Admitted(q)'
    BY <2>2 DEF Admitted
  <2> QED
    BY <1>1, <2>1, <2>2, <2>3, CapFrame
<1>17. ASSUME NEW q \in Requests, Insert(q) PROVE CapInv'
  BY <1>1, <1>17, CapInsert
<1> QED
  BY <1>3, <1>6, <1>7, <1>8, <1>9, <1>10, <1>11, <1>12, <1>14, <1>15, <1>16, <1>17 DEF Next, Done

\* However many requests an owner has in flight, and however old their copies, only rows inserted
\* again by a PATCH after they were deleted take the owner above the limit.
THEOREM OwnerCapAlways == Spec => []OwnerCapButRevived
<1>1. Init => CapInv
  <2> SUFFICES ASSUME Init PROVE CapInv
    OBVIOUS
  <2>1. \A q \in Requests : Admitted(q)
    BY DEF Init, Admitted
  <2>2. ASSUME NEW o \in Owners PROVE Cardinality(OwnedIn(stored \ revived, o)) <= MaxPerOwner
    <3>1. OwnedIn(stored \ revived, o) = {}
      BY DEF Init, OwnedIn
    <3> QED
      BY <3>1, FS_EmptySet, SubscriptionsAssumption
  <2> QED
    BY <2>1, <2>2 DEF CapInv, OwnerCapButRevived
<1>2. TypeInv /\ FreshIds /\ CapInv /\ [Next]_vars => CapInv'
  BY CapStep
<1>3. CapInv => OwnerCapButRevived
  BY DEF CapInv
<1> QED
  BY <1>1, <1>2, <1>3, FreshInvariant, PTL DEF Spec

-----------------------------------------------------------------------------
(* The cap on accounts per target *)

\* The accounts whose rows with key k were checked, or written from a copy that was not stale.
Accounts(k) == AccountsIn(stored \ stale, k)

\* The key of such a row is the key of its target.
FreshKeys == \A s \in stored \ stale : key[s] = KeyOf[target[s]]

\* Request q holds the lock of the key it is about to save, and there is room for its account.
Reserved(q) ==
  /\ keyLock[KeyOf[want[q]]] = q
  /\ Cardinality(Accounts(KeyOf[want[q]]) \ {OwnerOf[sub[q]]}) < MaxAccounts

\* From the count to the save the key is reserved, unless the target is the one in the copy.
Entitled(q) ==
  /\ pc[q] = "count_others" => keyLock[KeyOf[want[q]]] = q
  /\ pc[q] = "insert" => Reserved(q)
  /\ pc[q] = "save" => Reserved(q) \/ (want[q] = was[q] /\ ~Checked(q))

AccountCap == \A k \in Keys : Cardinality(Accounts(k)) <= MaxAccounts

TargetInv == FreshKeys /\ AccountCap /\ \A q \in Requests : Entitled(q)

\* A key has finitely many accounts.
LEMMA AccountsFinite ==
  ASSUME TypeInv, NEW k
  PROVE  IsFiniteSet(Accounts(k)) /\ Cardinality(Accounts(k)) \in Nat
<1> DEFINE f == [s \in Subs |-> OwnerOf[s]]
<1>1. IsFiniteSet(Subs) /\ stored \subseteq Subs
  BY SubscriptionsAssumption DEF TypeInv, RowsOK
<1>2. f \in Surjection(Subs, Owners)
  BY DEF Surjection, Owners
<1>3. IsFiniteSet(Owners)
  BY <1>1, <1>2, FS_Surjection
<1>4. Accounts(k) \subseteq Owners
  BY <1>1 DEF Accounts, AccountsIn, Owners
<1> QED
  BY <1>3, <1>4, FS_Subset, FS_CardinalityType

\* Fewer accounts leave as much room.
LEMMA OthersLess ==
  ASSUME TypeInv, NEW k, NEW o, NEW now, now \subseteq Accounts(k)
  PROVE  /\ Cardinality(now) <= Cardinality(Accounts(k))
         /\ Cardinality(now \ {o}) <= Cardinality(Accounts(k) \ {o})
         /\ Cardinality(now) \in Nat /\ Cardinality(now \ {o}) \in Nat
         /\ Cardinality(Accounts(k)) \in Nat /\ Cardinality(Accounts(k) \ {o}) \in Nat
<1>1. IsFiniteSet(Accounts(k))
  BY AccountsFinite
<1>2. now \ {o} \subseteq Accounts(k) \ {o} /\ IsFiniteSet(Accounts(k) \ {o})
  BY <1>1, FS_Subset
<1>3. IsFiniteSet(now) /\ IsFiniteSet(now \ {o})
  BY <1>1, <1>2, FS_Subset
<1> QED
  BY <1>1, <1>2, <1>3, FS_Subset, FS_CardinalityType

\* _check_target counts by target_key, and so all of these accounts.
LEMMA CountedByKey ==
  ASSUME TypeInv, FreshKeys, NEW k, NEW o, Cardinality(Others(o, k)) < MaxAccounts
  PROVE  Cardinality(Accounts(k) \ {o}) < MaxAccounts
<1>1. Accounts(k) \ {o} \subseteq Others(o, k)
  BY DEF Accounts, AccountsIn, Others, FreshKeys
<1>2. Others(o, k) \subseteq Owners
  BY DEF Others, Owners, TypeInv, RowsOK
<1>3. IsFiniteSet(Owners)
  <2>1. [s \in Subs |-> OwnerOf[s]] \in Surjection(Subs, Owners)
    BY DEF Surjection, Owners
  <2> QED
    BY <2>1, FS_Surjection, SubscriptionsAssumption
<1>4. IsFiniteSet(Others(o, k))
  BY <1>2, <1>3, FS_Subset
<1>5. /\ Cardinality(Accounts(k) \ {o}) <= Cardinality(Others(o, k))
      /\ Cardinality(Accounts(k) \ {o}) \in Nat /\ Cardinality(Others(o, k)) \in Nat
  BY <1>1, <1>4, FS_Subset, FS_CardinalityType
<1>6. MaxAccounts \in Nat
  BY SubscriptionsAssumption
<1> QED
  BY <1>5, <1>6

\* A step of q adds an account to no key, or to the one it has reserved.
LEMMA TargetFrame ==
  ASSUME TypeInv, TypeInv', TargetInv, NEW q \in Requests,
         \A p \in Requests : p # q => /\ pc'[p] = pc[p] /\ sub'[p] = sub[p]
                                      /\ want'[p] = want[p] /\ was'[p] = was[p],
         \A p \in Requests, k \in Keys : p # q => (keyLock'[k] = p <=> keyLock[k] = p),
         \A k \in Keys :
           \/ Accounts(k)' \subseteq Accounts(k)
           \/ /\ k = KeyOf[want[q]] /\ Reserved(q)
              /\ Accounts(k)' \subseteq Accounts(k) \union {OwnerOf[sub[q]]},
         FreshKeys', Entitled(q)'
  PROVE  TargetInv'
<1>1. MaxAccounts \in Nat
  BY SubscriptionsAssumption
<1>2. ASSUME NEW k \in Keys PROVE Cardinality(Accounts(k)') <= MaxAccounts
  <2>1. CASE Accounts(k)' \subseteq Accounts(k)
    <3>1. /\ Cardinality(Accounts(k)') <= Cardinality(Accounts(k))
          /\ Cardinality(Accounts(k)') \in Nat /\ Cardinality(Accounts(k)) \in Nat
      BY <2>1, OthersLess
    <3>2. Cardinality(Accounts(k)) <= MaxAccounts
      BY DEF TargetInv, AccountCap
    <3> QED
      BY <1>1, <3>1, <3>2
  <2>2. CASE /\ k = KeyOf[want[q]] /\ Reserved(q)
             /\ Accounts(k)' \subseteq Accounts(k) \union {OwnerOf[sub[q]]}
    <3> DEFINE o == OwnerOf[sub[q]]
               rest == Accounts(k) \ {o}
    <3>1. Cardinality(rest) < MaxAccounts
      BY <2>2 DEF Reserved
    <3>2. rest = Accounts(k) \ {o} /\ IsFiniteSet(Accounts(k))
      BY AccountsFinite
    <3>3. Accounts(k)' \subseteq rest \union {o} /\ o \notin rest
      BY <2>2, <3>2
    <3> HIDE DEF o, rest
    <3>4. IsFiniteSet(rest) /\ Cardinality(rest) \in Nat
      BY <3>2, FS_Subset, FS_CardinalityType
    <3>5. IsFiniteSet(rest \union {o}) /\ Cardinality(rest \union {o}) = Cardinality(rest) + 1
      BY <3>3, <3>4, FS_AddElement
    <3>6. Cardinality(Accounts(k)') <= Cardinality(rest \union {o}) /\ Cardinality(Accounts(k)') \in Nat
      BY <3>3, <3>5, FS_Subset, FS_CardinalityType
    <3> QED
      BY <1>1, <3>1, <3>4, <3>5, <3>6
  <2> QED
    BY <2>1, <2>2
<1>3. ASSUME NEW p \in Requests, p # q PROVE Entitled(p)'
  <2> DEFINE k == KeyOf[want[p]]
             o == OwnerOf[sub[p]]
  <2>1. Entitled(p) /\ pc'[p] = pc[p] /\ sub'[p] = sub[p] /\ want'[p] = want[p]
    BY <1>3 DEF TargetInv
  <2>2. ASSUME pc[p] \in {"count_others", "insert", "save"} PROVE k \in Keys
    BY <2>2 DEF TypeInv, WorkOK, Posting, Keys
  <2>3. ASSUME pc[p] \in {"insert", "save"}, Reserved(p)
        PROVE  Reserved(p)'
    <3>1. keyLock[k] = p /\ Cardinality(Accounts(k) \ {o}) < MaxAccounts
      BY <2>3 DEF Reserved
    <3>2. ~(k = KeyOf[want[q]] /\ Reserved(q))
      BY <1>3, <3>1 DEF Reserved
    <3>3. k \in Keys
      BY <2>2, <2>3
    <3>4. PICK x \in Keys, y \in {o} : x = k /\ y = o
      BY <3>3
    <3>5. Accounts(x)' \subseteq Accounts(x)
      BY <3>2, <3>4
    <3>6. /\ Cardinality(Accounts(x)' \ {y}) <= Cardinality(Accounts(x) \ {y})
          /\ Cardinality(Accounts(x)' \ {y}) \in Nat /\ Cardinality(Accounts(x) \ {y}) \in Nat
      BY <3>5, OthersLess
    <3>7. Accounts(KeyOf[want[p]])' \ {OwnerOf[sub'[p]]} = Accounts(x)' \ {y}
      BY <2>1, <3>4 DEF Accounts, AccountsIn
    <3>8. Cardinality(Accounts(x)' \ {y}) < MaxAccounts
      BY <1>1, <3>1, <3>4, <3>6
    <3>9. keyLock'[KeyOf[want'[p]]] = p
      BY <1>3, <2>1, <3>1, <3>3
    <3> QED
      BY <3>7, <3>8, <3>9 DEF Reserved
  <2>4. pc[p] = "count_others" => keyLock'[k] = p
    BY <1>3, <2>1, <2>2 DEF Entitled
  <2>5. pc[p] = "save" /\ ~Checked(p) => ~Checked(p)'
    BY <1>3, <2>1, <2>2 DEF Checked
  <2>6. pc[p] \in {"insert", "save"} /\ Reserved(p) => Reserved(p)'
    BY <2>3
  <2>7. was'[p] = was[p]
    BY <1>3
  <2> QED
    BY <2>1, <2>4, <2>5, <2>6, <2>7 DEF Entitled
<1> QED
  BY <1>2, <1>3 DEF TargetInv, AccountCap

\* A step that writes no row keeps the accounts of every key, or drops some.
LEMMA TargetQuiet ==
  ASSUME TypeInv, TypeInv', TargetInv, NEW q \in Requests,
         \A p \in Requests : p # q => /\ pc'[p] = pc[p] /\ sub'[p] = sub[p]
                                      /\ want'[p] = want[p] /\ was'[p] = was[p],
         \A p \in Requests, k \in Keys : p # q => (keyLock'[k] = p <=> keyLock[k] = p),
         stored' \subseteq stored, UNCHANGED <<target, key, stale>>, Entitled(q)'
  PROVE  TargetInv'
<1>1. \A k \in Keys : Accounts(k)' \subseteq Accounts(k)
  BY DEF Accounts, AccountsIn
<1>2. FreshKeys'
  BY DEF TargetInv, FreshKeys
<1> QED
  BY <1>1, <1>2, TargetFrame

\* A step of q that writes target t and its key to row s, after the check or from a copy that
\* was not stale, or makes s a stale row.
LEMMA TargetWrite ==
  ASSUME TypeInv, TypeInv', TargetInv, NEW q \in Requests, NEW s \in Subs, NEW t \in Targets,
         s = sub[q], Finish(q), stored \subseteq stored', stored' \subseteq stored \union {s},
         \A x \in Subs : x # s => /\ target'[x] = target[x] /\ key'[x] = key[x]
                                  /\ (x \in stale' <=> x \in stale),
         s \in stored' \ stale' => /\ target'[s] = t /\ key'[s] = KeyOf[t]
                                   /\ \/ t = want[q] /\ Reserved(q)
                                      \/ s \in stored \ stale /\ t = target[s]
  PROVE  TargetInv'
<1>1. /\ pc'[q] = "answered"
      /\ \A p \in Requests : p # q => /\ pc'[p] = pc[p] /\ sub'[p] = sub[p]
                                      /\ want'[p] = want[p] /\ was'[p] = was[p]
      /\ \A p \in Requests, k \in Keys : p # q => (keyLock'[k] = p <=> keyLock[k] = p)
  BY FinishFrame
<1>2. Entitled(q)'
  BY <1>1 DEF Entitled
<1>3. stored \subseteq Subs /\ stored' \subseteq Subs
  BY DEF TypeInv, RowsOK
<1>4. FreshKeys'
  BY <1>3 DEF TargetInv, FreshKeys
<1>5. ASSUME NEW k \in Keys
      PROVE  \/ Accounts(k)' \subseteq Accounts(k)
             \/ /\ k = KeyOf[want[q]] /\ Reserved(q)
                /\ Accounts(k)' \subseteq Accounts(k) \union {OwnerOf[sub[q]]}
  <2> DEFINE old == {x \in stored \ stale : KeyOf[target[x]] = k}
             now == {x \in stored' \ stale' : KeyOf[target'[x]] = k}
  <2>1. now \subseteq old \union {s}
    BY <1>3
  <2>2. Accounts(k) = {OwnerOf[x] : x \in old} /\ Accounts(k)' = {OwnerOf[x] : x \in now}
    BY DEF Accounts, AccountsIn
  <2>3. CASE s \in now /\ s \notin old
    <3>1. k = KeyOf[want[q]] /\ Reserved(q)
      BY <2>3
    <3>2. Accounts(k)' \subseteq Accounts(k) \union {OwnerOf[s]}
      BY <2>1, <2>2
    <3> QED
      BY <3>1, <3>2
  <2>4. CASE ~(s \in now /\ s \notin old)
    <3>1. now \subseteq old
      BY <2>1, <2>4
    <3> QED
      BY <2>2, <3>1
  <2> QED
    BY <2>3, <2>4
<1> QED
  BY <1>1, <1>2, <1>4, <1>5, TargetFrame

\* A save of all columns adds the account of q to the key it has reserved, leaves the target as
\* it was, or makes the row a stale one.
LEMMA TargetSave ==
  ASSUME TypeInv, TypeInv', FreshIds, TargetInv, NEW q \in Requests, Insert(q) \/ SavePatch(q)
  PROVE  TargetInv'
<1> DEFINE s == sub[q]
           t == want[q]
<1>1. /\ pc[q] \in {"insert", "save"} /\ SaveAll(q, s, t) /\ Finish(q)
  BY DEF Insert, SavePatch
<1>2. /\ stored' = stored \union {s}
      /\ target' = [target EXCEPT ![s] = t]
      /\ key' = [key EXCEPT ![s] = KeyOf[t]]
  BY <1>1 DEF SaveAll, NewKey
<1>3. s \in Subs /\ t \in Targets /\ RowsOK
  BY <1>1 DEF TypeInv, WorkOK, Ended, Posting
<1>4. Entitled(q)
  BY DEF TargetInv
<1>5. /\ \A x : x # s => (x \in stale' <=> x \in stale)
      /\ s \notin stale' => Reserved(q) \/ (s \in stored \ stale /\ t = target[s])
  <2>1. CASE Insert(q)
    BY <1>4, <2>1 DEF Insert, Entitled
  <2>2. CASE SavePatch(q)
    <3>1. stale' = IF Checked(q) THEN stale \ {s} ELSE IF SameRow(q) THEN stale ELSE stale \union {s}
      BY <2>2 DEF SavePatch
    <3>2. pc[q] = "save"
      BY <2>2 DEF SavePatch
    <3>3. Checked(q) => Reserved(q)
      BY <1>4, <3>2 DEF Entitled
    <3>4. ~Checked(q) => t = was[q] \/ Reserved(q)
      BY <1>4, <3>2 DEF Entitled
    <3> QED
      BY <3>1, <3>3, <3>4 DEF SameRow
  <2> QED
    BY <2>1, <2>2
<1> HIDE DEF s, t
<1>6. /\ target'[s] = t /\ key'[s] = KeyOf[t]
      /\ \A x \in Subs : x # s => target'[x] = target[x] /\ key'[x] = key[x]
  BY <1>2, <1>3 DEF RowsOK
<1> QED
  BY <1>1, <1>2, <1>3, <1>5, <1>6, TargetWrite DEF s, t

\* The other saves write the key of the target in the copy: that of the row, or the row is stale.
LEMMA TargetSaveSome ==
  ASSUME TypeInv, TypeInv', TargetInv, NEW q \in Requests, Rotate(q) \/ SaveDigest(q)
  PROVE  TargetInv'
<1> DEFINE s == sub[q]
           t == was[q]
<1>1. /\ pc[q] \in {"rotate", "digest"} /\ Finish(q) /\ UNCHANGED <<stored, target>>
      /\ key' = IF s \in stored THEN [key EXCEPT ![s] = KeyOf[t]] ELSE key
      /\ stale' = IF s \in stored /\ ~SameRow(q) THEN stale \union {s} ELSE stale
  BY DEF Rotate, SaveDigest, NewKey
<1>2. s \in Subs /\ t \in Targets /\ RowsOK
  BY <1>1 DEF TypeInv, WorkOK, Ended
<1>3. s \in stored /\ s \notin stale' => t = target[s] /\ s \notin stale
  BY <1>1 DEF SameRow
<1> HIDE DEF s, t
<1>4. /\ s \in stored => key'[s] = KeyOf[t]
      /\ \A x \in Subs : x # s => key'[x] = key[x] /\ (x \in stale' <=> x \in stale)
  BY <1>1, <1>2 DEF RowsOK
<1> QED
  BY <1>1, <1>2, <1>3, <1>4, TargetWrite DEF s

\* Every step keeps targets within their cap.
LEMMA TargetStep ==
  ASSUME TypeInv, FreshIds, TargetInv, [Next]_vars
  PROVE  TargetInv'
<1>1. TypeInv'
  BY TypeStep
<1>2. RowsOK /\ RequestsOK /\ LocksOK /\ WorkOK
  BY DEF TypeInv
<1>3. ASSUME UNCHANGED vars PROVE TargetInv'
  BY <1>3 DEF vars, rows, copies, locks, history, TargetInv, FreshKeys, AccountCap, Accounts, AccountsIn,
     Entitled, Reserved, Checked
<1>4. ASSUME NEW q \in Requests, Finish(q), UNCHANGED <<stored, target, key, stale>> PROVE TargetInv'
  <2>1. Entitled(q)'
    BY <1>4, FinishFrame DEF Entitled
  <2> QED
    BY <1>1, <1>4, <2>1, FinishFrame, TargetQuiet
<1>5. ASSUME NEW q \in Requests, NEW at \in States, Goto(q, at), UNCHANGED <<rows, keyLock, history>>,
             \A p \in Requests : p # q => sub'[p] = sub[p] /\ want'[p] = want[p] /\ was'[p] = was[p],
             Entitled(q)'
      PROVE  TargetInv'
  <2>1. \A p \in Requests : p # q => pc'[p] = pc[p]
    BY <1>2, <1>5 DEF Goto, RequestsOK
  <2>2. stored' \subseteq stored /\ UNCHANGED <<target, key, stale>>
    BY <1>5 DEF rows, history
  <2> QED
    BY <1>1, <1>5, <2>1, <2>2, TargetQuiet
<1>6. ASSUME NEW q \in Requests, LockOwner(q) PROVE TargetInv'
  <2>1. Goto(q, "count_own") /\ UNCHANGED <<rows, keyLock, history, sub, want, was>>
    BY <1>6 DEF LockOwner, copies
  <2>2. pc'[q] = "count_own"
    BY <1>2, <2>1 DEF Goto, RequestsOK
  <2>3. Entitled(q)'
    BY <2>2 DEF Entitled
  <2> QED
    BY <1>5, <2>1, <2>3 DEF States
<1>7. ASSUME NEW q \in Requests, CountOwn(q) PROVE TargetInv'
  <2>1. CASE Refuse(q)
    BY <1>4, <2>1 DEF Refuse, rows, history
  <2>2. CASE Goto(q, "lock_key") /\ UNCHANGED <<rows, copies, locks, history>>
    <3>1. pc'[q] = "lock_key" /\ UNCHANGED <<keyLock, sub, want, was>>
      BY <1>2, <2>2 DEF Goto, RequestsOK, copies, locks
    <3>2. Entitled(q)'
      BY <3>1 DEF Entitled
    <3> QED
      BY <1>5, <2>2, <3>1, <3>2 DEF States
  <2> QED
    BY <1>7, <2>1, <2>2 DEF CountOwn
<1>8. ASSUME NEW q \in Requests, LockKey(q) PROVE TargetInv'
  <2> DEFINE k == KeyOf[want[q]]
  <2>1. /\ Goto(q, "count_others") /\ pc[q] = "lock_key" /\ keyLock[k] = Nobody
        /\ keyLock' = [keyLock EXCEPT ![k] = q]
        /\ UNCHANGED <<stored, target, key, stale, sub, want, was>>
    BY <1>8 DEF LockKey, KeyIsFree, rows, copies, history
  <2>2. pc'[q] = "count_others" /\ \A p \in Requests : p # q => pc'[p] = pc[p]
    BY <1>2, <2>1 DEF Goto, RequestsOK
  <2>3. k \in Keys
    BY <1>2, <2>1 DEF WorkOK, Posting, Keys
  <2>4. /\ keyLock'[k] = q
        /\ \A p \in Requests, x \in Keys : p # q => (keyLock'[x] = p <=> keyLock[x] = p)
    <3>1. Nobody \notin Requests /\ keyLock \in [Keys -> Requests \union {Nobody}]
      BY <1>2, SubscriptionsAssumption DEF LocksOK
    <3> HIDE DEF k
    <3> QED
      BY <2>1, <2>3, <3>1
  <2>5. Entitled(q)'
    BY <2>1, <2>2, <2>4 DEF Entitled
  <2> QED
    BY <1>1, <2>1, <2>2, <2>4, <2>5, TargetQuiet
<1>9. ASSUME NEW q \in Requests, CountOthers(q) PROVE TargetInv'
  <2>1. CASE Refuse(q)
    BY <1>4, <2>1 DEF Refuse, rows, history
  <2>2. CASE /\ Cardinality(Others(OwnerOf[sub[q]], KeyOf[want[q]])) < MaxAccounts
             /\ Goto(q, IF sub[q] \in used THEN "save" ELSE "insert")
             /\ UNCHANGED <<rows, copies, locks, history>>
    <3>1. PICK at \in {"save", "insert"} : Goto(q, at)
      BY <2>2
    <3>2. pc[q] = "count_others" /\ pc'[q] = at
      BY <1>2, <1>9, <3>1 DEF CountOthers, Goto, RequestsOK
    <3>3. keyLock[KeyOf[want[q]]] = q
      BY <3>2 DEF TargetInv, Entitled
    <3>4. UNCHANGED <<stored, stale, target, sub, want, was, keyLock>>
      BY <2>2 DEF rows, copies, locks, history
    <3>5. Reserved(q)'
      <4>1. Cardinality(Accounts(KeyOf[want[q]]) \ {OwnerOf[sub[q]]}) < MaxAccounts
        BY <2>2, CountedByKey DEF TargetInv
      <4> QED
        BY <3>3, <3>4, <4>1 DEF Reserved, Accounts, AccountsIn
    <3>6. Entitled(q)'
      BY <3>2, <3>5 DEF Entitled
    <3> QED
      BY <1>5, <2>2, <3>1, <3>4, <3>6 DEF States
  <2> QED
    BY <1>9, <2>1, <2>2 DEF CountOthers
<1>10. ASSUME NEW q \in Requests, Insert(q) \/ SavePatch(q) PROVE TargetInv'
  BY <1>1, <1>10, TargetSave
<1>11. ASSUME NEW q \in Requests, Rotate(q) \/ SaveDigest(q) PROVE TargetInv'
  BY <1>1, <1>11, TargetSaveSome
<1>12. ASSUME NEW q \in Requests, NEW s \in Subs, NEW t \in Targets, Post(q, s, t) PROVE TargetInv'
  <2>1. /\ Goto(q, "lock_owner") /\ UNCHANGED <<rows, keyLock, history, was>>
        /\ sub' = [sub EXCEPT ![q] = s] /\ want' = [want EXCEPT ![q] = t]
    BY <1>12 DEF Post, locks
  <2>2. /\ pc'[q] = "lock_owner"
        /\ \A p \in Requests : p # q => sub'[p] = sub[p] /\ want'[p] = want[p] /\ was'[p] = was[p]
    BY <1>2, <2>1 DEF Goto, RequestsOK
  <2>3. Entitled(q)'
    BY <2>2 DEF Entitled
  <2> QED
    BY <1>5, <2>1, <2>2, <2>3 DEF States
<1>13. ASSUME NEW q \in Requests, NEW s \in Subs, NEW t \in Targets, Patch(q, s, t) PROVE TargetInv'
  <2>1. /\ Goto(q, IF t = target[s] THEN "save" ELSE "lock_key") /\ pc[q] = "idle"
        /\ UNCHANGED <<rows, keyLock, history>>
        /\ sub' = [sub EXCEPT ![q] = s] /\ want' = [want EXCEPT ![q] = t]
        /\ was' = [was EXCEPT ![q] = target[s]]
    BY <1>13 DEF Patch, Load, locks
  <2>2. PICK at \in {"save", "lock_key"} : Goto(q, at) /\ (at = "save" => t = target[s])
    BY <2>1
  <2>3. /\ pc'[q] = at /\ sub'[q] = s /\ want'[q] = t /\ was'[q] = target[s]
        /\ \A p \in Requests : p # q => sub'[p] = sub[p] /\ want'[p] = want[p] /\ was'[p] = was[p]
    BY <1>2, <2>1, <2>2 DEF Goto, RequestsOK
  <2>4. Entitled(q)'
    <3>1. \A k \in Keys : keyLock[k] # q
      BY <1>2, <2>1, SubscriptionsAssumption DEF LocksOK
    <3>2. KeyOf[t] \in Keys
      BY DEF Keys
    <3>3. ~Checked(q)'
      BY <2>1, <2>3, <3>1, <3>2 DEF Checked
    <3> QED
      BY <2>1, <2>2, <2>3, <3>3 DEF Entitled
  <2> QED
    BY <1>5, <2>1, <2>2, <2>3, <2>4 DEF States
<1>14. ASSUME NEW q \in Requests, NEW s \in Subs, StartRotate(q, s) \/ StartDigest(q, s)
       PROVE  TargetInv'
  <2>1. PICK at \in {"rotate", "digest"} : Goto(q, at)
    BY <1>14 DEF StartRotate, StartDigest
  <2>2. /\ UNCHANGED <<rows, keyLock, history, want>>
        /\ sub' = [sub EXCEPT ![q] = s] /\ was' = [was EXCEPT ![q] = target[s]]
    BY <1>14 DEF StartRotate, StartDigest, Load, locks
  <2>3. pc'[q] = at /\ \A p \in Requests : p # q => sub'[p] = sub[p] /\ was'[p] = was[p]
    BY <1>2, <2>1, <2>2 DEF Goto, RequestsOK
  <2>4. Entitled(q)'
    BY <2>3 DEF Entitled
  <2> QED
    BY <1>5, <2>1, <2>2, <2>3, <2>4 DEF States
<1>15. ASSUME NEW q \in Requests, NEW s \in Subs, Delete(q, s) PROVE TargetInv'
  <2>1. /\ Goto(q, "answered") /\ stored' \subseteq stored
        /\ UNCHANGED <<target, key, stale, sub, want, was, keyLock>>
    BY <1>15 DEF Delete, copies, locks, history
  <2>2. pc'[q] = "answered" /\ \A p \in Requests : p # q => pc'[p] = pc[p]
    BY <1>2, <2>1 DEF Goto, RequestsOK
  <2>3. Entitled(q)'
    BY <2>2 DEF Entitled
  <2> QED
    BY <1>1, <2>1, <2>2, <2>3, TargetQuiet
<1> QED
  BY <1>3, <1>6, <1>7, <1>8, <1>9, <1>10, <1>11, <1>12, <1>13, <1>14, <1>15 DEF Next, Done

\* However many requests of however many accounts are in flight, only rows written back unchecked
\* from a stale copy take an email address or webhook URL, in whatever spelling, above the limit.
THEOREM TargetCapAlways == Spec => []TargetCapButStale
<1>1. Init => TargetInv
  <2> SUFFICES ASSUME Init PROVE TargetInv
    OBVIOUS
  <2>1. FreshKeys /\ \A q \in Requests : Entitled(q)
    BY DEF Init, Entitled, FreshKeys
  <2>2. ASSUME NEW k \in Keys PROVE Cardinality(Accounts(k)) <= MaxAccounts
    <3>1. Accounts(k) = {}
      BY DEF Init, Accounts, AccountsIn
    <3> QED
      BY <3>1, FS_EmptySet, SubscriptionsAssumption
  <2> QED
    BY <2>1, <2>2 DEF TargetInv, AccountCap
<1>2. TypeInv /\ FreshIds /\ TargetInv /\ [Next]_vars => TargetInv'
  BY TargetStep
<1>3. TargetInv => TargetCapButStale
  BY DEF TargetInv, AccountCap, Accounts, TargetCapButStale
<1> QED
  BY <1>1, <1>2, <1>3, FreshInvariant, PTL DEF Spec
=============================================================================
