--------------------------- MODULE ArticlesProofs ---------------------------
(***************************************************************************)
(* Proofs about module Articles, for any number of messages, articles and  *)
(* keys.                                                                   *)
(***************************************************************************)
EXTENDS Articles, TLAPS

\* A task past the upsert has the id of a stored article.
ArticleKnown ==
  \A t \in Tasks : pc[t] \in {"claim", "announce", "release"} => article[t] \in stored

\* A task that got past normalize_entry has an entry with keys.
EntryKnown ==
  \A t \in Tasks : pc[t] \in {"insert", "edit", "touch"} => entry[t] \in Entries

TypeInv == TypeOK /\ ArticleKnown /\ EntryKnown

\* Wherever a worker is cut short, the histories stay well typed.
LEMMA AbandonType ==
  ASSUME TypeInv, NEW t \in Tasks, Abandon(t)
  PROVE  /\ announced' \in [Ids -> Nat]
         /\ doubtful' \in [Ids -> Nat]
         /\ orphaned' \in SUBSET Ids
<1>1. CASE pc[t] \in {"announce", "release"}
  <2>1. article[t] \in Ids
    BY <1>1 DEF TypeInv, TypeOK, ArticleKnown
  <2> QED
    BY <1>1, <2>1 DEF Abandon, TypeInv, TypeOK
<1>2. CASE pc[t] \notin {"announce", "release"}
  BY <1>2 DEF Abandon, TypeInv, TypeOK, history
<1> QED
  BY <1>1, <1>2

\* Announcing, with or without an error, keeps the histories well typed.
LEMMA AnnounceType ==
  ASSUME TypeInv, NEW t \in Tasks, Announce(t)
  PROVE  announced' \in [Ids -> Nat] /\ doubtful' \in [Ids -> Nat]
<1>1. article[t] \in Ids
  BY DEF TypeInv, TypeOK, ArticleKnown, Announce
<1>2. announced \in [Ids -> Nat] /\ doubtful \in [Ids -> Nat]
  BY DEF TypeInv, TypeOK
<1> QED
  BY <1>1, <1>2 DEF Announce

\* A crash stays within the bound on crashes.
LEMMA CrashCount ==
  ASSUME crashes \in 0..MaxCrashes, NEW t, Crash(t)
  PROVE  crashes' \in 0..MaxCrashes
  BY ArticlesAssumption DEF Crash

\* Every step of process_article keeps the type invariant.
LEMMA TypeStep == TypeInv /\ [Next]_vars => TypeInv'
<1> SUFFICES ASSUME TypeInv, [Next]_vars PROVE TypeInv'
  OBVIOUS
<1> USE ArticlesAssumption DEF TypeInv, TypeOK, ArticleKnown, EntryKnown, RunningPcs, Ends
<1>1. ASSUME NEW t \in Tasks, Enqueue(t) PROVE TypeInv'
  BY <1>1 DEF Enqueue, Goto, rows, history
<1>2. ASSUME NEW t \in Tasks, Normalize(t) PROVE TypeInv'
  BY <1>2 DEF Normalize, Goto, rows, history
<1>3. ASSUME NEW t \in Tasks, Insert(t) PROVE TypeInv'
  <2>1. CASE Goto(t, "edit") /\ UNCHANGED rows
    BY <1>3, <2>1 DEF Insert, Goto, rows, history
  <2>2. ASSUME NEW i \in Ids \ stored, NewRow(i, entry[t]), Found(t, i), ~Conflict(entry[t])
        PROVE  TypeInv'
    BY <1>3, <2>2 DEF Insert, NewRow, Found, Entries, history
  <2> QED
    BY <1>3, <2>1, <2>2 DEF Insert
<1>4. ASSUME NEW t \in Tasks, Edit(t) PROVE TypeInv'
  <2>1. CASE Goto(t, "touch") /\ UNCHANGED <<hash, moved>>
    BY <1>4, <2>1 DEF Edit, Goto, history
  <2>2. ASSUME NEW i \in stored, hash' = [hash EXCEPT ![i] = entry[t].hash],
               moved' = moved \union {hash[i]}, Found(t, i)
        PROVE  TypeInv'
    <3>1. entry[t] \in Entries /\ hash[i] \in Hashes /\ UNCHANGED <<stored, guid>>
      BY <1>4, <2>2 DEF Edit
    <3>2. hash' \in [Ids -> Hashes] /\ moved' \in SUBSET Hashes
      BY <2>2, <3>1 DEF Entries
    <3> QED
      BY <1>4, <2>2, <3>1, <3>2 DEF Edit, Found, history
  <2> QED
    BY <1>4, <2>1, <2>2 DEF Edit
<1>5. ASSUME NEW t \in Tasks, Touch(t) PROVE TypeInv'
  BY <1>5 DEF Touch, Goto, Found, rows, history
<1>6. ASSUME NEW t \in Tasks, Claim(t) PROVE TypeInv'
  <2>1. article[t] \in stored
    BY <1>6 DEF Claim
  <2>2. processed' \in SUBSET stored /\ stored' = stored
    BY <1>6, <2>1 DEF Claim, rows
  <2> QED
    BY <1>6, <2>2 DEF Claim, Goto, rows, history
<1>7. ASSUME NEW t \in Tasks, Announce(t) PROVE TypeInv'
  <2>1. announced' \in [Ids -> Nat] /\ doubtful' \in [Ids -> Nat]
    BY <1>7, AnnounceType
  <2>2. Goto(t, "done") \/ Goto(t, "release")
    BY <1>7 DEF Announce, OnPublishError
  <2>3. pc[t] = "announce" /\ UNCHANGED <<rows, processed, crashes, orphaned>>
    BY <1>7 DEF Announce
  <2> QED
    BY <2>1, <2>2, <2>3 DEF Goto, rows
<1>8. ASSUME NEW t \in Tasks, Release(t) PROVE TypeInv'
  <2>1. processed' \in SUBSET stored /\ stored' = stored
    BY <1>8 DEF Release, rows
  <2> QED
    BY <1>8, <2>1 DEF Release, Goto, rows, history
<1>9. ASSUME NEW t \in Tasks, Fail(t) PROVE TypeInv'
  <2>1. /\ announced' \in [Ids -> Nat]
        /\ doubtful' \in [Ids -> Nat]
        /\ orphaned' \in SUBSET Ids
    BY <1>9, AbandonType DEF Fail
  <2> QED
    BY <1>9, <2>1 DEF Fail, Goto, rows
<1>10. ASSUME NEW t \in Tasks, Crash(t) PROVE TypeInv'
  <2>1. /\ announced' \in [Ids -> Nat]
        /\ doubtful' \in [Ids -> Nat]
        /\ orphaned' \in SUBSET Ids
    BY <1>10, AbandonType DEF Crash
  <2> QED
    <3>1. crashes' \in 0..MaxCrashes
      BY <1>10, CrashCount
    <3>2. /\ pc' \in [Tasks -> {"idle", "queued"} \union RunningPcs \union Ends]
          /\ article' \in [Tasks -> Ids \union {NoArticle}]
          /\ ArticleKnown' /\ EntryKnown'
      BY <1>10 DEF Crash, rows
    <3> QED
      BY <1>10, <2>1, <3>1, <3>2 DEF Crash, rows
<1>11. CASE UNCHANGED vars
  BY <1>11 DEF vars, rows, history
<1> QED
  BY <1>1, <1>2, <1>3, <1>4, <1>5, <1>6, <1>7, <1>8, <1>9, <1>10, <1>11 DEF Next, Step

\* The type invariant holds in every reachable state.
LEMMA TypeInvariant == Spec => []TypeInv
<1>1. Init => TypeInv
  BY ArticlesAssumption DEF Init, TypeInv, TypeOK, ArticleKnown, EntryKnown
<1> QED
  BY <1>1, TypeStep, PTL DEF Spec

\* Type correctness; with it, processed_at is set on stored articles only.
THEOREM ArticlesTypeCorrect == Spec => []TypeOK
<1>1. TypeInv => TypeOK
  BY DEF TypeInv
<1> QED
  BY <1>1, TypeInvariant, PTL

(***************************************************************************)
(* One claimer, one announcement.  As long as an article is unclaimed, or  *)
(* its claimer has not published, every announcement of it was doubtful.   *)
(***************************************************************************)
Claimer(t) == pc[t] \in {"announce", "release"}

Quiet(i) == announced[i] = doubtful[i]

ClaimInv ==
  /\ \A t \in Tasks : Claimer(t) => article[t] \in processed /\ Quiet(article[t])
  /\ \A t, u \in Tasks : Claimer(t) /\ Claimer(u) /\ article[t] = article[u] => t = u
  /\ \A i \in Ids : i \notin processed => Quiet(i)
  /\ AnnouncedOnce

\* A step with no new claimer that leaves the claims and the histories alone.
LEMMA ClaimFrame ==
  ASSUME ClaimInv, UNCHANGED <<processed, announced, doubtful>>,
         \A u \in Tasks : Claimer(u)' => Claimer(u) /\ article'[u] = article[u]
  PROVE  ClaimInv'
  BY DEF ClaimInv, Quiet, AnnouncedOnce

\* Every step keeps the claims: one claimer, and no announcement before a claim.
LEMMA ClaimStep ==
  ASSUME TypeInv, ClaimInv, [Next]_vars
  PROVE  ClaimInv'
<1>1. ASSUME NEW t \in Tasks,
             Enqueue(t) \/ Normalize(t) \/ Insert(t) \/ Edit(t) \/ Touch(t)
      PROVE  ClaimInv'
  <2>1. \A u \in Tasks : Claimer(u)' => Claimer(u) /\ article'[u] = article[u]
    BY <1>1 DEF Enqueue, Normalize, Insert, Edit, Touch, Goto, Found, Claimer, TypeInv, TypeOK
  <2>2. UNCHANGED <<processed, announced, doubtful>>
    BY <1>1 DEF Enqueue, Normalize, Insert, Edit, Touch, history
  <2> QED
    BY <2>1, <2>2, ClaimFrame
<1>2. ASSUME NEW t \in Tasks, Claim(t) PROVE ClaimInv'
  <2>1. CASE ~Unclaimed(article[t]) /\ Goto(t, "done") /\ UNCHANGED processed
    <3>1. \A u \in Tasks : Claimer(u)' => Claimer(u) /\ article'[u] = article[u]
      BY <2>1 DEF Goto, Claimer, TypeInv, TypeOK
    <3> QED
      BY <1>2, <2>1, <3>1, ClaimFrame DEF Claim, history
  <2>2. CASE /\ Unclaimed(article[t])
             /\ processed' = processed \union {article[t]}
             /\ Goto(t, "announce")
    <3>1. article[t] \in Ids /\ article[t] \notin processed
      BY <1>2, <2>2 DEF Claim, Unclaimed, TypeInv, TypeOK, ArticleKnown
    <3>2. Quiet(article[t])
      BY <3>1 DEF ClaimInv
    <3>3. \A u \in Tasks : Claimer(u) => article[u] # article[t]
      BY <3>1 DEF ClaimInv
    <3>4. \A u \in Tasks : (Claimer(u)' <=> u = t \/ Claimer(u)) /\ article'[u] = article[u]
      BY <2>2 DEF Goto, Claimer, TypeInv, TypeOK
    <3>5. UNCHANGED <<announced, doubtful>>
      BY <1>2 DEF Claim, history
    <3> QED
      BY <2>2, <3>2, <3>3, <3>4, <3>5 DEF ClaimInv, Quiet, AnnouncedOnce
  <2> QED
    BY <1>2, <2>1, <2>2 DEF Claim
<1>3. ASSUME NEW t \in Tasks, Announce(t) PROVE ClaimInv'
  <2> DEFINE i == article[t]
  <2>1. i \in Ids /\ i \in processed /\ Quiet(i) /\ UNCHANGED processed
    BY <1>3 DEF Announce, ClaimInv, Claimer, TypeInv, TypeOK
  <2>2. announced \in [Ids -> Nat] /\ doubtful \in [Ids -> Nat]
    BY DEF TypeInv, TypeOK
  <2>3. \A u \in Tasks : u # t /\ Claimer(u) => article[u] # i
    BY <1>3 DEF Announce, ClaimInv, Claimer
  <2>4. \A u \in Tasks : article'[u] = article[u] /\ (u # t => (Claimer(u)' <=> Claimer(u)))
    BY <1>3 DEF Announce, OnPublishError, Goto, Claimer, TypeInv, TypeOK
  <2>5. \A j \in Ids : j # i => announced'[j] = announced[j] /\ doubtful'[j] = doubtful[j]
    BY <1>3, <2>2 DEF Announce
  <2>6. \/ ~Claimer(t)' /\ announced'[i] = announced[i] + 1 /\ doubtful'[i] = doubtful[i]
        \/ announced'[i] = announced[i] /\ doubtful'[i] = doubtful[i]
        \/ announced'[i] = announced[i] + 1 /\ doubtful'[i] = doubtful[i] + 1
    BY <1>3, <2>1, <2>2 DEF Announce, OnPublishError, Goto, Claimer, TypeInv, TypeOK
  <2>7. AnnouncedOnce' /\ (Quiet(i)' \/ ~Claimer(t)')
    BY <2>1, <2>2, <2>4, <2>5, <2>6 DEF ClaimInv, AnnouncedOnce, Quiet
  <2>8. \A j \in Ids : j # i => (Quiet(j)' <=> Quiet(j))
    BY <2>5 DEF Quiet
  <2>9. \A u \in Tasks : Claimer(u) => article[u] \in Ids
    BY DEF Claimer, TypeInv, TypeOK, ArticleKnown
  <2>10. \A u \in Tasks : Claimer(u)' => article'[u] \in processed' /\ Quiet(article[u])'
    BY <2>1, <2>3, <2>4, <2>7, <2>8, <2>9 DEF ClaimInv
  <2>11. \A u, v \in Tasks : Claimer(u)' /\ Claimer(v)' /\ article'[u] = article'[v] => u = v
    BY <2>3, <2>4 DEF ClaimInv
  <2>12. \A j \in Ids : j \notin processed' => Quiet(j)'
    BY <2>1, <2>8 DEF ClaimInv
  <2> QED
    BY <2>7, <2>10, <2>11, <2>12 DEF ClaimInv
<1>4. ASSUME NEW t \in Tasks, Release(t) PROVE ClaimInv'
  <2> DEFINE i == article[t]
  <2>1. Claimer(t) /\ Quiet(i) /\ processed' = processed \ {i}
    BY <1>4 DEF Release, ClaimInv, Claimer
  <2>2. UNCHANGED <<announced, doubtful>>
    BY <1>4 DEF Release, history
  <2>3. \A u \in Tasks : Claimer(u)' => u # t /\ Claimer(u) /\ article'[u] = article[u]
    BY <1>4 DEF Release, Goto, Claimer, TypeInv, TypeOK
  <2>4. \A u \in Tasks : u # t /\ Claimer(u) => article[u] # i
    BY <2>1 DEF ClaimInv
  <2> QED
    BY <2>1, <2>2, <2>3, <2>4 DEF ClaimInv, Quiet, AnnouncedOnce
<1>5. ASSUME NEW t \in Tasks, Fail(t) \/ Crash(t) PROVE ClaimInv'
  <2> DEFINE i == article[t]
  <2>1. UNCHANGED processed /\ Abandon(t)
    BY <1>5 DEF Fail, Crash
  <2>2. \A u \in Tasks : Claimer(u)' => u # t /\ Claimer(u) /\ article'[u] = article[u]
    BY <1>5 DEF Fail, Crash, Goto, Claimer, TypeInv, TypeOK
  <2>3. CASE UNCHANGED <<announced, doubtful>>
    BY <2>1, <2>2, <2>3, ClaimFrame
  <2>4. CASE /\ pc[t] = "announce"
             /\ announced' = [announced EXCEPT ![i] = @ + 1]
             /\ UNCHANGED doubtful
    <3>1. i \in Ids /\ i \in processed /\ Quiet(i)
      BY <2>4 DEF ClaimInv, Claimer, TypeInv, TypeOK
    <3>2. announced \in [Ids -> Nat] /\ doubtful \in [Ids -> Nat]
      BY DEF TypeInv, TypeOK
    <3>3. \A u \in Tasks : u # t /\ Claimer(u) => article[u] # i /\ article[u] \in Ids
      BY <2>4 DEF ClaimInv, Claimer, TypeInv, TypeOK, ArticleKnown
    <3>4. \A j \in Ids : j # i => announced'[j] = announced[j]
      BY <2>4, <3>2
    <3>5. announced'[i] = doubtful[i] + 1
      BY <2>4, <3>1, <3>2 DEF Quiet
    <3>6. AnnouncedOnce'
      BY <2>4, <3>2, <3>4, <3>5 DEF ClaimInv, AnnouncedOnce
    <3> QED
      BY <2>1, <2>2, <2>4, <3>1, <3>3, <3>4, <3>6 DEF ClaimInv, Quiet
  <2> QED
    BY <2>1, <2>3, <2>4 DEF Abandon, history
<1>6. CASE UNCHANGED vars
  BY <1>6, ClaimFrame DEF vars, history, Claimer
<1> QED
  BY <1>1, <1>2, <1>3, <1>4, <1>5, <1>6 DEF Next, Step

\* The inductive invariant of the claims holds in every reachable state.
LEMMA ClaimInvariant == Spec => []ClaimInv
<1>1. Init => ClaimInv
  BY DEF Init, ClaimInv, Claimer, Quiet, AnnouncedOnce
<1>2. TypeInv /\ ClaimInv /\ [Next]_vars => ClaimInv'
  BY ClaimStep
<1> QED
  BY <1>1, <1>2, TypeInvariant, PTL DEF Spec

\* Tagging and fan-out of an article are queued once, and once more only for
\* each publication that failed after the broker had taken it, however many
\* tasks find the article and however often they crash.
THEOREM AnnouncedOnceAlways == Spec => []AnnouncedOnce
<1>1. ClaimInv => AnnouncedOnce
  BY DEF ClaimInv
<1> QED
  BY <1>1, ClaimInvariant, PTL

\* release_processing never undoes the claim of another task.
THEOREM OneClaimerAlways == Spec => []OneClaimer
<1>1. ClaimInv => OneClaimer
  BY DEF ClaimInv, OneClaimer, Claims, Claimer
<1> QED
  BY <1>1, ClaimInvariant, PTL

(***************************************************************************)
(* What processed_at means.  Every claim that is set has been announced,   *)
(* is held by a claimer, or is in the books as lost.                       *)
(***************************************************************************)
\* The claim on article i is accounted for.
Accounted(i) == announced[i] > 0 \/ i \in orphaned \/ \E t \in Tasks : Claims(t, i)

\* Announcements are only added, and so are lost claims.
LEMMA HistoryGrows ==
  ASSUME TypeInv, [Next]_vars
  PROVE  /\ \A i \in Ids : announced[i] > 0 => announced'[i] > 0
         /\ orphaned \subseteq orphaned'
<1>1. announced \in [Ids -> Nat]
  BY DEF TypeInv, TypeOK
<1>2. ASSUME NEW t \in Tasks, Announce(t) \/ Abandon(t)
      PROVE  /\ \A i \in Ids : announced[i] > 0 => announced'[i] > 0
             /\ orphaned \subseteq orphaned'
  <2>1. \/ UNCHANGED announced
        \/ announced' = [announced EXCEPT ![article[t]] = @ + 1]
    BY <1>2 DEF Announce, Abandon, history
  <2>2. orphaned \subseteq orphaned'
    BY <1>2 DEF Announce, Abandon, history
  <2> QED
    BY <1>1, <2>1, <2>2
<1>3. CASE UNCHANGED <<announced, orphaned>>
  BY <1>3
<1> QED
  BY <1>2, <1>3
  DEF Next, Step, Enqueue, Normalize, Insert, Edit, Touch, Claim, Release, Fail, Crash,
      vars, history

\* An article whose claimer, if it had one, is still its claimer.
LEMMA StillAccounted ==
  ASSUME TypeInv, [Next]_vars, NEW i \in Ids, Accounted(i),
         \A u \in Tasks : Claims(u, i) => Claims(u, i)'
  PROVE  Accounted(i)'
  BY HistoryGrows DEF Accounted

\* The claimer's own step, and every other one, leaves each claim accounted for.
LEMMA AccountedStep ==
  ASSUME TypeInv, ClaimInv, ClaimedOrOrphaned, [Next]_vars
  PROVE  ClaimedOrOrphaned'
<1> SUFFICES ASSUME NEW i \in processed' PROVE Accounted(i)'
  BY DEF ClaimedOrOrphaned, Accounted
<1>1. i \in processed => i \in Ids /\ Accounted(i)
  BY DEF ClaimedOrOrphaned, Accounted, TypeInv, TypeOK
<1>2. ASSUME NEW t \in Tasks,
             Enqueue(t) \/ Normalize(t) \/ Insert(t) \/ Edit(t) \/ Touch(t)
      PROVE  Accounted(i)'
  <2>1. i \in processed
    BY <1>2 DEF Enqueue, Normalize, Insert, Edit, Touch
  <2>2. \A u \in Tasks : Claims(u, i) => Claims(u, i)'
    BY <1>2 DEF Enqueue, Normalize, Insert, Edit, Touch, Goto, Found, Claims, TypeInv, TypeOK
  <2> QED
    BY <1>1, <2>1, <2>2, StillAccounted
<1>3. ASSUME NEW t \in Tasks, Claim(t) PROVE Accounted(i)'
  <2>1. \A u \in Tasks : Claims(u, i) => Claims(u, i)'
    BY <1>3 DEF Claim, Goto, Claims, TypeInv, TypeOK
  <2>2. CASE i \in processed
    BY <1>1, <2>1, <2>2, StillAccounted
  <2>3. CASE i \notin processed
    <3>1. i = article[t] /\ Goto(t, "announce")
      BY <1>3, <2>3 DEF Claim
    <3>2. Claims(t, i)'
      BY <3>1 DEF Goto, Claims, TypeInv, TypeOK
    <3> QED
      BY <3>2 DEF Accounted
  <2> QED
    BY <2>2, <2>3
<1>4. ASSUME NEW t \in Tasks, Announce(t) PROVE Accounted(i)'
  <2>1. i \in processed
    BY <1>4 DEF Announce
  <2>2. CASE Goto(t, "release")
    <3>1. \A u \in Tasks : Claims(u, i) => Claims(u, i)'
      BY <1>4, <2>2 DEF Announce, Goto, Claims, TypeInv, TypeOK
    <3> QED
      BY <1>1, <2>1, <3>1, StillAccounted
  <2>3. CASE /\ announced' = [announced EXCEPT ![article[t]] = @ + 1]
             /\ Goto(t, "done")
    <3>1. CASE article[t] = i
      <4>1. announced'[i] = announced[i] + 1 /\ announced[i] \in Nat
        BY <1>1, <2>1, <2>3, <3>1 DEF TypeInv, TypeOK
      <4> QED
        BY <4>1 DEF Accounted
    <3>2. CASE article[t] # i
      <4>1. \A u \in Tasks : Claims(u, i) => Claims(u, i)'
        BY <2>3, <3>2 DEF Goto, Claims, TypeInv, TypeOK
      <4> QED
        BY <1>1, <2>1, <4>1, StillAccounted
    <3> QED
      BY <3>1, <3>2
  <2> QED
    BY <1>4, <2>2, <2>3 DEF Announce, OnPublishError
<1>5. ASSUME NEW t \in Tasks, Release(t) PROVE Accounted(i)'
  <2>1. i \in processed /\ i # article[t]
    BY <1>5 DEF Release
  <2>2. \A u \in Tasks : Claims(u, i) => Claims(u, i)'
    BY <1>5, <2>1 DEF Release, Goto, Claims, TypeInv, TypeOK
  <2> QED
    BY <1>1, <2>1, <2>2, StillAccounted
<1>6. ASSUME NEW t \in Tasks, Fail(t) \/ Crash(t) PROVE Accounted(i)'
  <2>1. i \in processed /\ Abandon(t)
    BY <1>6 DEF Fail, Crash
  <2>2. CASE Claims(t, i)
    <3>1. \/ orphaned' = orphaned \union {i}
          \/ announced' = [announced EXCEPT ![i] = @ + 1]
      BY <2>1, <2>2 DEF Abandon, Claims
    <3>2. CASE announced' = [announced EXCEPT ![i] = @ + 1]
      <4>1. announced'[i] = announced[i] + 1 /\ announced[i] \in Nat
        BY <1>1, <2>1, <3>2 DEF TypeInv, TypeOK
      <4> QED
        BY <4>1 DEF Accounted
    <3> QED
      BY <3>1, <3>2 DEF Accounted
  <2>3. CASE ~Claims(t, i)
    <3>1. \A u \in Tasks : Claims(u, i) => Claims(u, i)'
      BY <1>6, <2>3 DEF Fail, Crash, Goto, Claims, TypeInv, TypeOK
    <3> QED
      BY <1>1, <2>1, <3>1, StillAccounted
  <2> QED
    BY <2>2, <2>3
<1>7. CASE UNCHANGED vars
  BY <1>1, <1>7 DEF vars, history, Accounted, Claims
<1> QED
  BY <1>2, <1>3, <1>4, <1>5, <1>6, <1>7 DEF Next, Step

\* claim_processing, release_processing: processed_at is set only on articles
\* whose tagging and fan-out were queued, are about to be, or whose claimer was
\* cut short before the end of the handler.
THEOREM ClaimedOrOrphanedAlways == Spec => []ClaimedOrOrphaned
<1>1. Init => ClaimedOrOrphaned
  BY DEF Init, ClaimedOrOrphaned
<1>2. TypeInv /\ ClaimInv /\ ClaimedOrOrphaned /\ [Next]_vars => ClaimedOrOrphaned'
  BY AccountedStep
<1> QED
  BY <1>1, <1>2, TypeInvariant, ClaimInvariant, PTL DEF Spec

(***************************************************************************)
(* The keys.                                                               *)
(***************************************************************************)
\* No two rows share a key: the unique indexes, as Conflict and Editable meet them.
UniqueKeys ==
  \A i, j \in stored :
    i # j => hash[i] # hash[j] /\ (guid[i] # NoGuid => guid[i] # guid[j])

\* The two unique keys hold between inserts and edits of any entries.
LEMMA UniqueKeysAlways == Spec => []UniqueKeys
<1>1. Init => UniqueKeys
  BY DEF Init, UniqueKeys
<1>2. ASSUME TypeInv, UniqueKeys, [Next]_vars PROVE UniqueKeys'
  <2>1. ASSUME NEW t \in Tasks, NEW i \in Ids \ stored, pc[t] = "insert",
               ~Conflict(entry[t]), NewRow(i, entry[t])
        PROVE  UniqueKeys'
    <3>1. entry[t] \in Entries
      BY <1>2, <2>1 DEF TypeInv, EntryKnown
    <3>2. stored' = stored \union {i} /\ guid'[i] = entry[t].guid /\ hash'[i] = entry[t].hash
      BY <1>2, <2>1 DEF NewRow, TypeInv, TypeOK
    <3>3. \A j \in stored : j # i /\ guid'[j] = guid[j] /\ hash'[j] = hash[j]
      BY <1>2, <2>1 DEF NewRow, TypeInv, TypeOK
    <3>4. \A j \in stored : /\ hash[j] # entry[t].hash
                            /\ entry[t].guid # NoGuid => guid[j] # entry[t].guid
      BY <2>1 DEF Conflict, SameGuid
    <3> QED
      BY <1>2, <3>2, <3>3, <3>4 DEF UniqueKeys
  <2>2. ASSUME NEW t \in Tasks, NEW i \in stored, Editable(i, entry[t]),
               hash' = [hash EXCEPT ![i] = entry[t].hash], UNCHANGED <<stored, guid>>
        PROVE  UniqueKeys'
    <3>1. hash'[i] = entry[t].hash /\ \A j \in stored : j # i => hash'[j] = hash[j]
      BY <1>2, <2>2 DEF TypeInv, TypeOK
    <3>2. \A j \in stored : hash[j] # entry[t].hash
      BY <2>2 DEF Editable
    <3> QED
      BY <1>2, <2>2, <3>1, <3>2 DEF UniqueKeys
  <2>3. CASE UNCHANGED rows
    BY <1>2, <2>3 DEF rows, UniqueKeys
  <2> QED
    BY <1>2, <2>1, <2>2, <2>3
    DEF Next, Step, Enqueue, Normalize, Insert, Edit, Touch, Claim, Announce, Release,
        Fail, Crash, vars, rows
<1> QED
  BY <1>1, <1>2, TypeInvariant, PTL DEF Spec

(***************************************************************************)
(* The upsert is three statements.  The row an entry met at the insert has *)
(* the entry's guid for ever, or its content until an edit replaces it.    *)
(***************************************************************************)
Met(e) == Conflict(e) \/ e.hash \in moved

MetInv ==
  /\ \A t \in Tasks : pc[t] \in {"edit", "touch"} => Met(entry[t])
  /\ LostOnlyToEdit

\* What was met stays met.
LEMMA StaysMet ==
  ASSUME TypeInv, [Next]_vars, NEW u \in Tasks, Met(entry[u])
  PROVE  Met(entry[u])'
<1>0. entry' = entry
  BY DEF Next, Step, Enqueue, Normalize, Insert, Edit, Touch, Claim, Announce, Release,
     Fail, Crash, Goto, Found, OnPublishError, vars
<1>1. CASE UNCHANGED rows
  BY <1>0, <1>1 DEF rows, Met, Conflict, SameGuid
<1>2. ASSUME NEW t \in Tasks, NEW i \in Ids \ stored, NewRow(i, entry[t]) PROVE Met(entry[u])'
  <2>1. \A j \in stored : j \in stored' /\ guid'[j] = guid[j] /\ hash'[j] = hash[j]
    BY <1>2 DEF NewRow, TypeInv, TypeOK
  <2>2. UNCHANGED moved
    BY <1>2 DEF NewRow
  <2> QED
    BY <1>0, <2>1, <2>2 DEF Met, Conflict, SameGuid
<1>3. ASSUME NEW t \in Tasks, NEW i \in stored, hash' = [hash EXCEPT ![i] = entry[t].hash],
             moved' = moved \union {hash[i]}, UNCHANGED <<stored, guid>>
      PROVE  Met(entry[u])'
  <2>1. \A j \in stored : j # i => hash'[j] = hash[j]
    BY <1>3 DEF TypeInv, TypeOK
  <2> QED
    BY <1>0, <1>3, <2>1 DEF Met, Conflict, SameGuid
<1> QED
  BY <1>1, <1>2, <1>3
  DEF Next, Step, Enqueue, Normalize, Insert, Edit, Touch, Claim, Announce, Release,
      Fail, Crash, vars, rows

\* upsert_article: "conflict lost" is raised only for content that an edit replaced between
\* the statements, however the inserts, edits and touches of the tasks interleave.
THEOREM LostOnlyToEditAlways == Spec => []LostOnlyToEdit
<1>1. Init => MetInv
  BY DEF Init, MetInv, LostOnlyToEdit
<1>2. ASSUME TypeInv, MetInv, [Next]_vars PROVE MetInv'
  <2>1. \A u \in Tasks : Met(entry[u]) => Met(entry[u])'
    BY <1>2, StaysMet
  <2>2. entry' = entry /\ moved \subseteq moved'
    BY <1>2 DEF Next, Step, Enqueue, Normalize, Insert, Edit, Touch, Claim, Announce, Release,
         Fail, Crash, Goto, Found, OnPublishError, NewRow, vars, rows
  <2>3. ASSUME NEW u \in Tasks,
               pc'[u] = pc[u] \/ pc'[u] \notin {"edit", "touch", "conflict lost"}
        PROVE  /\ pc'[u] \in {"edit", "touch"} => Met(entry[u])'
               /\ pc'[u] = "conflict lost" => entry'[u].hash \in moved'
    BY <1>2, <2>1, <2>2, <2>3 DEF MetInv, LostOnlyToEdit
  <2>4. ASSUME NEW t \in Tasks,
               \A u \in Tasks \ {t} : pc'[u] = pc[u],
               pc'[t] \in {"edit", "touch"} => Met(entry[t])',
               pc'[t] = "conflict lost" => entry'[t].hash \in moved'
        PROVE  MetInv'
    BY <2>3, <2>4 DEF MetInv, LostOnlyToEdit
  <2>5. ASSUME NEW t \in Tasks, Insert(t) PROVE MetInv'
    <3>1. \A u \in Tasks \ {t} : pc'[u] = pc[u]
      BY <1>2, <2>5 DEF Insert, Goto, Found, TypeInv, TypeOK
    <3>2. \/ pc'[t] = "claim"
          \/ pc'[t] = "edit" /\ Met(entry[t])
      BY <1>2, <2>5 DEF Insert, Goto, Found, Met, TypeInv, TypeOK
    <3> QED
      BY <2>1, <2>4, <3>1, <3>2
  <2>6. ASSUME NEW t \in Tasks, Edit(t) PROVE MetInv'
    <3>1. /\ \A u \in Tasks \ {t} : pc'[u] = pc[u]
          /\ pc'[t] \in {"claim", "touch"} /\ pc[t] = "edit"
      BY <1>2, <2>6 DEF Edit, Goto, Found, TypeInv, TypeOK
    <3> QED
      BY <1>2, <2>1, <2>4, <3>1 DEF MetInv
  <2>7. ASSUME NEW t \in Tasks, Touch(t) PROVE MetInv'
    <3>1. /\ \A u \in Tasks \ {t} : pc'[u] = pc[u]
          /\ \/ pc'[t] = "claim"
             \/ pc'[t] = "conflict lost" /\ \A i \in stored : ~Touchable(i, entry[t])
      BY <1>2, <2>7 DEF Touch, Goto, Found, TypeInv, TypeOK
    <3>2. Met(entry[t])
      BY <1>2, <2>7 DEF Touch, MetInv
    <3>3. (\A i \in stored : ~Touchable(i, entry[t])) => entry[t].hash \in moved
      BY <3>2 DEF Met, Conflict, Touchable
    <3> QED
      BY <2>2, <2>4, <3>1, <3>3
  <2>8. ASSUME NEW t \in Tasks,
               \/ Enqueue(t) \/ Normalize(t) \/ Claim(t) \/ Announce(t) \/ Release(t)
               \/ Fail(t) \/ Crash(t)
        PROVE  MetInv'
    <3>1. \E next \in {"queued", "skipped", "insert", "announce", "release", "done", "failed", "killed"} :
            pc' = [pc EXCEPT ![t] = next]
      BY <2>8 DEF Enqueue, Normalize, Claim, Announce, Release, Fail, Crash, Goto, OnPublishError
    <3> QED
      BY <1>2, <2>4, <3>1 DEF TypeInv, TypeOK
  <2>9. CASE UNCHANGED vars
    BY <2>3, <2>9 DEF vars, MetInv, LostOnlyToEdit
  <2> QED
    BY <1>2, <2>5, <2>6, <2>7, <2>8, <2>9 DEF Next, Step
<1>3. MetInv => LostOnlyToEdit
  BY DEF MetInv
<1> QED
  BY <1>1, <1>2, <1>3, TypeInvariant, PTL DEF Spec

(***************************************************************************)
(* No article is forgotten.  A task that came to an article by its content *)
(* may not find it again after a crash, so what carries the article on is  *)
(* a task with its guid, or with the content of an article without one;    *)
(* or else the claimer.                                                    *)
(***************************************************************************)
Carries(t, i) ==
  /\ pc[t] \in {"queued", "failed", "killed"} \union RunningPcs
  /\ article[t] \in {i, NoArticle}
  /\ LeadsTo(t, i)

Keeps(t, i) == pc[t] \in {"announce", "release", "failed"} /\ article[t] = i

Safe(i) ==
  announced[i] > 0 \/ i \in orphaned \/ \E t \in Tasks : Carries(t, i) \/ Keeps(t, i)

HandInv == \A i \in stored : Safe(i)

\* Every step is a step of one task.
TaskStep(t) == Enqueue(t) \/ Step(t) \/ Fail(t) \/ Crash(t)

\* An entry leads to the same stored article for ever: an edit changes the content
\* of articles with a guid only.
LEMMA LeadsOn ==
  ASSUME TypeInv, NEW t \in Tasks, TaskStep(t), NEW u \in Tasks, NEW i \in stored, LeadsTo(u, i)
  PROVE  LeadsTo(u, i)' /\ i \in stored'
<1>1. entry' = entry
  BY DEF TaskStep, Step, Enqueue, Normalize, Insert, Edit, Touch, Claim, Announce, Release,
         Fail, Crash, Goto, Found, OnPublishError
<1>2. i \in stored' /\ guid'[i] = guid[i] /\ (guid[i] = NoGuid => hash'[i] = hash[i])
  <2>1. CASE UNCHANGED rows
    BY <2>1 DEF rows
  <2>2. ASSUME NEW j \in Ids \ stored, NewRow(j, entry[t])
        PROVE  i \in stored' /\ guid'[i] = guid[i] /\ hash'[i] = hash[i]
    BY <2>2 DEF NewRow, TypeInv, TypeOK
  <2>3. ASSUME NEW j \in stored, Editable(j, entry[t]),
               hash' = [hash EXCEPT ![j] = entry[t].hash], UNCHANGED <<stored, guid>>
        PROVE  i \in stored' /\ guid'[i] = guid[i] /\ (guid[i] = NoGuid => hash'[i] = hash[i])
    BY <2>3 DEF Editable, SameGuid, TypeInv, TypeOK
  <2> QED
    BY <2>1, <2>2, <2>3
    DEF TaskStep, Step, Enqueue, Normalize, Insert, Edit, Touch, Claim, Announce, Release,
        Fail, Crash, rows
<1> QED
  BY <1>1, <1>2 DEF LeadsTo

\* A task is moved by its own steps alone.
LEMMA OthersStay ==
  ASSUME TypeInv, NEW t \in Tasks, TaskStep(t), NEW u \in Tasks \ {t}
  PROVE  pc'[u] = pc[u] /\ article'[u] = article[u]
<1>1. \/ \E next : Goto(t, next)
      \/ \E i : Found(t, i)
      \/ \E next, j : pc' = [pc EXCEPT ![t] = next] /\ article' = [article EXCEPT ![t] = j]
  BY DEF TaskStep, Step, Enqueue, Normalize, Insert, Edit, Touch, Claim, Announce, Release,
         Fail, Crash, OnPublishError
<1> QED
  BY <1>1 DEF Goto, Found, TypeInv, TypeOK

\* The upsert brings a task back to the article that its entry leads to.
LEMMA UpsertFinds ==
  ASSUME TypeInv, UniqueKeys, NEW t \in Tasks, NEW i \in stored, LeadsTo(t, i)
  PROVE  /\ Conflict(entry[t])
         /\ \A j \in stored : Editable(j, entry[t]) => j = i
         /\ \A j \in stored : Touchable(j, entry[t]) => j = i
         /\ Touchable(i, entry[t])
<1>1. CASE guid[i] = NoGuid
  BY <1>1 DEF LeadsTo, Conflict, Editable, Touchable, SameGuid, UniqueKeys
<1>2. CASE guid[i] # NoGuid
  BY <1>2 DEF LeadsTo, Conflict, Editable, Touchable, SameGuid, UniqueKeys
<1> QED
  BY <1>1, <1>2

\* A task that carries an article carries it on, announces it, is lost with it, or
\* leaves it to the claimer.
LEMMA CarriedOn ==
  ASSUME TypeInv, UniqueKeys, ClaimedOrOrphaned, NEW t \in Tasks, TaskStep(t),
         NEW i \in stored, Carries(t, i)
  PROVE  Safe(i)'
<1> USE ArticlesAssumption
<1>1. LeadsTo(t, i)' /\ entry[t] # BadEntry /\ i \in Ids
  BY LeadsOn DEF Carries, LeadsTo, TypeInv, TypeOK
<1>2. ASSUME NEW next \in RunningPcs \union {"queued", "failed", "killed"}, Goto(t, next)
      PROVE  Carries(t, i)'
  BY <1>1, <1>2 DEF Goto, Carries, TypeInv, TypeOK
<1>3. ASSUME Found(t, i) PROVE Carries(t, i)'
  BY <1>1, <1>3 DEF Found, Carries, TypeInv, TypeOK, RunningPcs
<1>4. ASSUME Carries(t, i)' PROVE Safe(i)'
  BY <1>4 DEF Safe
<1>5. CASE Enqueue(t) \/ Normalize(t)
  BY <1>1, <1>2, <1>4, <1>5 DEF Enqueue, Normalize, RunningPcs
<1>6. CASE Insert(t)
  <2>1. Conflict(entry[t])
    BY UpsertFinds DEF Carries
  <2>2. Goto(t, "edit")
    BY <1>6, <2>1 DEF Insert
  <2> QED
    BY <1>2, <1>4, <2>2 DEF RunningPcs
<1>7. CASE Edit(t)
  <2>1. Found(t, i) \/ Goto(t, "touch")
    BY <1>7, UpsertFinds DEF Edit, Carries
  <2> QED
    BY <1>2, <1>3, <1>4, <2>1 DEF RunningPcs
<1>8. CASE Touch(t)
  <2>1. Found(t, i)
    BY <1>8, UpsertFinds DEF Touch, Carries
  <2> QED
    BY <1>3, <1>4, <2>1
<1>9. CASE Claim(t)
  <2>1. article[t] = i
    BY <1>9 DEF Claim, Carries, TypeInv, TypeOK, ArticleKnown
  <2>2. CASE Goto(t, "announce")
    BY <1>2, <1>4, <2>2 DEF RunningPcs
  <2>3. CASE i \in processed
    <3>1. announced[i] > 0 \/ i \in orphaned \/ \E u \in Tasks : Claims(u, i)
      BY <2>3 DEF ClaimedOrOrphaned
    <3>2. UNCHANGED <<announced, orphaned>>
      BY <1>9 DEF Claim, history
    <3>3. ASSUME NEW u \in Tasks, Claims(u, i) PROVE Keeps(u, i)'
      <4>1. u # t
        BY <1>9, <3>3 DEF Claim, Claims
      <4>2. pc'[u] = pc[u] /\ article'[u] = article[u]
        BY <4>1, OthersStay
      <4> QED
        BY <3>3, <4>2 DEF Claims, Keeps
    <3> QED
      BY <3>1, <3>2, <3>3 DEF Safe
  <2> QED
    BY <1>9, <2>1, <2>2, <2>3 DEF Claim, Unclaimed
<1>10. CASE Announce(t)
  <2>1. article[t] = i /\ announced \in [Ids -> Nat]
    BY <1>10 DEF Announce, Carries, TypeInv, TypeOK, ArticleKnown
  <2>2. CASE announced' = [announced EXCEPT ![article[t]] = @ + 1]
    <3>1. announced'[i] > 0
      BY <1>1, <2>1, <2>2
    <3> QED
      BY <3>1 DEF Safe
  <2>3. CASE OnPublishError(t)
    BY <1>2, <1>4, <2>3 DEF OnPublishError, RunningPcs
  <2> QED
    BY <1>10, <2>2, <2>3 DEF Announce
<1>11. CASE Release(t)
  BY <1>2, <1>4, <1>11 DEF Release
<1>12. CASE Fail(t)
  BY <1>2, <1>4, <1>12 DEF Fail
<1>13. CASE Crash(t)
  <2>1. pc'[t] = "queued" /\ article'[t] = NoArticle
    BY <1>13 DEF Crash, TypeInv, TypeOK
  <2> QED
    BY <1>1, <1>4, <2>1 DEF Carries
<1> QED
  BY <1>5, <1>6, <1>7, <1>8, <1>9, <1>10, <1>11, <1>12, <1>13 DEF TaskStep, Step

\* So does a claimer, and one that gave up stays where it is.
LEMMA KeptOn ==
  ASSUME TypeInv, NEW t \in Tasks, TaskStep(t), NEW i \in stored, Keeps(t, i)
  PROVE  Safe(i)'
<1>1. i \in Ids /\ announced \in [Ids -> Nat]
  BY DEF TypeInv, TypeOK
<1>2. ASSUME NEW next \in {"release", "failed"}, Goto(t, next) PROVE Safe(i)'
  <2>1. Keeps(t, i)'
    BY <1>2 DEF Goto, Keeps, TypeInv, TypeOK
  <2> QED
    BY <2>1 DEF Safe
<1>3. ASSUME announced' = [announced EXCEPT ![article[t]] = @ + 1] PROVE Safe(i)'
  <2>1. announced'[i] > 0
    BY <1>1, <1>3 DEF Keeps
  <2> QED
    BY <2>1 DEF Safe
<1>4. CASE Announce(t)
  BY <1>2, <1>3, <1>4 DEF Announce, OnPublishError
<1>5. CASE Release(t)
  BY <1>2, <1>5 DEF Release
<1>6. CASE Fail(t) \/ Crash(t)
  <2>1. Abandon(t) /\ pc[t] \in {"announce", "release"}
    BY <1>6 DEF Fail, Crash, Running, RunningPcs, Keeps
  <2>2. CASE orphaned' = orphaned \union {article[t]}
    BY <2>2 DEF Safe, Keeps
  <2> QED
    BY <1>3, <2>1, <2>2 DEF Abandon
<1> QED
  BY <1>4, <1>5, <1>6
  DEF TaskStep, Step, Enqueue, Normalize, Insert, Edit, Touch, Claim, Keeps

\* A new row is in the hands of the task that inserted it.
LEMMA NewIsSafe ==
  ASSUME TypeInv, NEW t \in Tasks, TaskStep(t), NEW i \in stored' \ stored
  PROVE  Safe(i)'
<1>1. Insert(t)
  BY DEF TaskStep, Step, Enqueue, Normalize, Edit, Touch, Claim, Announce, Release, Fail, Crash, rows
<1>2. NewRow(i, entry[t]) /\ Found(t, i) /\ i \in Ids
  BY <1>1 DEF Insert, NewRow, rows
<1>3. entry[t] \in Entries /\ entry' = entry
  BY <1>1, <1>2 DEF Insert, Found, TypeInv, EntryKnown
<1>4. guid'[i] = entry[t].guid /\ hash'[i] = entry[t].hash
  BY <1>2 DEF NewRow, TypeInv, TypeOK
<1>5. LeadsTo(t, i)'
  BY <1>3, <1>4, ArticlesAssumption DEF LeadsTo
<1>6. Carries(t, i)'
  BY <1>2, <1>5 DEF Found, Carries, TypeInv, TypeOK, RunningPcs
<1> QED
  BY <1>6 DEF Safe

LEMMA HandStep ==
  ASSUME TypeInv, UniqueKeys, ClaimedOrOrphaned, HandInv, NEW t \in Tasks, TaskStep(t)
  PROVE  HandInv'
<1> SUFFICES ASSUME NEW i \in stored' PROVE Safe(i)'
  BY DEF HandInv
<1>1. CASE i \notin stored
  BY <1>1, NewIsSafe
<1>2. CASE i \in stored
  <2>1. Next /\ i \in Ids
    BY <1>2 DEF TaskStep, Next, TypeInv, TypeOK
  <2>2. CASE announced[i] > 0 \/ i \in orphaned
    BY <2>1, <2>2, HistoryGrows DEF Safe
  <2>3. ASSUME NEW u \in Tasks, Carries(u, i) \/ Keeps(u, i) PROVE Safe(i)'
    <3>1. CASE u = t
      BY <1>2, <2>3, <3>1, CarriedOn, KeptOn
    <3>2. CASE u # t
      <4>1. pc'[u] = pc[u] /\ article'[u] = article[u]
        BY <3>2, OthersStay
      <4>2. CASE Carries(u, i)
        <5>1. LeadsTo(u, i)'
          BY <1>2, <4>2, LeadsOn DEF Carries
        <5> QED
          BY <4>1, <4>2, <5>1 DEF Carries, Safe
      <4>3. CASE Keeps(u, i)
        BY <4>1, <4>3 DEF Keeps, Safe
      <4> QED
        BY <2>3, <4>2, <4>3
    <3> QED
      BY <3>1, <3>2
  <2> QED
    BY <1>2, <2>2, <2>3 DEF HandInv, Safe
<1> QED
  BY <1>1, <1>2

\* process_article: whatever crashes, duplicates and edits come between, a stored
\* article has been queued for tagging, or some task has it in hand or ended over it.
THEOREM StoredIsInHandAlways == Spec => []StoredIsInHand
<1>1. Init => HandInv
  BY DEF Init, HandInv
<1>2. TypeInv /\ UniqueKeys /\ ClaimedOrOrphaned /\ HandInv /\ [Next]_vars => HandInv'
  <2>1. ASSUME HandInv, UNCHANGED vars PROVE HandInv'
    BY <2>1 DEF vars, rows, history, HandInv, Safe, Carries, Keeps, LeadsTo
  <2> QED
    BY <2>1, HandStep DEF Next, TaskStep
<1>3. HandInv => StoredIsInHand
  BY DEF HandInv, Safe, Carries, Keeps, StoredIsInHand, InHand, RunningPcs
<1> QED
  BY <1>1, <1>2, <1>3, TypeInvariant, UniqueKeysAlways, ClaimedOrOrphanedAlways, PTL DEF Spec
=============================================================================
