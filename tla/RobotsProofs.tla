----------------------------- MODULE RobotsProofs -----------------------------
(* Proofs about the robots.txt cache of module Robots, for any number of       *)
(* workers and any times to live.                                              *)
(*                                                                             *)
(* An answer ages in two places: with a worker that has not stored it yet, for *)
(* at most FetchLimit, and then in the cache, where each Tick takes one from   *)
(* its time to live.  So the age of a cached answer and its remaining time to  *)
(* live never sum to more than FetchLimit plus the time it was stored for.     *)
EXTENDS RobotsPolicy, FiniteSetTheorems, TLAPS

(* An answer of the site that may still be in the cache. *)
Cached(e) == e \in Entries /\ e.age + e.ttl <= FetchLimit + TTL(e.kind)

(* What a worker holds at each point of is_allowed. *)
Holds(w) ==
    LET e == worker[w].entry
    IN  /\ worker[w].pc \in {"idle", "fetch"} => e = NoEntry
        /\ worker[w].pc = "store" => e \in Entries /\ e.age <= FetchLimit /\ e.ttl = TTL(e.kind)
        /\ worker[w].pc = "decided" => e \in Entries /\ e.age <= FetchLimit + TTL(e.kind)

(* The inductive invariant; its last part says what a refresh leaves behind. *)
CacheInv ==
    /\ TypeOK
    /\ cache # NoEntry => Cached(cache) /\ cache.age <= refreshed + FetchLimit
    /\ \A w \in Workers : Holds(w)

(* Every answer may be kept for a while, an outage no longer than the rest. *)
LEMMA TTLRange == \A kind : TTL(kind) \in 1 .. CacheTTL
  BY RobotsAssumption DEF TTL

(* One more unit of time, for an age below the oldest one. *)
LEMMA OlderRange ==
  ASSUME NEW age \in 0 .. Oldest
  PROVE  Older(age) \in 0 .. Oldest /\ (age < Oldest => Older(age) = age + 1)
  BY RobotsAssumption DEF Older, Oldest

(* Time passes, and the answers in the cache and with the workers grow older. *)
LEMMA TickStep ==
  ASSUME CacheInv, Tick
  PROVE  CacheInv'
<1> USE RobotsAssumption
<1>1. TypeOK /\ refreshed \in 0 .. Oldest /\ Oldest = CacheTTL + FetchLimit + 1
  BY DEF CacheInv, TypeOK, Oldest
<1>2. refreshed' \in 0 .. Oldest /\ (refreshed' = refreshed + 1 \/ refreshed' = Oldest)
  BY <1>1 DEF Tick, Older, Oldest
<1>3. cache' # NoEntry => Cached(cache)' /\ (cache.age <= refreshed + FetchLimit)' /\ cache' \in Entries
  <2> SUFFICES ASSUME cache' # NoEntry
               PROVE  Cached(cache)' /\ (cache.age <= refreshed + FetchLimit)' /\ cache' \in Entries
    OBVIOUS
  <2>1. cache.ttl > 1 /\ cache' = Entry(cache.kind, Older(cache.age), cache.ttl - 1)
    BY DEF Tick
  <2>2. cache # NoEntry
    BY <2>1 DEF NoEntry
  <2>3. /\ cache.kind \in Kinds /\ cache.age \in 0 .. Oldest /\ cache.ttl \in 1 .. CacheTTL
        /\ cache.age + cache.ttl <= FetchLimit + TTL(cache.kind)
        /\ cache.age <= refreshed + FetchLimit
    BY <2>2 DEF CacheInv, Cached, Entries
  <2>4. TTL(cache.kind) \in 1 .. CacheTTL
    BY TTLRange
  <2>5. Older(cache.age) = cache.age + 1
    BY <1>1, <2>1, <2>3, <2>4, OlderRange
  <2>6. /\ cache'.kind = cache.kind
        /\ cache'.age = cache.age + 1
        /\ cache'.ttl = cache.ttl - 1
    BY <2>1, <2>5 DEF Entry
  <2>7. cache' \in Entries
    BY <1>1, <2>1, <2>3, <2>4, <2>5 DEF Entry, Entries
  <2>8. cache'.age + cache'.ttl <= FetchLimit + TTL(cache'.kind)
    BY <2>3, <2>4, <2>6
  <2>9. cache'.age <= refreshed' + FetchLimit
    BY <1>1, <1>2, <2>1, <2>3, <2>4, <2>6
  <2> QED
    BY <2>7, <2>8, <2>9 DEF Cached, TTL
<1>4. ASSUME NEW w \in Workers
      PROVE  /\ worker'[w].pc = worker[w].pc
             /\ worker'[w] \in [pc : {"idle", "fetch", "store", "decided"},
                                entry : Entries \cup {NoEntry}]
             /\ Holds(w)'
  <2>1. worker[w] \in [pc : {"idle", "fetch", "store", "decided"},
                       entry : Entries \cup {NoEntry}]
    BY <1>1 DEF TypeOK
  <2>2. Holds(w)
    BY DEF CacheInv
  <2>3. CASE worker[w].pc # "store"
    <3>1. worker'[w] = worker[w]
      BY <2>3 DEF Tick
    <3>2. Holds(w)'
      BY <2>2, <3>1 DEF Holds, TTL
    <3> QED
      BY <2>1, <3>1, <3>2
  <2>4. CASE worker[w].pc = "store"
    <3> DEFINE e == worker[w].entry
    <3>1. worker'[w] = [worker[w] EXCEPT !.entry.age = Older(@)]
      BY <2>4 DEF Tick
    <3>2. e \in Entries /\ e.age < FetchLimit /\ e.ttl = TTL(e.kind)
      BY <2>2, <2>4 DEF Holds, Tick
    <3>3. e.age \in 0 .. Oldest /\ e.kind \in Kinds /\ e.ttl \in 1 .. CacheTTL
      BY <3>2 DEF Entries
    <3>4. Older(e.age) = e.age + 1 /\ e.age + 1 \in 0 .. Oldest
      BY <1>1, <3>2, <3>3, OlderRange
    <3>5. worker'[w] = [pc |-> "store", entry |-> [e EXCEPT !.age = e.age + 1]]
      BY <2>1, <2>4, <3>1, <3>4
    <3>6. [e EXCEPT !.age = e.age + 1] = [kind |-> e.kind, age |-> e.age + 1, ttl |-> e.ttl]
      BY <3>2 DEF Entries
    <3>7. worker'[w].entry \in Entries
      BY <3>3, <3>4, <3>5, <3>6 DEF Entries
    <3>8. Holds(w)'
      BY <3>2, <3>3, <3>5, <3>6, <3>7 DEF Holds, TTL
    <3> QED
      BY <2>4, <3>5, <3>7, <3>8
  <2> QED
    BY <2>3, <2>4
<1>5. worker' \in [Workers -> [pc : {"idle", "fetch", "store", "decided"},
                               entry : Entries \cup {NoEntry}]]
  <2>1. DOMAIN worker' = Workers /\ worker' = [w \in Workers |-> worker'[w]]
    BY DEF Tick
  <2> QED
    BY <1>4, <2>1
<1> QED
  BY <1>1, <1>2, <1>3, <1>4, <1>5 DEF CacheInv, TypeOK, Tick

(* A step of one worker: nothing else moves, and it holds what it should. *)
LEMMA WorkerStep ==
  ASSUME CacheInv, NEW w \in Workers, Lookup(w) \/ Fetch(w) \/ Store(w) \/ Leave(w)
  PROVE  CacheInv'
<1> USE RobotsAssumption
<1>1. TypeOK /\ Holds(w) /\ worker[w] \in [pc : {"idle", "fetch", "store", "decided"},
                                           entry : Entries \cup {NoEntry}]
  BY DEF CacheInv, TypeOK
<1>2. ASSUME NEW pc \in {"idle", "fetch", "store", "decided"},
             NEW e \in Entries \cup {NoEntry}, Put(w, pc, e),
             pc \in {"idle", "fetch"} => e = NoEntry,
             pc = "store" => e \in Entries /\ e.age <= FetchLimit /\ e.ttl = TTL(e.kind),
             pc = "decided" => e \in Entries /\ e.age <= FetchLimit + TTL(e.kind)
      PROVE  /\ worker' \in [Workers -> [pc : {"idle", "fetch", "store", "decided"},
                                         entry : Entries \cup {NoEntry}]]
             /\ \A v \in Workers : Holds(v)'
  <2>1. worker' = [worker EXCEPT ![w] = [pc |-> pc, entry |-> e]]
    BY <1>2 DEF Put
  <2>2. worker' \in [Workers -> [pc : {"idle", "fetch", "store", "decided"},
                                 entry : Entries \cup {NoEntry}]]
    BY <1>1, <2>1 DEF TypeOK
  <2>3. worker'[w] = [pc |-> pc, entry |-> e]
    BY <1>1, <2>1 DEF TypeOK
  <2>4. Holds(w)'
    BY <1>2, <2>3 DEF Holds, TTL
  <2>5. ASSUME NEW v \in Workers, v # w PROVE Holds(v)'
    <3>1. worker'[v] = worker[v] /\ Holds(v)
      BY <1>1, <2>1, <2>5 DEF TypeOK, CacheInv
    <3> QED
      BY <3>1 DEF Holds, TTL
  <2> QED
    BY <2>2, <2>4, <2>5
<1>3. CASE Lookup(w)
  <2>1. UNCHANGED <<site, cache, active, refreshed>>
    BY <1>3 DEF Lookup
  <2>2. CASE cache = NoEntry
    <3>1. Put(w, "fetch", NoEntry)
      BY <1>3, <2>2 DEF Lookup
    <3> QED
      BY <1>1, <1>2, <2>1, <2>2, <3>1 DEF CacheInv, TypeOK
  <2>3. CASE cache # NoEntry
    <3>1. Put(w, "decided", cache)
      BY <1>3, <2>3 DEF Lookup
    <3>2. cache \in Entries /\ cache.age + cache.ttl <= FetchLimit + TTL(cache.kind)
      BY <2>3 DEF CacheInv, Cached
    <3>3. TTL(cache.kind) \in 1 .. CacheTTL
      BY TTLRange
    <3>4. cache.age <= FetchLimit + TTL(cache.kind)
      BY <3>2, <3>3 DEF Entries
    <3>5. /\ worker' \in [Workers -> [pc : {"idle", "fetch", "store", "decided"},
                                         entry : Entries \cup {NoEntry}]]
          /\ \A v \in Workers : Holds(v)'
      BY <1>2, <3>1, <3>2, <3>4
    <3> QED
      BY <1>1, <2>1, <3>5 DEF CacheInv, TypeOK, Cached, TTL
  <2> QED
    BY <2>2, <2>3
<1>4. CASE Fetch(w)
  <2>1. Put(w, "store", Entry(site, 0, TTL(site))) /\ UNCHANGED <<site, cache, active, refreshed>>
    BY <1>4 DEF Fetch
  <2>2. /\ Entry(site, 0, TTL(site)) \in Entries
        /\ Entry(site, 0, TTL(site)).age <= FetchLimit
        /\ Entry(site, 0, TTL(site)).ttl = TTL(Entry(site, 0, TTL(site)).kind)
    BY <1>1, TTLRange DEF Entry, Entries, TypeOK, Oldest
  <2>3. /\ worker' \in [Workers -> [pc : {"idle", "fetch", "store", "decided"},
                                    entry : Entries \cup {NoEntry}]]
        /\ \A v \in Workers : Holds(v)'
    BY <1>2, <2>1, <2>2
  <2> QED
    BY <1>1, <2>1, <2>3 DEF CacheInv, TypeOK, Cached, TTL
<1>5. CASE Store(w)
  <2> DEFINE e == worker[w].entry
  <2>1. cache' = e /\ Put(w, "decided", e) /\ UNCHANGED <<site, active, refreshed>>
    BY <1>5 DEF Store
  <2>2. e \in Entries /\ e.age <= FetchLimit /\ e.ttl = TTL(e.kind)
    BY <1>1, <1>5 DEF Store, Holds
  <2>3. TTL(e.kind) \in 1 .. CacheTTL /\ e.age \in Nat /\ refreshed \in Nat
    BY <1>1, <2>2, TTLRange DEF Entries, TypeOK, Oldest
  <2>4. e.age <= FetchLimit + TTL(e.kind) /\ e.age + e.ttl <= FetchLimit + TTL(e.kind)
        /\ e.age <= refreshed + FetchLimit
    BY <2>2, <2>3
  <2>5. /\ worker' \in [Workers -> [pc : {"idle", "fetch", "store", "decided"},
                                    entry : Entries \cup {NoEntry}]]
        /\ \A v \in Workers : Holds(v)'
    BY <1>2, <2>1, <2>2, <2>4
  <2>6. Cached(cache)' /\ (cache.age <= refreshed + FetchLimit)'
    BY <2>1, <2>2, <2>4 DEF Cached, TTL
  <2> QED
    BY <1>1, <2>1, <2>2, <2>5, <2>6 DEF CacheInv, TypeOK
<1>6. CASE Leave(w)
  <2>1. Put(w, "idle", NoEntry) /\ UNCHANGED <<site, cache, active, refreshed>>
    BY <1>6 DEF Leave
  <2>2. /\ worker' \in [Workers -> [pc : {"idle", "fetch", "store", "decided"},
                                    entry : Entries \cup {NoEntry}]]
        /\ \A v \in Workers : Holds(v)'
    BY <1>2, <2>1
  <2> QED
    BY <1>1, <2>1, <2>2 DEF CacheInv, TypeOK, Cached, TTL
<1> QED
  BY <1>3, <1>4, <1>5, <1>6

(* Every step of the workers, the refresh, the site and the clock keeps the    *)
(* invariant.                                                                  *)
LEMMA CacheStep ==
  ASSUME CacheInv, [Next]_vars
  PROVE  CacheInv'
<1>1. ASSUME NEW kind \in Kinds, SiteChanges(kind) PROVE CacheInv'
  BY <1>1 DEF SiteChanges, CacheInv, TypeOK, Holds, Cached, TTL
<1>2. CASE Refresh
  <2>1. /\ cache' = NoEntry /\ refreshed' = 0
        /\ UNCHANGED <<site, worker, active>>
    BY <1>2 DEF Refresh, Invalidated
  <2> QED
    BY <2>1, RobotsAssumption DEF CacheInv, TypeOK, Holds, TTL, Oldest
<1>3. CASE Toggle
  BY <1>3 DEF Toggle, CacheInv, TypeOK, Holds, Cached, TTL
<1>4. CASE UNCHANGED vars
  BY <1>4 DEF vars, CacheInv, TypeOK, Holds, Cached, TTL
<1> QED
  BY <1>1, <1>2, <1>3, <1>4, WorkerStep, TickStep DEF Next

(* The inductive invariant holds in every reachable state. *)
LEMMA CacheInvariant == Spec => []CacheInv
<1>1. Init => CacheInv
  BY RobotsAssumption DEF Init, CacheInv, TypeOK, Holds, Oldest
<1>2. CacheInv /\ [Next]_vars => CacheInv'
  BY CacheStep
<1> QED
  BY <1>1, <1>2, PTL DEF Spec

(* Type correctness: what is in the cache still has time to live. *)
THEOREM RobotsTypeCorrect == Spec => []TypeOK
<1>1. CacheInv => TypeOK
  BY DEF CacheInv
<1> QED
  BY <1>1, CacheInvariant, PTL

(* is_allowed: however many workers fetch, store and read at once, a decision  *)
(* rests on an answer no older than the time to live of its kind plus the time *)
(* one fetch takes.                                                            *)
THEOREM FreshAlways == Spec => []Fresh
<1>1. CacheInv => Fresh
  <2> SUFFICES ASSUME CacheInv, NEW w \in Workers, worker[w].pc = "decided"
               PROVE  worker[w].entry.age <= FetchLimit
                        + (IF worker[w].entry.kind \in {"rules", "none"} THEN CacheTTL ELSE RetryTTL)
    BY DEF Fresh
  <2>1. /\ worker[w].entry \in Entries
        /\ worker[w].entry.age <= FetchLimit + TTL(worker[w].entry.kind)
    BY DEF CacheInv, Holds
  <2>2. worker[w].entry.kind \in Kinds
    BY <2>1 DEF Entries
  <2> QED
    BY <2>1, <2>2 DEF TTL, Kinds
<1> QED
  BY <1>1, CacheInvariant, PTL

(* refresh_robots_cache: a decision taken after it rests on an answer from     *)
(* after it, or on one that a worker was fetching when it ran.                 *)
THEOREM RefreshReloadsAlways == Spec => RefreshReloads
<1>1. ASSUME CacheInv, [Next]_vars,
             NEW w \in Workers, worker[w].pc # "decided", worker'[w].pc = "decided"
      PROVE  worker'[w].entry.age <= refreshed + FetchLimit
  <2> USE RobotsAssumption
  <2>1. worker \in [Workers -> [pc : {"idle", "fetch", "store", "decided"},
                                entry : Entries \cup {NoEntry}]]
        /\ refreshed \in Nat
    BY <1>1 DEF CacheInv, TypeOK, Oldest
  <2>2. PICK v \in Workers : Lookup(v) \/ Fetch(v) \/ Store(v) \/ Leave(v)
    BY <1>1, <2>1 DEF Next, SiteChanges, Refresh, Toggle, Tick, vars
  <2>3. \/ cache # NoEntry /\ Put(w, "decided", cache)
        \/ Store(w) /\ Put(w, "decided", worker[w].entry)
    BY <1>1, <2>1, <2>2 DEF Lookup, Fetch, Store, Leave, Put
  <2>4. CASE cache # NoEntry /\ Put(w, "decided", cache)
    <3>1. worker'[w].entry = cache
      BY <2>1, <2>4 DEF Put
    <3> QED
      BY <1>1, <2>4, <3>1 DEF CacheInv
  <2>5. CASE Store(w) /\ Put(w, "decided", worker[w].entry)
    <3>1. worker'[w].entry = worker[w].entry
      BY <2>1, <2>5 DEF Put
    <3>2. worker[w].entry \in Entries /\ worker[w].entry.age <= FetchLimit
      BY <1>1, <2>5 DEF Store, CacheInv, Holds
    <3> QED
      BY <2>1, <3>1, <3>2 DEF Entries
  <2> QED
    BY <2>3, <2>4, <2>5
<1>2. CacheInv /\ [Next]_vars
        => [\A w \in Workers :
              (worker[w].pc # "decided" /\ worker'[w].pc = "decided")
                 => worker'[w].entry.age <= refreshed + FetchLimit]_vars
  BY <1>1
<1> QED
  BY <1>2, CacheInvariant, PTL DEF Spec, RefreshReloads

-----------------------------------------------------------------------------
(* Induction.  The rules that the library states for an operator are not at    *)
(* hand of the provers; what it says of finite subsets is, and gives every     *)
(* set of numbers a least one.                                                 *)

(* Every non-empty set of natural numbers has a least element. *)
LEMMA LeastNumber ==
  ASSUME NEW S \in SUBSET Nat, S # {}
  PROVE  \E x \in S : \A y \in S : x <= y
<1> DEFINE T == {1 .. n : n \in S}
<1>1. T \subseteq FiniteSubsetsOf(Nat) /\ T # {}
  <2>1. \A n \in S : 1 .. n \in SUBSET Nat /\ IsFiniteSet(1 .. n)
    BY FS_Interval
  <2> QED
    BY <2>1 DEF FiniteSubsetsOf
<1>2. PICK t \in T : \A u \in T : <<u, t>> \notin StrictSubsetOrdering(Nat)
  <2> HIDE DEF T
  <2> QED
    BY <1>1, FS_StrictSubsetOrderingWellFounded, WFMin
<1>3. PICK x \in S : t = 1 .. x
  OBVIOUS
<1>4. ASSUME NEW y \in S, y < x PROVE FALSE
  <2>1. 1 .. y \in T /\ 1 .. y \subseteq 1 .. x /\ 1 .. x \subseteq Nat /\ x \in 1 .. x /\ x \notin 1 .. y
    BY <1>4
  <2>2. <<1 .. y, 1 .. x>> \in StrictSubsetOrdering(Nat)
    BY <2>1 DEF StrictSubsetOrdering
  <2> QED
    BY <1>2, <1>3, <2>1, <2>2
<1> QED
  BY <1>4

(* Induction from 0 to n, for a property given as the set of its numbers. *)
LEMMA UpTo ==
  ASSUME NEW n \in Nat, NEW S, 0 \in S, \A i \in 1 .. n : i - 1 \in S => i \in S
  PROVE  0 .. n \subseteq S
<1> SUFFICES ASSUME (0 .. n) \ S # {} PROVE FALSE
  OBVIOUS
<1>1. PICK x \in (0 .. n) \ S : \A y \in (0 .. n) \ S : x <= y
  <2>1. (0 .. n) \ S \in SUBSET Nat
    OBVIOUS
  <2> QED
    BY <2>1, LeastNumber
<1>2. x \in 1 .. n /\ x - 1 \in 0 .. n
  BY <1>1
<1>3. x - 1 \in S
  BY <1>1, <1>2
<1> QED
  BY <1>1, <1>2, <1>3

(* Max and Min of the library. *)
LEMMA MinOfNumbers ==
  ASSUME NEW S \in SUBSET Nat, S # {}
  PROVE  Min(S) \in S /\ \A y \in S : Min(S) <= y
  BY LeastNumber DEF Min

LEMMA MaxOfInterval ==
  ASSUME NEW n \in Nat \ {0}, NEW S \in SUBSET (1 .. n), n \in S
  PROVE  Max(S) = n
<1>1. n \in S /\ \A y \in S : n >= y
  OBVIOUS
<1>2. \A x \in S : (\A y \in S : x >= y) => x = n
  OBVIOUS
<1> QED
  BY <1>1, <1>2 DEF Max

(* The first i places. *)
LEMMA FirstPlaces ==
  ASSUME NEW n \in Nat, NEW i \in 1 .. n
  PROVE  /\ 1 .. i \in SUBSET (1 .. n) /\ 1 .. i # {} /\ (1 .. i) \ {i} = 1 .. i - 1
         /\ Max(1 .. i) = i
         /\ \A d \in SUBSET (1 .. i) : d \ {i} \in SUBSET (1 .. i - 1)
         /\ \A d \in SUBSET (1 .. i) : i \notin d => d \in SUBSET (1 .. i - 1)
<1>1. i \in Nat \ {0} /\ i \in 1 .. i
  OBVIOUS
<1>2. Max(1 .. i) = i
  BY <1>1, MaxOfInterval
<1>3. 1 .. i \in SUBSET (1 .. n) /\ 1 .. i # {}
  BY <1>1
<1>4. (1 .. i) \ {i} = 1 .. i - 1
  BY <1>1
<1>5. \A x \in 1 .. i : x # i => x \in 1 .. i - 1
  BY <1>1
<1> QED
  BY <1>2, <1>3, <1>4, <1>5

(* The recursion of FoldLeft is over the sets of places 1 .. N of a sequence,  *)
(* from the last place down.  Its values are in A: step[x][i] is what place i  *)
(* makes of x.                                                                 *)
StaysIn(step, A, N) == \A x \in A, i \in 1 .. N : step[x][i] \in A

FoldsBack(h, base, step, N) ==
    /\ h[{}] = base
    /\ \A d \in SUBSET (1 .. N) : d # {} => h[d] = step[h[d \ {Max(d)}]][Max(d)]

FoldsBackIn(h, base, step, A, N) ==
    /\ h[{}] = base
    /\ \A d \in SUBSET (1 .. N) :
         d # {} /\ h[d \ {Max(d)}] \in A => h[d] = step[h[d \ {Max(d)}]][Max(d)]

(* The same from the first place to the last. *)
FoldsForth(g, base, step, A, N, end) ==
    /\ g \in [0 .. N -> A] /\ g[0] = base /\ g[N] = end
    /\ \A i \in 1 .. N : g[i] = step[g[i - 1]][i]

(* The recursion has a solution. *)
LEMMA FoldExists ==
  ASSUME NEW A, NEW base, base \in A, NEW N, N \in Nat, NEW step, StaysIn(step, A, N)
  PROVE  \E h \in [SUBSET (1 .. N) -> A] : FoldsBack(h, base, step, N)
<1> DEFINE S == {n \in 0 .. N : \E h \in [SUBSET (1 .. n) -> A] : FoldsBack(h, base, step, n)}
<1>1. 0 \in S
  <2> DEFINE h == [d \in SUBSET (1 .. 0) |-> base]
  <2>1. h \in [SUBSET (1 .. 0) -> A]
    OBVIOUS
  <2>2. \A d \in SUBSET (1 .. 0) : d = {}
    OBVIOUS
  <2>3. FoldsBack(h, base, step, 0)
    BY <2>2 DEF FoldsBack
  <2> HIDE DEF h
  <2>4. \E k \in [SUBSET (1 .. 0) -> A] : FoldsBack(k, base, step, 0)
    BY <2>1, <2>3
  <2>5. 0 \in 0 .. N
    OBVIOUS
  <2> QED
    BY <2>4, <2>5, Zenon
<1>2. ASSUME NEW i \in 1 .. N, i - 1 \in S PROVE i \in S
  <2>1. PICK g \in [SUBSET (1 .. i - 1) -> A] : FoldsBack(g, base, step, i - 1)
    BY <1>2
  <2> DEFINE h == [d \in SUBSET (1 .. i) |-> IF i \in d THEN step[g[d \ {i}]][i] ELSE g[d]]
  <2>2. \A d \in SUBSET (1 .. i) : i \notin d => d \in SUBSET (1 .. i - 1)
    BY FirstPlaces
  <2>3. \A d \in SUBSET (1 .. i) : d \ {i} \in SUBSET (1 .. i - 1)
    BY FirstPlaces
  <2>4. h \in [SUBSET (1 .. i) -> A]
    BY <2>2, <2>3 DEF StaysIn
  <2>5. ASSUME NEW d \in SUBSET (1 .. i), d # {}
        PROVE  h[d] = step[h[d \ {Max(d)}]][Max(d)]
    <3>1. CASE i \in d
      <4>1. Max(d) = i
        BY <3>1, MaxOfInterval
      <4>2. d \ {i} \in SUBSET (1 .. i) /\ i \notin d \ {i}
        OBVIOUS
      <4>3. h[d \ {i}] = g[d \ {i}]
        BY <4>2
      <4> QED
        BY <3>1, <4>1, <4>3
    <3>2. CASE i \notin d
      <4>1. d \in SUBSET (1 .. i - 1)
        BY <2>2, <3>2
      <4>2. h[d] = g[d]
        BY <3>2
      <4>3. h[d \ {Max(d)}] = g[d \ {Max(d)}]
        <5>1. d \ {Max(d)} \in SUBSET (1 .. i) /\ i \notin d \ {Max(d)}
          BY <3>2
        <5> QED
          BY <5>1
      <4> HIDE DEF h
      <4> QED
        BY <2>1, <2>5, <4>1, <4>2, <4>3 DEF FoldsBack
    <3> QED
      BY <3>1, <3>2
  <2>6. h[{}] = base
    <3>1. {} \in SUBSET (1 .. i) /\ i \notin {}
      OBVIOUS
    <3>2. h[{}] = g[{}]
      BY <3>1
    <3> QED
      BY <2>1, <3>2 DEF FoldsBack
  <2> HIDE DEF h
  <2>7. FoldsBack(h, base, step, i)
    BY <2>5, <2>6 DEF FoldsBack
  <2> QED
    BY <2>4, <2>7
<1>3. N \in S
  <2> HIDE DEF S
  <2>1. 0 .. N \subseteq S
    BY <1>1, <1>2, UpTo
  <2> QED
    BY <2>1
<1> QED
  BY <1>3

(* A non-empty set of places has a last one. *)
LEMMA LastPlace ==
  ASSUME NEW n \in Nat, NEW d \in SUBSET (1 .. n), d # {}
  PROVE  Max(d) \in d /\ \A y \in d : y <= Max(d)
<1> DEFINE T == {n - x : x \in d}
<1>1. T \in SUBSET Nat /\ T # {}
  <2>1. \A x \in d : n - x \in Nat
    OBVIOUS
  <2> QED
    BY <2>1
<1>2. PICK t \in T : \A u \in T : t <= u
  <2> HIDE DEF T
  <2> QED
    BY <1>1, LeastNumber
<1>3. PICK x \in d : t = n - x
  BY <1>2
<1>4. ASSUME NEW y \in d PROVE x >= y
  <2>1. n - y \in T
    BY <1>4
  <2>2. n - x <= n - y
    BY <1>2, <1>3, <2>1
  <2>3. x \in Int /\ y \in Int
    OBVIOUS
  <2> QED
    BY <2>2, <2>3
<1>5. Max(d) \in d /\ \A y \in d : Max(d) >= y
  BY <1>4 DEF Max
<1>6. d \subseteq Int
  OBVIOUS
<1> QED
  BY <1>5, <1>6

(* Whatever solves it goes through the sequence from the first place on. *)
LEMMA FoldTrace ==
  ASSUME NEW A, NEW base, base \in A, NEW N, N \in Nat, NEW step, StaysIn(step, A, N),
         NEW k, FoldsBackIn(k, base, step, A, N)
  PROVE  \E g : FoldsForth(g, base, step, A, N, k[1 .. N])
<1> DEFINE g == [i \in 0 .. N |-> k[1 .. i]]
           S == {i \in 0 .. N : g[i] \in A}
<1>1. g[0] = base
  <2>1. 1 .. 0 = {} /\ 0 \in 0 .. N
    OBVIOUS
  <2> QED
    BY <2>1 DEF FoldsBackIn
<1>2. ASSUME NEW i \in 1 .. N, g[i - 1] \in A PROVE g[i] = step[g[i - 1]][i]
  <2>1. 1 .. i \in SUBSET (1 .. N) /\ 1 .. i # {} /\ (1 .. i) \ {i} = 1 .. i - 1 /\ Max(1 .. i) = i
    BY FirstPlaces
  <2>3. g[i] = k[1 .. i] /\ g[i - 1] = k[1 .. i - 1]
    OBVIOUS
  <2> HIDE DEF g
  <2> QED
    BY <1>2, <2>1, <2>3 DEF FoldsBackIn
<1>3. 0 .. N \subseteq S
  <2>1. 0 \in S
    BY <1>1
  <2>2. ASSUME NEW i \in 1 .. N, i - 1 \in S PROVE i \in S
    <3>1. g[i] = step[g[i - 1]][i] /\ g[i - 1] \in A
      BY <1>2, <2>2
    <3> HIDE DEF g
    <3> QED
      BY <3>1 DEF StaysIn
  <2> HIDE DEF S
  <2> QED
    BY <2>1, <2>2, UpTo
<1>4. g \in [0 .. N -> A]
  BY <1>3
<1>5. ASSUME NEW i \in 1 .. N PROVE g[i] = step[g[i - 1]][i]
  <2>1. i - 1 \in 0 .. N
    OBVIOUS
  <2>2. g[i - 1] \in A
    BY <1>3, <2>1
  <2> HIDE DEF g
  <2> QED
    BY <1>2, <2>2
<1>6. g[N] = k[1 .. N]
  OBVIOUS
<1> HIDE DEF g
<1> QED
  BY <1>1, <1>4, <1>5, <1>6 DEF FoldsForth

-----------------------------------------------------------------------------
(* Wildcard matching *)

(* What path.find gives: nothing before a place it was given, and the first    *)
(* place where the part fits.                                                  *)
LEMMA FoundFirst ==
  ASSUME NEW path \in Seq(Chars), NEW part \in Seq(Chars), NEW pos \in Int
  PROVE  /\ Found(part, path, pos) \in Int
         /\ Found(part, path, pos) >= 0 =>
              \E i \in pos .. Len(path) : i >= 0 /\ At(part, path, i) /\ Found(part, path, pos) = i + Len(part)
         /\ \A i \in pos .. Len(path) :
              pos >= 0 /\ At(part, path, i) => Found(part, path, pos) \in 0 .. i + Len(part)
<1> DEFINE hits == {i \in pos .. Len(path) : At(part, path, i)}
<1>1. Len(path) \in Nat /\ Len(part) \in Nat
  OBVIOUS
<1>2. CASE pos < 0 \/ hits = {}
  BY <1>1, <1>2 DEF Found
<1>3. CASE pos >= 0 /\ hits # {}
  <2>1. hits \in SUBSET Nat
    BY <1>1, <1>3
  <2>2. Min(hits) \in hits /\ \A i \in hits : Min(hits) <= i
    <3> HIDE DEF hits
    <3> QED
      BY <1>3, <2>1, MinOfNumbers
  <2>3. Found(part, path, pos) = Min(hits) + Len(part)
    BY <1>3 DEF Found
  <2>4. /\ Min(hits) \in pos .. Len(path) /\ At(part, path, Min(hits))
        /\ \A i \in pos .. Len(path) : At(part, path, i) => Min(hits) <= i
    BY <2>2
  <2> HIDE DEF hits
  <2> QED
    BY <1>1, <1>3, <2>3, <2>4
<1> QED
  BY <1>2, <1>3

(* The loop over the parts, step by step. *)
LEMMA FoundAllTrace ==
  ASSUME NEW path \in Seq(Chars), NEW parts \in Seq(Seq(Chars)), NEW pos \in Int
  PROVE  \E g \in [0 .. Len(parts) -> Int] :
           /\ g[0] = pos
           /\ \A i \in 1 .. Len(parts) : g[i] = Found(parts[i], path, g[i - 1])
           /\ g[Len(parts)] = FoundAll(parts, path, pos)
<1> DEFINE N == Len(parts)
           step == [x \in Int |-> [i \in 1 .. N |-> Found(parts[i], path, x)]]
           Body(k) == [d \in SUBSET DOMAIN parts |->
                         IF d = {} THEN pos ELSE Found(parts[Max(d)], path, k[d \ {Max(d)}])]
           it == CHOOSE k : k = Body(k)
<1>1. FoundAll(parts, path, pos) = it[DOMAIN parts]
  BY DEF FoundAll, FoldLeft, MapThenFoldSet
<1>2. N \in Nat /\ DOMAIN parts = 1 .. N
  OBVIOUS
<1>3. StaysIn(step, Int, N)
  <2>1. \A i \in 1 .. N : parts[i] \in Seq(Chars)
    OBVIOUS
  <2>2. \A x \in Int, i \in 1 .. N : Found(parts[i], path, x) \in Int
    BY <2>1, FoundFirst
  <2> QED
    BY <2>2 DEF StaysIn
<1>4. \A x \in Int, i \in 1 .. N : step[x][i] = Found(parts[i], path, x)
  OBVIOUS
<1> HIDE DEF step, N
<1>5. PICK h \in [SUBSET (1 .. N) -> Int] : FoldsBack(h, pos, step, N)
  <2> HIDE DEF Body, it
  <2> QED
    BY <1>2, <1>3, FoldExists
<1>6. \A d \in SUBSET (1 .. N) : d # {} => Max(d) \in 1 .. N /\ d \ {Max(d)} \in SUBSET (1 .. N)
  BY <1>2, LastPlace
<1>7. it = Body(it)
  <2>1. \A d \in SUBSET (1 .. N) :
          h[d] = IF d = {} THEN pos ELSE Found(parts[Max(d)], path, h[d \ {Max(d)}])
    BY <1>4, <1>5, <1>6 DEF FoldsBack
  <2>2. h = Body(h)
    BY <1>2, <2>1
  <2> HIDE DEF Body
  <2> QED
    BY <2>2
<1>8. it[{}] = pos
  BY <1>7
<1>9. \A d \in SUBSET (1 .. N) :
        d # {} => it[d] = Found(parts[Max(d)], path, it[d \ {Max(d)}])
  BY <1>2, <1>7
<1> HIDE DEF it, Body
<1>10. FoldsBackIn(it, pos, step, Int, N)
  BY <1>4, <1>6, <1>8, <1>9 DEF FoldsBackIn
<1>11. PICK g : FoldsForth(g, pos, step, Int, N, it[1 .. N])
  BY <1>2, <1>3, <1>10, FoldTrace
<1>12. ASSUME NEW i \in 1 .. N PROVE g[i] = Found(parts[i], path, g[i - 1])
  <2>1. g[i - 1] \in Int
    <3>1. i - 1 \in 0 .. N
      BY <1>2
    <3>2. g \in [0 .. N -> Int]
      BY <1>11 DEF FoldsForth
    <3> QED
      BY <3>1, <3>2
  <2> QED
    BY <1>4, <1>11, <2>1 DEF FoldsForth
<1>13. g \in [0 .. N -> Int] /\ g[0] = pos /\ g[N] = FoundAll(parts, path, pos)
  BY <1>1, <1>2, <1>11 DEF FoldsForth
<1> QED
  BY <1>12, <1>13 DEF N

(* A pattern of any length. *)
IsPattern(p) == p.parts \in Seq(Seq(Chars)) /\ Len(p.parts) >= 1 /\ p.anchored \in BOOLEAN

(* A part that fits and is as long as the path is the path. *)
LEMMA WholePath ==
  ASSUME NEW path \in Seq(Chars), NEW part \in Seq(Chars)
  PROVE  path = part <=> At(part, path, 0) /\ Len(part) = Len(path)
<1>1. SubSeq(path, 1, Len(path)) = path
  OBVIOUS
<1>2. Len(part) \in Nat /\ Len(path) \in Nat
  OBVIOUS
<1>3. ASSUME path = part PROVE At(part, path, 0)
  BY <1>1, <1>2, <1>3 DEF At
<1>4. ASSUME At(part, path, 0), Len(part) = Len(path) PROVE path = part
  BY <1>1, <1>2, <1>4 DEF At
<1> QED
  BY <1>3, <1>4

(* Patterns without "*". *)
LEMMA OnePart ==
  ASSUME NEW path \in Seq(Chars), NEW p, IsPattern(p), Len(p.parts) = 1
  PROVE  Matches(p, path) <=> MatchesByDefinition(p, path)
<1> DEFINE first == p.parts[1]
<1>1. first \in Seq(Chars) /\ Head(p.parts) = first /\ Len(first) \in Nat /\ Len(path) \in Nat
  BY DEF IsPattern
<1>2. Matches(p, path) <=> At(first, path, 0) /\ (p.anchored => path = first)
  BY <1>1 DEF Matches
<1>3. ASSUME MatchesByDefinition(p, path)
      PROVE  At(first, path, 0) /\ (p.anchored => Len(first) = Len(path))
  BY <1>1, <1>3 DEF MatchesByDefinition
<1>4. ASSUME At(first, path, 0), p.anchored => Len(first) = Len(path)
      PROVE  MatchesByDefinition(p, path)
  <2> DEFINE start == [i \in 1 .. 1 |-> 0]
  <2>1. start \in [1 .. 1 -> 0 .. Len(path)]
    BY <1>1
  <2>2. start[1] = 0 /\ 1 .. 1 = {1} /\ 1 .. 0 = {}
    OBVIOUS
  <2> HIDE DEF start
  <2> QED
    BY <1>1, <1>4, <2>1, <2>2 DEF MatchesByDefinition
<1> QED
  BY <1>1, <1>2, <1>3, <1>4, WholePath

(* The parts that the loop looks for: all but the first, and but the last of   *)
(* an anchored pattern.                                                        *)
Looked(p) == IF p.anchored THEN Len(p.parts) - 2 ELSE Len(p.parts) - 1

(* The loop of Matches on a pattern with "*", step by step. *)
LEMMA MatchTrace ==
  ASSUME NEW path \in Seq(Chars), NEW p, IsPattern(p), Len(p.parts) >= 2
  PROVE  \E g \in [0 .. Looked(p) -> Int] :
           /\ g[0] = Len(p.parts[1])
           /\ \A i \in 1 .. Looked(p) : g[i] = Found(p.parts[i + 1], path, g[i - 1])
           /\ Matches(p, path) <=>
                /\ At(p.parts[1], path, 0)
                /\ g[Looked(p)] >= 0
                /\ p.anchored => EndsPath(p.parts[Len(p.parts)], path, g[Looked(p)])
<1> DEFINE first == Head(p.parts)
           rest == IF p.anchored THEN Front(Tail(p.parts)) ELSE Tail(p.parts)
<1>1. first = p.parts[1] /\ first \in Seq(Chars) /\ Len(first) \in Int
  BY DEF IsPattern
<1>2. Tail(p.parts) \in Seq(Seq(Chars)) /\ Len(Tail(p.parts)) = Len(p.parts) - 1
      /\ \A i \in 1 .. Len(p.parts) - 1 : Tail(p.parts)[i] = p.parts[i + 1]
  BY DEF IsPattern
<1>3. rest \in Seq(Seq(Chars)) /\ Len(rest) = Looked(p)
      /\ \A i \in 1 .. Looked(p) : rest[i] = p.parts[i + 1]
  <2>1. CASE ~p.anchored
    BY <1>2, <2>1 DEF Looked
  <2>2. CASE p.anchored
    <3> DEFINE t == Tail(p.parts)
               n == Len(p.parts)
    <3>1. n \in Nat /\ n >= 2 /\ Len(t) = n - 1 /\ t \in Seq(Seq(Chars)) /\ Looked(p) = n - 2
      BY <1>2, <2>2 DEF IsPattern, Looked
    <3>2. rest = SubSeq(t, 1, n - 2)
      BY <2>2, <3>1 DEF Front
    <3>3. \A i \in 1 .. n - 2 : t[i] = p.parts[i + 1]
      BY <1>2, <3>1
    <3> HIDE DEF t, n, rest
    <3>4. /\ SubSeq(t, 1, n - 2) \in Seq(Seq(Chars)) /\ Len(SubSeq(t, 1, n - 2)) = n - 2
          /\ \A i \in 1 .. n - 2 : SubSeq(t, 1, n - 2)[i] = t[i]
      BY <3>1
    <3> QED
      BY <3>1, <3>2, <3>3, <3>4
  <2> QED
    BY <2>1, <2>2 DEF IsPattern
<1>4. Matches(p, path) <=>
        /\ At(first, path, 0)
        /\ FoundAll(rest, path, Len(first)) >= 0
        /\ p.anchored => EndsPath(p.parts[Len(p.parts)], path, FoundAll(rest, path, Len(first)))
  BY DEF Matches, Last
<1> HIDE DEF first, rest
<1>5. PICK g \in [0 .. Len(rest) -> Int] :
        /\ g[0] = Len(first)
        /\ \A i \in 1 .. Len(rest) : g[i] = Found(rest[i], path, g[i - 1])
        /\ g[Len(rest)] = FoundAll(rest, path, Len(first))
  BY <1>1, <1>3, FoundAllTrace
<1> QED
  BY <1>1, <1>3, <1>4, <1>5

(* If the loop finds an end it has found every part: nothing is found after -1. *)
LEMMA AllFound ==
  ASSUME NEW path \in Seq(Chars), NEW r \in Nat, NEW g \in [0 .. r -> Int], NEW parts,
         \A i \in 1 .. r : parts[i + 1] \in Seq(Chars) /\ g[i] = Found(parts[i + 1], path, g[i - 1]),
         g[r] >= 0
  PROVE  \A i \in 0 .. r : g[i] >= 0
<1> SUFFICES ASSUME NEW j \in 0 .. r, g[j] < 0 PROVE FALSE
  OBVIOUS
<1> DEFINE S == {i \in j .. r : g[i] >= 0}
<1>1. S \in SUBSET Nat /\ r \in S
  OBVIOUS
<1>2. PICK x \in S : \A y \in S : x <= y
  <2> HIDE DEF S
  <2> QED
    BY <1>1, LeastNumber
<1>3. x \in 1 .. r /\ x - 1 \in j .. r /\ x - 1 \in 0 .. r /\ g[x] >= 0
  BY <1>2
<1>4. g[x - 1] < 0
  <2>1. x - 1 \notin S
    BY <1>2, <1>3
  <2> QED
    BY <1>3, <2>1
<1>5. Found(parts[x + 1], path, g[x - 1]) = -1
  BY <1>4 DEF Found
<1> QED
  BY <1>3, <1>5

(* Where the parts of a pattern are in a path. *)
Fits(p, path, start) ==
    /\ start \in [1 .. Len(p.parts) -> 0 .. Len(path)]
    /\ start[1] = 0
    /\ \A i \in 1 .. Len(p.parts) : At(p.parts[i], path, start[i])
    /\ \A i \in 1 .. Len(p.parts) - 1 : start[i] + Len(p.parts[i]) <= start[i + 1]
    /\ p.anchored => start[Len(p.parts)] + Len(p.parts[Len(p.parts)]) = Len(path)

LEMMA MatchesWhereItFits ==
  ASSUME NEW p, NEW path
  PROVE  MatchesByDefinition(p, path) <=> \E start : Fits(p, path, start)
  BY DEF MatchesByDefinition, Fits

(* The loop of a pattern with "*". *)
Traces(g, p, path) ==
    /\ g \in [0 .. Looked(p) -> Int] /\ g[0] = Len(p.parts[1])
    /\ \A i \in 1 .. Looked(p) : g[i] = Found(p.parts[i + 1], path, g[i - 1])

(* The loop is never past a place where the pattern fits. *)
LEMMA NeverPast ==
  ASSUME NEW path \in Seq(Chars), NEW p, IsPattern(p), Len(p.parts) >= 2,
         NEW start, Fits(p, path, start), NEW g, Traces(g, p, path)
  PROVE  \A i \in 0 .. Looked(p) : g[i] \in 0 .. start[i + 1] + Len(p.parts[i + 1])
<1> DEFINE r == Looked(p)
           n == Len(p.parts)
           S == {i \in 0 .. r : g[i] \in 0 .. start[i + 1] + Len(p.parts[i + 1])}
<1>1. r \in Nat /\ n \in Nat /\ r <= n - 1 /\ Len(path) \in Nat
  BY DEF IsPattern, Looked
<1>2. \A i \in 1 .. n : /\ p.parts[i] \in Seq(Chars) /\ Len(p.parts[i]) \in Nat
                        /\ start[i] \in 0 .. Len(path) /\ At(p.parts[i], path, start[i])
  <2>1. \A i \in 1 .. n : p.parts[i] \in Seq(Chars) /\ Len(p.parts[i]) \in Nat
    BY DEF IsPattern
  <2>2. \A i \in 1 .. n : start[i] \in 0 .. Len(path) /\ At(p.parts[i], path, start[i])
    BY DEF Fits
  <2> QED
    BY <2>1, <2>2
<1>3. 0 \in S
  <2>1. g[0] = Len(p.parts[1]) /\ start[1] = 0
    BY DEF Traces, Fits
  <2> QED
    BY <1>1, <1>2, <2>1
<1>4. ASSUME NEW i \in 1 .. r, i - 1 \in S PROVE i \in S
  <2>1. i \in 1 .. n - 1 /\ i + 1 \in 1 .. n /\ i \in 1 .. n /\ i \in 0 .. r /\ i - 1 + 1 = i
    BY <1>1
  <2>2. g[i - 1] \in 0 .. start[i] + Len(p.parts[i])
    BY <1>4, <2>1
  <2>3. start[i] + Len(p.parts[i]) <= start[i + 1]
    BY <2>1 DEF Fits
  <2>4. start[i + 1] \in g[i - 1] .. Len(path) /\ g[i - 1] \in Int /\ g[i - 1] >= 0
    <3>1. /\ start[i] \in 0 .. Len(path) /\ start[i + 1] \in 0 .. Len(path)
          /\ Len(p.parts[i]) \in Nat
      BY <1>2, <2>1
    <3> DEFINE c == g[i - 1]
               e == start[i] + Len(p.parts[i])
               b == start[i + 1]
               m == Len(path)
    <3>2. e \in Nat /\ m \in Nat
      BY <1>1, <3>1
    <3>3. b \in 0 .. m /\ c \in 0 .. e /\ e <= b
      BY <2>2, <2>3, <3>1
    <3> HIDE DEF c, e, b, m
    <3>4. b \in c .. m /\ c \in Int /\ c >= 0
      BY <3>2, <3>3
    <3> QED
      BY <3>4 DEF c, b, m
  <2>5. Found(p.parts[i + 1], path, g[i - 1]) \in 0 .. start[i + 1] + Len(p.parts[i + 1])
    BY <1>2, <2>1, <2>4, FoundFirst
  <2>6. g[i] = Found(p.parts[i + 1], path, g[i - 1])
    BY DEF Traces
  <2> QED
    BY <2>1, <2>5, <2>6
<1>5. 0 .. r \subseteq S
  <2> HIDE DEF S, r
  <2> QED
    BY <1>1, <1>3, <1>4, UpTo
<1> QED
  BY <1>5

(* Where the loop finds the parts, the pattern fits. *)
LEMMA FitsWhereFound ==
  ASSUME NEW path \in Seq(Chars), NEW p, IsPattern(p), Len(p.parts) >= 2,
         NEW g, Traces(g, p, path),
         At(p.parts[1], path, 0), g[Looked(p)] >= 0,
         p.anchored => EndsPath(p.parts[Len(p.parts)], path, g[Looked(p)])
  PROVE  \E start : Fits(p, path, start)
<1> DEFINE r == Looked(p)
           n == Len(p.parts)
           place(i) == IF i = 1 THEN 0
                       ELSE IF i <= r + 1 THEN g[i - 1] - Len(p.parts[i])
                       ELSE Len(path) - Len(p.parts[n])
           start == [i \in 1 .. n |-> place(i)]
<1>1. /\ r \in Nat /\ n \in Nat /\ n >= 2 /\ Len(path) \in Nat
      /\ p.anchored => r = n - 2
      /\ ~p.anchored => r = n - 1
      /\ p.anchored \in BOOLEAN
  BY DEF IsPattern, Looked
<1>2. \A i \in 1 .. n : p.parts[i] \in Seq(Chars) /\ Len(p.parts[i]) \in Nat
  BY DEF IsPattern
<1>3. /\ \A i \in 0 .. r : g[i] \in Int
      /\ g[0] = Len(p.parts[1])
      /\ \A i \in 1 .. r : g[i] = Found(p.parts[i + 1], path, g[i - 1])
  BY DEF Traces
<1>4. \A i \in 0 .. r : g[i] \in Nat
  <2>1. \A i \in 1 .. r : p.parts[i + 1] \in Seq(Chars)
    BY <1>1, <1>2
  <2>2. g \in [0 .. r -> Int]
    BY DEF Traces
  <2>3. \A i \in 0 .. r : g[i] >= 0
    <3> DEFINE parts == p.parts
    <3> HIDE DEF r, parts
    <3>1. /\ \A i \in 1 .. r : parts[i + 1] \in Seq(Chars)
                               /\ g[i] = Found(parts[i + 1], path, g[i - 1])
          /\ g[r] >= 0
      BY <1>3, <2>1 DEF r, parts
    <3> QED
      BY <1>1, <2>2, <3>1, AllFound
  <2> QED
    BY <1>3, <2>3
<1>5. ASSUME NEW i \in 1 .. r
      PROVE  LET s == g[i] - Len(p.parts[i + 1])
             IN  s \in g[i - 1] .. Len(path) /\ At(p.parts[i + 1], path, s)
  <2>1. i + 1 \in 1 .. n /\ i - 1 \in 0 .. r /\ i \in 0 .. r
    BY <1>1
  <2>2. p.parts[i + 1] \in Seq(Chars) /\ g[i - 1] \in Int /\ g[i] \in Nat /\ Len(p.parts[i + 1]) \in Nat
    BY <1>2, <1>4, <2>1
  <2>3. Found(p.parts[i + 1], path, g[i - 1]) >= 0 /\ g[i] = Found(p.parts[i + 1], path, g[i - 1])
    BY <1>3, <2>2
  <2>4. PICK k \in g[i - 1] .. Len(path) :
          At(p.parts[i + 1], path, k) /\ g[i] = k + Len(p.parts[i + 1])
    <3> DEFINE part == p.parts[i + 1]
               pos == g[i - 1]
    <3>1. part \in Seq(Chars) /\ pos \in Int /\ Found(part, path, pos) >= 0
      BY <2>2, <2>3
    <3> HIDE DEF part, pos
    <3>2. \E k \in pos .. Len(path) : At(part, path, k) /\ Found(part, path, pos) = k + Len(part)
      BY <3>1, FoundFirst
    <3> QED
      BY <2>3, <3>2 DEF part, pos
  <2>5. k = g[i] - Len(p.parts[i + 1])
    BY <2>2, <2>4
  <2> QED
    BY <2>4, <2>5
<1>6. p.anchored => /\ Len(path) - Len(p.parts[n]) \in g[r] .. Len(path)
                    /\ At(p.parts[n], path, Len(path) - Len(p.parts[n]))
  <2>1. n \in 1 .. n /\ r \in 0 .. r
    BY <1>1
  <2> QED
    BY <1>1, <1>2, <1>4, <2>1 DEF EndsPath
<1>7. place(1) = 0
  OBVIOUS
<1>8. ASSUME NEW i \in 2 .. r + 1
      PROVE  /\ place(i) = g[i - 1] - Len(p.parts[i])
             /\ place(i) \in g[i - 2] .. Len(path) /\ At(p.parts[i], path, place(i))
  <2>1. i - 1 \in 1 .. r /\ i - 1 + 1 = i /\ i - 1 - 1 = i - 2 /\ i # 1 /\ i <= r + 1
    BY <1>1
  <2>2. place(i) = g[i - 1] - Len(p.parts[i])
    BY <2>1
  <2>3. g[i - 1] - Len(p.parts[i]) \in g[i - 2] .. Len(path)
        /\ At(p.parts[i], path, g[i - 1] - Len(p.parts[i]))
    BY <1>5, <2>1
  <2> QED
    BY <2>2, <2>3
<1>9. p.anchored => place(n) = Len(path) - Len(p.parts[n])
  BY <1>1
<1> HIDE DEF place, r, n
<1>10. \A i \in 1 .. n : place(i) \in 0 .. Len(path) /\ At(p.parts[i], path, place(i))
  <2> SUFFICES ASSUME NEW i \in 1 .. n
               PROVE  place(i) \in 0 .. Len(path) /\ At(p.parts[i], path, place(i))
    OBVIOUS
  <2>1. CASE i = 1
    BY <1>1, <1>7, <2>1
  <2>2. CASE i \in 2 .. r + 1
    <3>1. g[i - 2] \in Nat
      <4>1. i - 2 \in 0 .. r
        BY <1>1, <2>2
      <4> QED
        BY <1>4, <4>1
    <3> QED
      BY <1>1, <1>8, <2>2, <3>1
  <2>3. CASE p.anchored /\ i = n
    <3>1. g[r] \in Nat
      <4>1. r \in 0 .. r
        BY <1>1
      <4> QED
        BY <1>4, <4>1
    <3> QED
      BY <1>1, <1>6, <1>9, <2>3, <3>1
  <2> QED
    BY <1>1, <2>1, <2>2, <2>3
<1>11. \A i \in 1 .. n - 1 : place(i) + Len(p.parts[i]) <= place(i + 1)
  <2> SUFFICES ASSUME NEW i \in 1 .. n - 1
               PROVE  place(i) + Len(p.parts[i]) <= place(i + 1)
    OBVIOUS
  <2>1. i \in 1 .. r + 1 /\ i - 1 \in 0 .. r /\ i \in 1 .. n /\ Len(p.parts[i]) \in Nat
    BY <1>1, <1>2
  <2>2. place(i) + Len(p.parts[i]) = g[i - 1] /\ g[i - 1] \in Nat
    <3>1. CASE i = 1
      BY <1>3, <1>4, <1>7, <2>1, <3>1
    <3>2. CASE i # 1
      <4>1. i \in 2 .. r + 1
        BY <1>1, <2>1, <3>2
      <4> QED
        BY <1>4, <1>8, <2>1, <4>1
    <3> QED
      BY <3>1, <3>2
  <2>3. CASE i <= r
    <3>1. i + 1 \in 2 .. r + 1 /\ i + 1 - 2 = i - 1
      BY <1>1, <2>3
    <3>2. place(i + 1) \in g[i - 1] .. Len(path)
      BY <1>8, <3>1
    <3> QED
      BY <1>1, <2>2, <3>2
  <2>4. CASE i = r + 1
    <3>1. p.anchored /\ i + 1 = n /\ i - 1 = r
      BY <1>1, <2>4
    <3>2. place(i + 1) \in g[i - 1] .. Len(path)
      BY <1>6, <1>9, <3>1
    <3> QED
      BY <1>1, <2>2, <3>2
  <2> QED
    BY <1>1, <2>1, <2>3, <2>4
<1>12. p.anchored => place(n) + Len(p.parts[n]) = Len(path)
  <2>1. Len(p.parts[n]) \in Nat
    <3>1. n \in 1 .. n
      BY <1>1
    <3> QED
      BY <1>2, <3>1
  <2> QED
    BY <1>1, <1>9, <2>1
<1>13. /\ start \in [1 .. n -> 0 .. Len(path)]
       /\ \A i \in 1 .. n : start[i] = place(i)
  BY <1>10
<1>14. \A i \in 1 .. n - 1 : i \in 1 .. n /\ i + 1 \in 1 .. n
  BY <1>1
<1>15. 1 \in 1 .. n /\ n \in 1 .. n
  BY <1>1
<1> HIDE DEF start
<1>16. Fits(p, path, start)
  <2>1. start[1] = 0 /\ \A i \in 1 .. n : At(p.parts[i], path, start[i])
    BY <1>7, <1>10, <1>13, <1>15
  <2>2. \A i \in 1 .. n - 1 : start[i] + Len(p.parts[i]) <= start[i + 1]
    BY <1>11, <1>13, <1>14
  <2>3. p.anchored => start[n] + Len(p.parts[n]) = Len(path)
    BY <1>12, <1>13, <1>15
  <2> QED
    BY <1>13, <2>1, <2>2, <2>3 DEF Fits, n
<1> QED
  BY <1>16

(* _Rule.matches is exact on every pattern and every path, however long:       *)
(* taking the first place where each part fits never misses a match, because   *)
(* the loop is never past a place where the pattern fits, and never invents    *)
(* one, because the places it takes do not overlap.                            *)
THEOREM GreedyMatchIsExact ==
  ASSUME NEW path \in Seq(Chars), NEW p, IsPattern(p)
  PROVE  Matches(p, path) <=> MatchesByDefinition(p, path)
<1>1. Len(p.parts) = 1 \/ Len(p.parts) >= 2
  <2>1. \A n \in Nat : n >= 1 => n = 1 \/ n >= 2
    OBVIOUS
  <2>2. Len(p.parts) \in Nat /\ Len(p.parts) >= 1
    BY DEF IsPattern
  <2> QED
    BY <2>1, <2>2
<1>2. CASE Len(p.parts) = 1
  BY <1>2, OnePart
<1>3. CASE Len(p.parts) >= 2
  <2> DEFINE r == Looked(p)
             n == Len(p.parts)
             Succeeds(g) == /\ At(p.parts[1], path, 0)
                            /\ g[r] >= 0
                            /\ p.anchored => EndsPath(p.parts[n], path, g[r])
  <2>1. PICK g : Traces(g, p, path) /\ (Matches(p, path) <=> Succeeds(g))
    BY <1>3, MatchTrace DEF Traces
  <2>2. ASSUME Succeeds(g) PROVE MatchesByDefinition(p, path)
    <3>1. \E start : Fits(p, path, start)
      BY <1>3, <2>1, <2>2, FitsWhereFound
    <3> QED
      BY <3>1, MatchesWhereItFits
  <2>3. ASSUME MatchesByDefinition(p, path) PROVE Succeeds(g)
    <3>1. PICK start : Fits(p, path, start)
      BY <2>3, MatchesWhereItFits
    <3>2. \A i \in 0 .. r : g[i] \in 0 .. start[i + 1] + Len(p.parts[i + 1])
      BY <1>3, <2>1, <3>1, NeverPast
    <3>3. /\ r \in Nat /\ n \in Nat /\ n >= 2 /\ Len(path) \in Nat
          /\ p.anchored => r = n - 2
          /\ r \in 0 .. r
      BY <1>3 DEF IsPattern, Looked
    <3>4. At(p.parts[1], path, 0)
      BY <3>1, <3>3 DEF Fits
    <3>5. g[r] >= 0 /\ g[r] \in Int
      BY <2>1, <3>2, <3>3 DEF Traces
    <3>6. ASSUME p.anchored PROVE EndsPath(p.parts[n], path, g[r])
      <4>1. r + 1 = n - 1 /\ n - 1 \in 1 .. n - 1 /\ n - 1 + 1 = n /\ n \in 1 .. n
            /\ n - 1 \in 1 .. n
        BY <3>3, <3>6
      <4>2. g[r] \in 0 .. start[n - 1] + Len(p.parts[n - 1])
        BY <3>2, <3>3, <4>1
      <4>3. start[n - 1] + Len(p.parts[n - 1]) <= start[n]
        BY <3>1, <4>1 DEF Fits
      <4>4. start[n] + Len(p.parts[n]) = Len(path) /\ At(p.parts[n], path, start[n])
        BY <3>1, <3>6, <4>1 DEF Fits
      <4>5. /\ start[n] \in 0 .. Len(path) /\ start[n - 1] \in 0 .. Len(path)
            /\ Len(p.parts[n]) \in Nat /\ Len(p.parts[n - 1]) \in Nat
        <5>1. start[n] \in 0 .. Len(path) /\ start[n - 1] \in 0 .. Len(path)
          BY <3>1, <4>1 DEF Fits
        <5>2. Len(p.parts[n]) \in Nat /\ Len(p.parts[n - 1]) \in Nat
          <6>1. \A i \in 1 .. n : p.parts[i] \in Seq(Chars)
            BY DEF IsPattern
          <6>2. p.parts[n] \in Seq(Chars) /\ p.parts[n - 1] \in Seq(Chars)
            BY <4>1, <6>1
          <6> QED
            BY <6>2
        <5> QED
          BY <5>1, <5>2
      <4>6. start[n] = Len(path) - Len(p.parts[n])
        BY <3>3, <4>4, <4>5
      <4>7. start[n] >= g[r]
        BY <3>5, <4>2, <4>3, <4>5
      <4> QED
        BY <4>4, <4>6, <4>7 DEF EndsPath
    <3> QED
      BY <3>4, <3>5, <3>6
  <2> QED
    BY <2>1, <2>2, <2>3
<1> QED
  BY <1>1, <1>2, <1>3

(* The patterns and paths of the instances are patterns and paths. *)
LEMMA PatternsArePatterns ==
  /\ Paths \subseteq Seq(Chars)
  /\ \A p \in Patterns : IsPattern(p)
<1>1. MaxPart \in Nat /\ MaxPath \in Nat /\ MaxParts \in Nat
  BY RobotsRulesAssumption
<1>2. \A n \in Nat : BoundedSeq(Chars, n) \subseteq Seq(Chars)
  BY DEF BoundedSeq, SeqOf
<1>3. ASSUME NEW p \in Patterns PROVE IsPattern(p)
  <2>1. PICK n \in 1 .. MaxParts : p.parts \in [1 .. n -> BoundedSeq(Chars, MaxPart)]
    BY DEF Patterns
  <2>2. n \in Nat /\ n >= 1
    BY <1>1
  <2>3. p.parts \in [1 .. n -> Seq(Chars)]
    BY <1>1, <1>2, <2>1
  <2>4. p.parts \in Seq(Seq(Chars)) /\ Len(p.parts) = n
    BY <2>2, <2>3
  <2>5. p.anchored \in BOOLEAN
    BY DEF Patterns
  <2> QED
    BY <2>2, <2>4, <2>5 DEF IsPattern
<1> QED
  BY <1>1, <1>2, <1>3 DEF Paths

(* The invariant that the run checks, for every bound. *)
THEOREM GreedyIsExactAlways == PolicySpec => []GreedyIsExact
<1>1. GreedyIsExact
  BY GreedyMatchIsExact, PatternsArePatterns DEF GreedyIsExact, MatchesExactly
<1>2. GreedyIsExact'
  BY GreedyMatchIsExact, PatternsArePatterns DEF GreedyIsExact, MatchesExactly
<1> QED
  BY <1>1, <1>2, PTL

-----------------------------------------------------------------------------
(* Reading a file *)

(* What a line is. *)
IsLine(l) ==
    /\ l.key \in {"user-agent", "allow", "disallow", "junk"}
    /\ IsRule(l) => IsPattern(l.pattern) /\ l.length \in Nat

LEMMA LinesAreLines == \A l \in Lines : IsLine(l)
<1>1. IsPattern(EmptyPattern)
  <2>1. << << >> >> \in Seq(Seq(Chars)) /\ Len(<< << >> >>) = 1
    OBVIOUS
  <2> QED
    BY <2>1 DEF IsPattern, EmptyPattern
<1>2. \A x \in RuleTexts : IsPattern(x.pattern) /\ x.length \in Nat
  BY PatternsArePatterns, RobotsRulesAssumption
<1>3. ASSUME NEW l \in AgentLines PROVE IsLine(l)
  BY <1>3 DEF AgentLines, IsLine, IsRule
<1>4. ASSUME NEW l \in RuleLines PROVE IsLine(l)
  <2>1. CASE l = RuleLine("disallow", EmptyPattern, 0)
    BY <1>1, <2>1 DEF IsLine, RuleLine
  <2>2. CASE \E key \in {"allow", "disallow"}, x \in RuleTexts : l = RuleLine(key, x.pattern, x.length)
    BY <1>2, <2>2 DEF IsLine, RuleLine
  <2> QED
    BY <2>1, <2>2 DEF RuleLines
<1>5. IsLine([key |-> "junk"])
  BY DEF IsLine, IsRule
<1> QED
  BY <1>3, <1>4, <1>5 DEF Lines

(* The locals of _rules_for. *)
Locals ==
    [own : Seq(Lines), star : Seq(Lines), named : BOOLEAN, for_own : BOOLEAN,
     for_star : BOOLEAN, in_rules : BOOLEAN, count : Nat]

LEMMA ReadLineStays ==
  ASSUME NEW s \in Locals, NEW l \in Lines
  PROVE  ReadLine(s, l) \in Locals
<1>1. UserAgent(s, l) \in Locals
  BY DEF Locals, UserAgent, Continues
<1>2. Rule(s, l) \in Locals
  <2>1. s.count + 1 \in Nat /\ Append(s.own, l) \in Seq(Lines) /\ Append(s.star, l) \in Seq(Lines)
    BY DEF Locals
  <2> HIDE DEF Kept
  <2> QED
    BY <2>1 DEF Locals, Rule
<1> QED
  BY <1>1, <1>2 DEF ReadLine

(* The loop of _rules_for, line by line. *)
Reads(g, f) ==
    /\ g \in [0 .. Len(f) -> Locals] /\ g[0] = Start /\ g[Len(f)] = ReadFile(f)
    /\ \A i \in 1 .. Len(f) : g[i] = ReadLine(g[i - 1], f[i])

LEMMA ReadFileTrace ==
  ASSUME NEW f \in Seq(Lines)
  PROVE  \E g : Reads(g, f)
<1> DEFINE N == Len(f)
           step == [x \in Locals |-> [i \in 1 .. N |-> ReadLine(x, f[i])]]
           Body(k) == [d \in SUBSET DOMAIN f |->
                         IF d = {} THEN Start ELSE ReadLine(k[d \ {Max(d)}], f[Max(d)])]
           it == CHOOSE k : k = Body(k)
<1>0. Start \in Locals
  <2>1. << >> \in Seq(Lines) /\ 0 \in Nat
    OBVIOUS
  <2> QED
    BY <2>1 DEF Start, Locals
<1>1. ReadFile(f) = it[DOMAIN f]
  BY DEF ReadFile, FoldLeft, MapThenFoldSet
<1>2. N \in Nat /\ DOMAIN f = 1 .. N
  OBVIOUS
<1>3. StaysIn(step, Locals, N)
  <2>1. \A i \in 1 .. N : f[i] \in Lines
    OBVIOUS
  <2>2. \A x \in Locals, i \in 1 .. N : ReadLine(x, f[i]) \in Locals
    BY <2>1, ReadLineStays
  <2> QED
    BY <2>2 DEF StaysIn
<1>4. \A x \in Locals, i \in 1 .. N : step[x][i] = ReadLine(x, f[i])
  OBVIOUS
<1> HIDE DEF step, N
<1>5. PICK h \in [SUBSET (1 .. N) -> Locals] : FoldsBack(h, Start, step, N)
  <2> HIDE DEF Body, it
  <2> QED
    BY <1>0, <1>2, <1>3, FoldExists
<1>6. \A d \in SUBSET (1 .. N) : d # {} => Max(d) \in 1 .. N /\ d \ {Max(d)} \in SUBSET (1 .. N)
  BY <1>2, LastPlace
<1>7. it = Body(it)
  <2>1. \A d \in SUBSET (1 .. N) :
          h[d] = IF d = {} THEN Start ELSE ReadLine(h[d \ {Max(d)}], f[Max(d)])
    BY <1>4, <1>5, <1>6 DEF FoldsBack
  <2>2. h = Body(h)
    BY <1>2, <2>1
  <2> HIDE DEF Body
  <2> QED
    BY <2>2
<1>8. it[{}] = Start
  BY <1>7
<1>9. \A d \in SUBSET (1 .. N) :
        d # {} => it[d] = ReadLine(it[d \ {Max(d)}], f[Max(d)])
  BY <1>2, <1>7
<1> HIDE DEF it, Body
<1>10. FoldsBackIn(it, Start, step, Locals, N)
  BY <1>4, <1>6, <1>8, <1>9 DEF FoldsBackIn
<1>11. PICK g : FoldsForth(g, Start, step, Locals, N, it[1 .. N])
  BY <1>0, <1>2, <1>3, <1>10, FoldTrace
<1>12. ASSUME NEW i \in 1 .. N PROVE g[i] = ReadLine(g[i - 1], f[i])
  <2>1. g[i - 1] \in Locals
    <3>1. i - 1 \in 0 .. N
      BY <1>2
    <3>2. g \in [0 .. N -> Locals]
      BY <1>11 DEF FoldsForth
    <3> QED
      BY <3>1, <3>2
  <2> QED
    BY <1>4, <1>11, <2>1 DEF FoldsForth
<1>13. g \in [0 .. N -> Locals] /\ g[0] = Start /\ g[N] = ReadFile(f)
  BY <1>1, <1>2, <1>11 DEF FoldsForth
<1> QED
  BY <1>12, <1>13 DEF N, Reads

(* A user-agent line of the file, and whether another group's rules come       *)
(* between it and line i.                                                      *)
AgentLine(f, j) == f[j].key = "user-agent"
Apart(f, j, i) ==
    \E k \in j .. i, m \in j .. i : k < m /\ IsRule(f[k]) /\ AgentLine(f, m)

(* What the locals say of the lines read: the last rule is after the last      *)
(* user-agent line; the group being read is one of the agent's; the agent has  *)
(* been named.                                                                 *)
InRules(f, i) == \E k \in 1 .. i : IsRule(f[k]) /\ \A m \in k .. i : ~AgentLine(f, m)
Open(f, agent, i) ==
    \E j \in 1 .. i : AgentLine(f, j) /\ f[j].agent = agent /\ ~Apart(f, j, i)
NamedBy(f, i) == \E j \in 1 .. i : AgentLine(f, j) /\ f[j].agent = "own"

(* A line that is no user-agent line separates nothing. *)
LEMMA OpenAfterOther ==
  ASSUME NEW f, NEW i \in Nat \ {0}, NEW agent, ~AgentLine(f, i)
  PROVE  Open(f, agent, i) <=> Open(f, agent, i - 1)
<1>1. ASSUME NEW j \in 1 .. i - 1 PROVE Apart(f, j, i) <=> Apart(f, j, i - 1)
  <2>1. ASSUME NEW k \in j .. i, NEW m \in j .. i, k < m, AgentLine(f, m)
        PROVE  k \in j .. i - 1 /\ m \in j .. i - 1
    BY <2>1
  <2>2. ASSUME NEW k \in j .. i - 1 PROVE k \in j .. i
    OBVIOUS
  <2> QED
    BY <2>1, <2>2 DEF Apart
<1>2. ASSUME NEW j \in 1 .. i, AgentLine(f, j) PROVE j \in 1 .. i - 1
  BY <1>2
<1>3. ASSUME NEW j \in 1 .. i - 1 PROVE j \in 1 .. i
  OBVIOUS
<1> QED
  BY <1>1, <1>2, <1>3 DEF Open

(* A user-agent line after a rule begins a new group, any other joins the      *)
(* group being read.                                                           *)
LEMMA OpenAfterAgent ==
  ASSUME NEW f, NEW i \in Nat \ {0}, NEW agent, AgentLine(f, i),
         \A k \in 1 .. i : ~(AgentLine(f, k) /\ IsRule(f[k]))
  PROVE  Open(f, agent, i) <=> (Open(f, agent, i - 1) /\ ~InRules(f, i - 1)) \/ f[i].agent = agent
<1>1. i \in 1 .. i /\ ~Apart(f, i, i)
  BY DEF Apart
<1>2. ASSUME NEW j \in 1 .. i - 1, ~Apart(f, j, i), AgentLine(f, j)
      PROVE  ~Apart(f, j, i - 1) /\ ~InRules(f, i - 1)
  <2>1. ASSUME NEW k \in j .. i - 1 PROVE k \in j .. i
    OBVIOUS
  <2>2. ~Apart(f, j, i - 1)
    BY <1>2, <2>1 DEF Apart
  <2>3. ASSUME NEW k \in 1 .. i - 1, IsRule(f[k]), \A m \in k .. i - 1 : ~AgentLine(f, m)
        PROVE  FALSE
    <3>1. j \notin k .. i - 1
      BY <1>2, <2>3
    <3>2. k \in j .. i /\ i \in j .. i /\ k < i
      BY <3>1
    <3> QED
      BY <1>2, <2>3, <3>2 DEF Apart
  <2> QED
    BY <2>2, <2>3 DEF InRules
<1>3. ASSUME NEW j \in 1 .. i - 1, ~Apart(f, j, i - 1), AgentLine(f, j), ~InRules(f, i - 1)
      PROVE  ~Apart(f, j, i)
  <2> SUFFICES ASSUME NEW k \in j .. i, NEW m \in j .. i, k < m, IsRule(f[k]), AgentLine(f, m)
               PROVE  FALSE
    BY DEF Apart
  <2>1. k \in j .. i - 1 /\ k \in 1 .. i - 1
    OBVIOUS
  <2>2. PICK l \in k .. i - 1 : AgentLine(f, l)
    BY <1>3, <2>1 DEF InRules
  <2>3. l \in j .. i - 1 /\ k \in 1 .. i
    BY <2>1, <2>2
  <2>4. l # k
    BY <2>2, <2>3
  <2>5. k < l
    BY <2>1, <2>2, <2>4
  <2> QED
    BY <1>3, <2>1, <2>2, <2>3, <2>5 DEF Apart
<1>4. ASSUME NEW j \in 1 .. i PROVE j = i \/ j \in 1 .. i - 1
  OBVIOUS
<1>5. ASSUME NEW j \in 1 .. i - 1 PROVE j \in 1 .. i
  OBVIOUS
<1>6. ASSUME Open(f, agent, i), f[i].agent # agent
      PROVE  Open(f, agent, i - 1) /\ ~InRules(f, i - 1)
  <2>1. PICK j \in 1 .. i : AgentLine(f, j) /\ f[j].agent = agent /\ ~Apart(f, j, i)
    BY <1>6 DEF Open
  <2>2. j \in 1 .. i - 1
    BY <1>4, <1>6, <2>1
  <2> QED
    BY <1>2, <2>1, <2>2 DEF Open
<1>7. ASSUME Open(f, agent, i - 1), ~InRules(f, i - 1) PROVE Open(f, agent, i)
  <2>1. PICK j \in 1 .. i - 1 : AgentLine(f, j) /\ f[j].agent = agent /\ ~Apart(f, j, i - 1)
    BY <1>7 DEF Open
  <2> QED
    BY <1>3, <1>5, <1>7, <2>1 DEF Open
<1>8. ASSUME f[i].agent = agent PROVE Open(f, agent, i)
  BY <1>1, <1>8 DEF Open
<1> QED
  BY <1>6, <1>7, <1>8

(* Where the last rule is. *)
LEMMA InRulesStep ==
  ASSUME NEW f, NEW i \in Nat \ {0},
         \A k \in 1 .. i : ~(AgentLine(f, k) /\ IsRule(f[k]))
  PROVE  /\ AgentLine(f, i) => ~InRules(f, i)
         /\ IsRule(f[i]) => InRules(f, i)
         /\ ~AgentLine(f, i) /\ ~IsRule(f[i]) => (InRules(f, i) <=> InRules(f, i - 1))
<1>1. i \in 1 .. i /\ \A k \in 1 .. i : i \in k .. i
  OBVIOUS
<1>2. AgentLine(f, i) => ~InRules(f, i)
  BY <1>1 DEF InRules
<1>3. ASSUME IsRule(f[i]) PROVE InRules(f, i)
  <2>1. ~AgentLine(f, i) /\ \A m \in i .. i : m = i
    BY <1>1, <1>3
  <2> QED
    BY <1>1, <1>3, <2>1 DEF InRules
<1>4. ASSUME ~AgentLine(f, i), ~IsRule(f[i]) PROVE InRules(f, i) <=> InRules(f, i - 1)
  <2>1. ASSUME NEW k \in 1 .. i, IsRule(f[k]) PROVE k \in 1 .. i - 1
    BY <1>4, <2>1
  <2>2. ASSUME NEW k \in 1 .. i - 1
        PROVE  /\ k \in 1 .. i
               /\ \A m \in k .. i - 1 : m \in k .. i
               /\ \A m \in k .. i : m = i \/ m \in k .. i - 1
    OBVIOUS
  <2> QED
    BY <1>4, <2>1, <2>2 DEF InRules
<1> QED
  BY <1>2, <1>3, <1>4

(* The group of a rule is the one that is open where the rule is read. *)
LEMMA RulesWhereOpen ==
  ASSUME NEW f \in Seq(Lines), NEW agent, NEW i \in 1 .. Len(f)
  PROVE  i \in RulesOf(f, agent) <=>
           IsRule(f[i]) /\ f[i].length \in 1 .. MAX_PATTERN_CHARS /\ Open(f, agent, i - 1)
<1>1. Len(f) \in Nat /\ DOMAIN f = 1 .. Len(f) /\ i \in DOMAIN f
  OBVIOUS
<1> SUFFICES ASSUME IsRule(f[i])
             PROVE  (\E j \in DOMAIN f : Names(f, j, i) /\ f[j].agent = agent) <=> Open(f, agent, i - 1)
  BY <1>1 DEF RulesOf
<1>2. ~AgentLine(f, i)
  BY DEF AgentLine, IsRule
<1>3. Open(f, agent, i - 1) <=> Open(f, agent, i)
  BY <1>2, OpenAfterOther
<1>4. \A j : Names(f, j, i) <=> j < i /\ AgentLine(f, j) /\ ~Apart(f, j, i)
  BY DEF Names, AgentLine, Apart
<1>5. \A j \in 1 .. i : j \in DOMAIN f /\ (AgentLine(f, j) => j < i)
  BY <1>1, <1>2
<1>6. \A j \in DOMAIN f : j < i => j \in 1 .. i
  BY <1>1
<1> QED
  BY <1>3, <1>4, <1>5, <1>6 DEF Open

(* What the locals are after i lines: the flags are those of the group being   *)
(* read.                                                                       *)
Tracks(s, f, i) ==
    /\ s.in_rules <=> InRules(f, i)
    /\ s.for_own <=> Open(f, "own", i)
    /\ s.for_star <=> Open(f, "star", i)
    /\ s.named <=> NamedBy(f, i)

LEMMA TracksStep ==
  ASSUME NEW f \in Seq(Lines), NEW i \in 1 .. Len(f), NEW s \in Locals, Tracks(s, f, i - 1)
  PROVE  Tracks(ReadLine(s, f[i]), f, i)
<1>1. i \in Nat \ {0} /\ Len(f) \in Nat /\ f[i] \in Lines
  OBVIOUS
<1>2. \A k \in 1 .. i : ~(AgentLine(f, k) /\ IsRule(f[k]))
  BY DEF AgentLine, IsRule
<1>3. NamedBy(f, i) <=> NamedBy(f, i - 1) \/ (AgentLine(f, i) /\ f[i].agent = "own")
  <2>1. \A j \in 1 .. i : j = i \/ j \in 1 .. i - 1
    BY <1>1
  <2>2. i \in 1 .. i /\ \A j \in 1 .. i - 1 : j \in 1 .. i
    BY <1>1
  <2> QED
    BY <2>1, <2>2 DEF NamedBy
<1>4. CASE AgentLine(f, i)
  <2> DEFINE t == UserAgent(s, f[i])
  <2>1. ReadLine(s, f[i]) = t
    BY <1>4 DEF ReadLine, AgentLine
  <2>2. /\ t.in_rules = FALSE
        /\ t.for_own = ((s.for_own /\ ~s.in_rules) \/ f[i].agent = "own")
        /\ t.for_star = ((s.for_star /\ ~s.in_rules) \/ f[i].agent = "star")
        /\ t.named = (s.named \/ f[i].agent = "own")
    BY DEF UserAgent, Locals, Continues
  <2>3. ~InRules(f, i)
    BY <1>1, <1>2, <1>4, InRulesStep
  <2>4. Open(f, "own", i) <=> (Open(f, "own", i - 1) /\ ~InRules(f, i - 1)) \/ f[i].agent = "own"
    BY <1>1, <1>2, <1>4, OpenAfterAgent
  <2>5. Open(f, "star", i) <=> (Open(f, "star", i - 1) /\ ~InRules(f, i - 1)) \/ f[i].agent = "star"
    BY <1>1, <1>2, <1>4, OpenAfterAgent
  <2> HIDE DEF t
  <2> QED
    BY <1>3, <1>4, <2>1, <2>2, <2>3, <2>4, <2>5 DEF Tracks
<1>5. CASE ~AgentLine(f, i)
  <2>1. /\ Open(f, "own", i) <=> Open(f, "own", i - 1)
        /\ Open(f, "star", i) <=> Open(f, "star", i - 1)
    BY <1>1, <1>5, OpenAfterOther
  <2>2. CASE IsRule(f[i])
    <3>1. InRules(f, i)
      BY <1>1, <1>2, <2>2, InRulesStep
    <3> DEFINE t == Rule(s, f[i])
    <3>2. ReadLine(s, f[i]) = t
      BY <1>5, <2>2 DEF ReadLine, AgentLine
    <3>3. t.in_rules = TRUE /\ t.for_own = s.for_own /\ t.for_star = s.for_star /\ t.named = s.named
      BY DEF Rule, Locals
    <3> HIDE DEF t
    <3> QED
      BY <1>3, <1>5, <2>1, <3>1, <3>2, <3>3 DEF Tracks
  <2>3. CASE ~IsRule(f[i])
    <3>1. InRules(f, i) <=> InRules(f, i - 1)
      BY <1>1, <1>2, <1>5, <2>3, InRulesStep
    <3>2. ReadLine(s, f[i]) = s
      BY <1>5, <2>3 DEF ReadLine, AgentLine
    <3> QED
      BY <1>3, <1>5, <2>1, <3>1, <3>2 DEF Tracks
  <2> QED
    BY <2>2, <2>3
<1> QED
  BY <1>4, <1>5

LEMMA TracksAll ==
  ASSUME NEW f \in Seq(Lines), NEW g, Reads(g, f)
  PROVE  \A i \in 0 .. Len(f) : g[i] \in Locals /\ Tracks(g[i], f, i)
<1> DEFINE N == Len(f)
           S == {i \in 0 .. N : Tracks(g[i], f, i)}
<1>1. N \in Nat /\ \A i \in 0 .. N : g[i] \in Locals
  BY DEF Reads
<1>2. 0 \in S
  <2>1. g[0] = Start /\ 1 .. 0 = {}
    BY DEF Reads
  <2>2. Tracks(Start, f, 0)
    BY <2>1 DEF Tracks, Start, InRules, Open, NamedBy
  <2> QED
    BY <1>1, <2>1, <2>2
<1>3. ASSUME NEW i \in 1 .. N, i - 1 \in S PROVE i \in S
  <2>1. i - 1 \in 0 .. N /\ i \in 0 .. N
    BY <1>1
  <2>2. g[i] = ReadLine(g[i - 1], f[i])
    BY DEF Reads
  <2>3. g[i - 1] \in Locals /\ Tracks(g[i - 1], f, i - 1)
    BY <1>1, <1>3, <2>1
  <2>4. Tracks(ReadLine(g[i - 1], f[i]), f, i)
    BY <2>3, TracksStep
  <2> QED
    BY <2>1, <2>2, <2>4
<1>4. 0 .. N \subseteq S
  <2> HIDE DEF S, N
  <2> QED
    BY <1>1, <1>2, <1>3, UpTo
<1> QED
  BY <1>1, <1>4

(* The rules read: those of the crawler's groups and of the groups of "*",     *)
(* until there are MAX_RULES of them.                                          *)
Members(s) == {s[q] : q \in 1 .. Len(s)}
Chosen(f, agent) == RulesOf(f, agent) \cap WithinLimit(f)
Upto(f, agent, i) == {f[q] : q \in Chosen(f, agent) \cap (1 .. i)}
Capped(n) == IF n <= MAX_RULES THEN n ELSE MAX_RULES

Collects(s, f, i) ==
    /\ s.count = Capped(Cardinality(Candidates(f) \cap (1 .. i)))
    /\ Members(s.own) = Upto(f, "own", i)
    /\ Members(s.star) = Upto(f, "star", i)

LEMMA MembersOfAppend ==
  ASSUME NEW s \in Seq(Lines), NEW l \in Lines
  PROVE  Members(Append(s, l)) = Members(s) \cup {l}
<1> DEFINE t == Append(s, l)
           n == Len(s)
<1>1. n \in Nat /\ Len(t) = n + 1 /\ t[n + 1] = l /\ \A q \in 1 .. n : t[q] = s[q]
  OBVIOUS
<1>2. 1 .. n + 1 = (1 .. n) \cup {n + 1}
  BY <1>1
<1> HIDE DEF t, n
<1>3. Members(s) = {s[q] : q \in 1 .. n} /\ Members(t) = {t[q] : q \in 1 .. n + 1}
  BY <1>1 DEF Members, n
<1>4. Members(t) = Members(s) \cup {l}
  BY <1>1, <1>2, <1>3
<1> QED
  BY <1>4 DEF t

(* One more line. *)
LEMMA UptoStep ==
  ASSUME NEW f \in Seq(Lines), NEW agent, NEW i \in 1 .. Len(f)
  PROVE  Upto(f, agent, i) = IF i \in Chosen(f, agent) THEN Upto(f, agent, i - 1) \cup {f[i]}
                                                       ELSE Upto(f, agent, i - 1)
<1>1. 1 .. i = (1 .. i - 1) \cup {i}
  OBVIOUS
<1> QED
  BY <1>1 DEF Upto

LEMMA CandidatesStep ==
  ASSUME NEW f \in Seq(Lines), NEW i \in 1 .. Len(f)
  PROVE  LET before == Cardinality(Candidates(f) \cap (1 .. i - 1))
             now == Cardinality(Candidates(f) \cap (1 .. i))
         IN  /\ before \in Nat /\ now \in Nat
             /\ now = IF i \in Candidates(f) THEN before + 1 ELSE before
<1> DEFINE K == Candidates(f)
           B == K \cap (1 .. i - 1)
           M == K \cap (1 .. i)
<1>1. Len(f) \in Nat /\ K \subseteq 1 .. Len(f) /\ IsFiniteSet(1 .. Len(f))
  <2>1. Len(f) \in Nat /\ DOMAIN f = 1 .. Len(f)
    OBVIOUS
  <2>2. IsFiniteSet(1 .. Len(f))
    BY <2>1, FS_Interval
  <2> QED
    BY <2>1, <2>2 DEF Candidates, RulesOf
<1>2. i \notin B /\ M = IF i \in K THEN B \cup {i} ELSE B
  <2>1. 1 .. i = (1 .. i - 1) \cup {i} /\ i \notin 1 .. i - 1
    OBVIOUS
  <2> QED
    BY <2>1
<1> HIDE DEF K
<1>3. IsFiniteSet(K)
  BY <1>1, FS_Subset
<1>4. B \in SUBSET K /\ M \in SUBSET K
  OBVIOUS
<1> HIDE DEF B, M
<1>5. IsFiniteSet(B) /\ IsFiniteSet(M)
  BY <1>3, <1>4, FS_Subset
<1>6. Cardinality(B) \in Nat /\ Cardinality(M) \in Nat
  BY <1>5, FS_CardinalityType
<1>7. Cardinality(B \cup {i}) = Cardinality(B) + 1
  BY <1>2, <1>5, FS_AddElement
<1>8. Cardinality(M) = IF i \in K THEN Cardinality(B) + 1 ELSE Cardinality(B)
  BY <1>2, <1>7
<1> QED
  BY <1>6, <1>8 DEF B, M, K

LEMMA CollectsStep ==
  ASSUME NEW f \in Seq(Lines), NEW i \in 1 .. Len(f), NEW s \in Locals,
         Tracks(s, f, i - 1), Collects(s, f, i - 1)
  PROVE  Collects(ReadLine(s, f[i]), f, i)
<1> DEFINE before == Cardinality(Candidates(f) \cap (1 .. i - 1))
           now == Cardinality(Candidates(f) \cap (1 .. i))
           room == before < MAX_RULES
           own == i \in RulesOf(f, "own") /\ room
           star == i \in RulesOf(f, "star") /\ room
           t == ReadLine(s, f[i])
           usable == IsRule(f[i]) /\ f[i].length \in 1 .. MAX_PATTERN_CHARS
<1>1. f[i] \in Lines /\ MAX_RULES \in Nat /\ MAX_PATTERN_CHARS \in Nat
  BY RobotsRulesAssumption
<1>2. /\ i \in RulesOf(f, "own") <=> usable /\ s.for_own
      /\ i \in RulesOf(f, "star") <=> usable /\ s.for_star
  BY RulesWhereOpen DEF Tracks
<1>3. i \in Candidates(f) <=> i \in RulesOf(f, "own") \/ i \in RulesOf(f, "star")
  BY DEF Candidates
<1>4. /\ before \in Nat /\ now \in Nat
      /\ now = IF i \in Candidates(f) THEN before + 1 ELSE before
  BY CandidatesStep
<1>5. s.count = Capped(before)
  BY DEF Collects
<1>6. room <=> s.count < MAX_RULES
  <2> HIDE DEF before
  <2> QED
    BY <1>1, <1>4, <1>5 DEF Capped
<1>7. /\ i \in Chosen(f, "own") <=> own
      /\ i \in Chosen(f, "star") <=> star
  BY <1>3 DEF Chosen, WithinLimit
<1>8. /\ Upto(f, "own", i) = IF own THEN Upto(f, "own", i - 1) \cup {f[i]} ELSE Upto(f, "own", i - 1)
      /\ Upto(f, "star", i) = IF star THEN Upto(f, "star", i - 1) \cup {f[i]} ELSE Upto(f, "star", i - 1)
  <2> HIDE DEF own, star
  <2> QED
    BY <1>7, UptoStep
<1>9. /\ t.count = (IF own \/ star THEN s.count + 1 ELSE s.count)
      /\ t.own = (IF own THEN Append(s.own, f[i]) ELSE s.own)
      /\ t.star = (IF star THEN Append(s.star, f[i]) ELSE s.star)
  <2>1. CASE f[i].key = "user-agent"
    <3>1. ~IsRule(f[i])
      BY <2>1 DEF IsRule
    <3>2. ~own /\ ~star
      BY <1>2, <3>1
    <3>3. t = UserAgent(s, f[i])
      BY <2>1 DEF ReadLine
    <3> HIDE DEF own, star
    <3> QED
      BY <3>2, <3>3 DEF UserAgent, Locals
  <2>2. CASE IsRule(f[i])
    <3>1. t = Rule(s, f[i])
      BY <2>2 DEF ReadLine, IsRule
    <3>2. f[i].length \in 1 .. MAX_PATTERN_CHARS <=>
            f[i].length # 0 /\ f[i].length <= MAX_PATTERN_CHARS
      <4>1. f[i].length \in Nat
        BY <1>1, <2>2, LinesAreLines DEF IsLine
      <4> QED
        BY <1>1, <4>1
    <3>3. Kept(s, f[i]) <=> (s.for_own \/ s.for_star) /\ usable /\ room
      BY <1>6, <2>2, <3>2 DEF Kept
    <3> HIDE DEF room, usable
    <3>4. Kept(s, f[i]) <=> own \/ star
      BY <1>2, <3>3
    <3>5. /\ Kept(s, f[i]) /\ s.for_own <=> own
          /\ Kept(s, f[i]) /\ s.for_star <=> star
      BY <1>2, <3>3
    <3>6. /\ t.count = (IF Kept(s, f[i]) THEN s.count + 1 ELSE s.count)
          /\ t.own = (IF Kept(s, f[i]) /\ s.for_own THEN Append(s.own, f[i]) ELSE s.own)
          /\ t.star = (IF Kept(s, f[i]) /\ s.for_star THEN Append(s.star, f[i]) ELSE s.star)
      BY <3>1 DEF Rule, Locals
    <3> HIDE DEF own, star, t
    <3> QED
      BY <3>4, <3>5, <3>6
  <2>3. CASE f[i].key # "user-agent" /\ ~IsRule(f[i])
    <3>1. ~own /\ ~star
      BY <1>2, <2>3
    <3> HIDE DEF own, star
    <3> QED
      BY <2>3, <3>1 DEF ReadLine
  <2> QED
    BY <2>1, <2>2, <2>3
<1>10. t.count = Capped(now)
  <2>1. i \in Candidates(f) /\ room <=> own \/ star
    BY <1>3
  <2> HIDE DEF own, star, t, before, now
  <2> QED
    BY <1>1, <1>4, <1>5, <1>6, <1>9, <2>1 DEF Capped
<1> HIDE DEF own, star, t, before, now
<1>11. s.own \in Seq(Lines) /\ s.star \in Seq(Lines)
  BY DEF Locals
<1>12. /\ Members(t.own) = IF own THEN Members(s.own) \cup {f[i]} ELSE Members(s.own)
       /\ Members(t.star) = IF star THEN Members(s.star) \cup {f[i]} ELSE Members(s.star)
  BY <1>1, <1>9, <1>11, MembersOfAppend
<1>13. Members(t.own) = Upto(f, "own", i) /\ Members(t.star) = Upto(f, "star", i)
  BY <1>8, <1>12 DEF Collects
<1> QED
  BY <1>10, <1>13 DEF Collects, t, now

(* What _rules_for returns: the rules of the crawler's groups if some group    *)
(* names it, and those of "*" otherwise, within the limits.                    *)
LEMMA RulesForAgent ==
  ASSUME NEW f \in Seq(Lines)
  PROVE  /\ RulesFor(f) \in Seq(Lines)
         /\ Members(RulesFor(f)) = {f[q] : q \in Chosen(f, IF Named(f) THEN "own" ELSE "star")}
<1>1. PICK g : Reads(g, f)
  BY ReadFileTrace
<1> DEFINE N == Len(f)
           S == {i \in 0 .. N : Collects(g[i], f, i)}
<1>2. N \in Nat /\ DOMAIN f = 1 .. N /\ \A i \in 0 .. N : g[i] \in Locals /\ Tracks(g[i], f, i)
  BY <1>1, TracksAll
<1>3. 0 \in S
  <2>1. g[0] = Start /\ 1 .. 0 = {} /\ 0 \in 0 .. N
    BY <1>1, <1>2 DEF Reads
  <2>2. Start.count = 0 /\ Start.own = << >> /\ Start.star = << >>
    BY DEF Start
  <2>3. Members(<< >>) = {} /\ Upto(f, "own", 0) = {} /\ Upto(f, "star", 0) = {}
    BY <2>1 DEF Members, Upto
  <2>4. Candidates(f) \cap (1 .. 0) = {} /\ Cardinality({}) = 0 /\ Capped(0) = 0
    BY <2>1, FS_EmptySet, RobotsRulesAssumption DEF Capped
  <2>5. Collects(Start, f, 0)
    BY <2>2, <2>3, <2>4 DEF Collects
  <2> QED
    BY <2>1, <2>5
<1>4. ASSUME NEW i \in 1 .. N, i - 1 \in S PROVE i \in S
  <2>1. i - 1 \in 0 .. N /\ i \in 0 .. N
    BY <1>2
  <2>2. g[i] = ReadLine(g[i - 1], f[i])
    BY <1>1 DEF Reads
  <2>3. g[i - 1] \in Locals /\ Tracks(g[i - 1], f, i - 1) /\ Collects(g[i - 1], f, i - 1)
    BY <1>2, <1>4, <2>1
  <2>4. Collects(ReadLine(g[i - 1], f[i]), f, i)
    BY <2>3, CollectsStep
  <2> QED
    BY <2>1, <2>2, <2>4
<1>5. N \in S
  <2> HIDE DEF S, N
  <2>1. 0 .. N \subseteq S
    BY <1>2, <1>3, <1>4, UpTo
  <2> QED
    BY <1>2, <2>1
<1> DEFINE e == ReadFile(f)
<1>6. e \in Locals /\ Tracks(e, f, N) /\ Collects(e, f, N)
  <2>1. g[N] = e /\ N \in 0 .. N
    BY <1>1, <1>2 DEF Reads
  <2> QED
    BY <1>2, <1>5, <2>1
<1>7. e.named <=> Named(f)
  BY <1>2, <1>6 DEF Tracks, NamedBy, Named, AgentLine
<1>8. /\ Upto(f, "own", N) = {f[q] : q \in Chosen(f, "own")}
      /\ Upto(f, "star", N) = {f[q] : q \in Chosen(f, "star")}
  <2>1. \A agent : Chosen(f, agent) \cap (1 .. N) = Chosen(f, agent)
    BY <1>2 DEF Chosen, RulesOf
  <2> QED
    BY <2>1 DEF Upto
<1>9. e.own \in Seq(Lines) /\ e.star \in Seq(Lines)
  BY <1>6 DEF Locals
<1>10. RulesFor(f) = IF Named(f) THEN e.own ELSE e.star
  BY <1>7 DEF RulesFor
<1>11. Members(e.own) = Upto(f, "own", N) /\ Members(e.star) = Upto(f, "star", N)
  BY <1>6 DEF Collects
<1> HIDE DEF e
<1> QED
  BY <1>8, <1>9, <1>10, <1>11

-----------------------------------------------------------------------------
(* Choosing a rule *)

(* A rule with something to match. *)
RealRule(l) == IsRule(l) /\ IsPattern(l.pattern) /\ l.length \in Nat \ {0}

LEMMA BestOfStays ==
  ASSUME NEW A, NEW b \in A, NEW l \in A, NEW path
  PROVE  BestOf(b, l, path) \in A
  BY DEF BestOf

(* The loop of can_fetch, rule by rule. *)
Chooses(g, rules, path) ==
    /\ g[0] = NoRule /\ g[Len(rules)] = Best(rules, path)
    /\ \A i \in 1 .. Len(rules) : g[i] = BestOf(g[i - 1], rules[i], path)

LEMMA BestTrace ==
  ASSUME NEW rules \in Seq(Lines), NEW path
  PROVE  \E g : Chooses(g, rules, path)
<1> DEFINE N == Len(rules)
           A == Lines \cup {NoRule}
           step == [x \in A |-> [i \in 1 .. N |-> BestOf(x, rules[i], path)]]
           Body(k) == [d \in SUBSET DOMAIN rules |->
                         IF d = {} THEN NoRule ELSE BestOf(k[d \ {Max(d)}], rules[Max(d)], path)]
           it == CHOOSE k : k = Body(k)
<1>0. NoRule \in A
  OBVIOUS
<1>1. Best(rules, path) = it[DOMAIN rules]
  BY DEF Best, FoldLeft, MapThenFoldSet
<1>2. N \in Nat /\ DOMAIN rules = 1 .. N
  OBVIOUS
<1>3. StaysIn(step, A, N)
  <2>1. \A i \in 1 .. N : rules[i] \in A
    OBVIOUS
  <2>2. \A x \in A, i \in 1 .. N : BestOf(x, rules[i], path) \in A
    <3> HIDE DEF A
    <3> QED
      BY <2>1, BestOfStays
  <2> QED
    BY <2>2 DEF StaysIn
<1>4. \A x \in A, i \in 1 .. N : step[x][i] = BestOf(x, rules[i], path)
  OBVIOUS
<1> HIDE DEF step, N, A
<1>5. PICK h \in [SUBSET (1 .. N) -> A] : FoldsBack(h, NoRule, step, N)
  <2> HIDE DEF Body, it
  <2> QED
    BY <1>0, <1>2, <1>3, FoldExists
<1>6. \A d \in SUBSET (1 .. N) : d # {} => Max(d) \in 1 .. N /\ d \ {Max(d)} \in SUBSET (1 .. N)
  BY <1>2, LastPlace
<1>7. it = Body(it)
  <2>1. \A d \in SUBSET (1 .. N) :
          h[d] = IF d = {} THEN NoRule ELSE BestOf(h[d \ {Max(d)}], rules[Max(d)], path)
    BY <1>4, <1>5, <1>6 DEF FoldsBack
  <2>2. h = Body(h)
    BY <1>2, <2>1
  <2> HIDE DEF Body
  <2> QED
    BY <2>2
<1>8. it[{}] = NoRule
  BY <1>7
<1>9. \A d \in SUBSET (1 .. N) :
        d # {} => it[d] = BestOf(it[d \ {Max(d)}], rules[Max(d)], path)
  BY <1>2, <1>7
<1> HIDE DEF it, Body
<1>10. FoldsBackIn(it, NoRule, step, A, N)
  BY <1>4, <1>6, <1>8, <1>9 DEF FoldsBackIn
<1>11. PICK g : FoldsForth(g, NoRule, step, A, N, it[1 .. N])
  BY <1>0, <1>2, <1>3, <1>10, FoldTrace
<1>12. ASSUME NEW i \in 1 .. N PROVE g[i] = BestOf(g[i - 1], rules[i], path)
  <2>1. g[i - 1] \in A
    <3>1. i - 1 \in 0 .. N
      BY <1>2
    <3>2. g \in [0 .. N -> A]
      BY <1>11 DEF FoldsForth
    <3> QED
      BY <3>1, <3>2
  <2> QED
    BY <1>4, <1>11, <2>1 DEF FoldsForth
<1>13. g[0] = NoRule /\ g[N] = Best(rules, path)
  BY <1>1, <1>2, <1>11 DEF FoldsForth
<1> QED
  BY <1>12, <1>13 DEF N, Chooses

(* The rule that wins among those read: one that matches, none longer, and     *)
(* Allow among the longest.                                                    *)
Wins(b, R, path) ==
    \/ b = NoRule /\ \A r \in R : ~Matches(r.pattern, path)
    \/ /\ b \in R /\ Matches(b.pattern, path)
       /\ \A r \in R : Matches(r.pattern, path) =>
            /\ r.length <= b.length
            /\ r.length = b.length /\ r.key = "allow" => b.key = "allow"

LEMMA WinsStep ==
  ASSUME NEW R, \A r \in R : RealRule(r), NEW l, RealRule(l), NEW path,
         NEW b, Wins(b, R, path)
  PROVE  Wins(BestOf(b, l, path), R \cup {l}, path)
<1>1. \A r \in R \cup {l} : r.length \in Int /\ r # NoRule
  BY DEF RealRule, NoRule, RuleLine
<1>2. CASE ~Matches(l.pattern, path)
  BY <1>2 DEF Wins, BestOf
<1>3. CASE Matches(l.pattern, path) /\ b = NoRule
  <2>1. BestOf(b, l, path) = l
    BY <1>3 DEF BestOf
  <2>2. \A r \in R : ~Matches(r.pattern, path)
    BY <1>1, <1>3 DEF Wins
  <2>3. l.length <= l.length
    BY <1>1
  <2> QED
    BY <1>3, <2>1, <2>2, <2>3 DEF Wins
<1>4. CASE Matches(l.pattern, path) /\ b # NoRule
  <2>1. /\ b \in R /\ Matches(b.pattern, path)
        /\ \A r \in R : Matches(r.pattern, path) =>
             /\ r.length <= b.length
             /\ r.length = b.length /\ r.key = "allow" => b.key = "allow"
    BY <1>4 DEF Wins
  <2>2. CASE Better(l, b)
    <3>1. BestOf(b, l, path) = l
      BY <1>4, <2>2 DEF BestOf
    <3>2. ASSUME NEW r \in R, Matches(r.pattern, path)
          PROVE  /\ r.length <= l.length
                 /\ r.length = l.length /\ r.key = "allow" => l.key = "allow"
      <4>1. /\ r.length \in Int /\ l.length \in Int
            /\ b.length \in Int
        BY <1>1, <2>1
      <4>2. r.length <= b.length
        BY <2>1, <3>2
      <4> QED
        BY <2>2, <4>1, <4>2 DEF Better
    <3>3. l.length <= l.length
      BY <1>1
    <3> QED
      BY <1>4, <3>1, <3>2, <3>3 DEF Wins
  <2>3. CASE ~Better(l, b)
    <3>1. BestOf(b, l, path) = b
      BY <1>4, <2>3 DEF BestOf
    <3>2. /\ l.length <= b.length
          /\ l.length = b.length /\ l.key = "allow" => b.key = "allow"
      <4>1. l.length \in Int /\ b.length \in Int
        BY <1>1, <2>1
      <4> QED
        BY <2>3, <4>1 DEF Better
    <3> QED
      BY <2>1, <3>1, <3>2 DEF Wins
  <2> QED
    BY <2>2, <2>3
<1> QED
  BY <1>2, <1>3, <1>4

LEMMA BestWins ==
  ASSUME NEW rules \in Seq(Lines), \A r \in Members(rules) : RealRule(r), NEW path
  PROVE  Wins(Best(rules, path), Members(rules), path)
<1>1. PICK g : Chooses(g, rules, path)
  BY BestTrace
<1> DEFINE N == Len(rules)
           M(i) == {rules[q] : q \in 1 .. i}
           S == {i \in 0 .. N : Wins(g[i], M(i), path)}
<1>2. N \in Nat
  OBVIOUS
<1>3. 0 \in S
  <2>1. g[0] = NoRule /\ M(0) = {} /\ 0 \in 0 .. N
    <3>1. 1 .. 0 = {}
      OBVIOUS
    <3> QED
      BY <1>1, <1>2, <3>1 DEF Chooses
  <2>2. Wins(NoRule, {}, path)
    BY DEF Wins
  <2> QED
    BY <2>1, <2>2
<1>4. ASSUME NEW i \in 1 .. N, i - 1 \in S PROVE i \in S
  <2>1. i \in 0 .. N /\ 1 .. i = (1 .. i - 1) \cup {i} /\ \A q \in 1 .. i : q \in 1 .. N
    BY <1>2
  <2>2. M(i) = M(i - 1) \cup {rules[i]}
    BY <2>1
  <2>3. RealRule(rules[i]) /\ \A r \in M(i - 1) : RealRule(r)
    BY <2>1 DEF Members
  <2>4. g[i] = BestOf(g[i - 1], rules[i], path)
    BY <1>1 DEF Chooses
  <2>5. Wins(g[i - 1], M(i - 1), path)
    BY <1>4
  <2> HIDE DEF M
  <2>6. Wins(BestOf(g[i - 1], rules[i], path), M(i - 1) \cup {rules[i]}, path)
    BY <2>3, <2>5, WinsStep
  <2> QED
    BY <2>1, <2>2, <2>4, <2>6
<1>5. N \in S
  <2> HIDE DEF S, N
  <2>1. 0 .. N \subseteq S
    BY <1>2, <1>3, <1>4, UpTo
  <2> QED
    BY <1>2, <2>1
<1>6. g[N] = Best(rules, path) /\ M(N) = Members(rules)
  BY <1>1 DEF Chooses, Members
<1> QED
  BY <1>5, <1>6

(* _rules_for and can_fetch on a file of any length and a path of any length:  *)
(* the decision is that of RFC 9309 by the rules that are not too long and     *)
(* among the first MAX_RULES.  The flags of the loop are those of the group    *)
(* being read, so the rules collected are those of the agent's groups, and its *)
(* count is the number of rules so far, of either kind, up to the limit;       *)
(* the rule kept at each point is the longest match so far, Allow first; and   *)
(* matching is exact.                                                          *)
THEOREM PolicyIsRFC9309 ==
  ASSUME NEW f \in Seq(Lines), NEW path \in Seq(Chars)
  PROVE  CanFetch(f, path) <=> CanFetchByDefinition(f, path)
<1> DEFINE I == Chosen(f, IF Named(f) THEN "own" ELSE "star")
           rules == RulesFor(f)
           best == Best(rules, path)
           hits == {i \in I : MatchesByDefinition(f[i].pattern, path)}
           longest == {i \in hits : \A j \in hits : f[j].length <= f[i].length}
<1>1. rules \in Seq(Lines) /\ Members(rules) = {f[q] : q \in I}
  BY RulesForAgent
<1>2. \A i \in I : RealRule(f[i])
  <2>1. \A i \in I : f[i] \in Lines /\ IsRule(f[i]) /\ f[i].length \in 1 .. MAX_PATTERN_CHARS
    BY DEF RulesOf, Chosen
  <2> HIDE DEF I
  <2> QED
    BY <2>1, LinesAreLines DEF RealRule, IsLine
<1> HIDE DEF I, rules
<1>3. Wins(best, Members(rules), path)
  BY <1>1, <1>2, BestWins
<1>4. \A i \in I : Matches(f[i].pattern, path) <=> i \in hits
  BY <1>2, GreedyMatchIsExact DEF RealRule
<1>5. \A i \in I : f[i].length \in Int
  BY <1>2 DEF RealRule
<1>6. CanFetch(f, path) <=> path = RobotsPath \/ best.key = "allow"
  BY DEF CanFetch, rules
<1>7. CanFetchByDefinition(f, path) <=>
        path = RobotsPath \/ hits = {} \/ \E i \in longest : f[i].key = "allow"
  BY DEF CanFetchByDefinition, Chosen, I
<1> HIDE DEF best
<1>8. CASE hits = {}
  <2>1. \A r \in Members(rules) : ~Matches(r.pattern, path)
    BY <1>1, <1>4, <1>8
  <2>2. best = NoRule
    BY <1>3, <2>1 DEF Wins
  <2>3. best.key = "allow"
    BY <2>2 DEF NoRule, RuleLine
  <2> QED
    BY <1>6, <1>7, <1>8, <2>3
<1>9. CASE hits # {}
  <2>1. PICK h \in I : h \in hits
    BY <1>9
  <2>2. /\ best \in Members(rules) /\ Matches(best.pattern, path)
        /\ \A r \in Members(rules) : Matches(r.pattern, path) =>
             /\ r.length <= best.length
             /\ r.length = best.length /\ r.key = "allow"
                  => best.key = "allow"
    <3>1. f[h] \in Members(rules) /\ Matches(f[h].pattern, path)
      BY <1>1, <1>4, <2>1
    <3> QED
      BY <1>3, <3>1 DEF Wins
  <2>3. PICK c \in I : best = f[c]
    BY <1>1, <2>2
  <2>4. c \in hits
    BY <1>4, <2>2, <2>3
  <2>5. \A i \in hits : /\ f[i].length <= f[c].length
                        /\ f[i].length = f[c].length
                             /\ f[i].key = "allow" => f[c].key = "allow"
    <3>1. \A i \in hits : i \in I /\ f[i] \in Members(rules) /\ Matches(f[i].pattern, path)
      BY <1>1, <1>4
    <3> QED
      BY <2>2, <2>3, <3>1
  <2>6. c \in longest
    BY <2>4, <2>5
  <2>7. ASSUME NEW i \in longest, f[i].key = "allow" PROVE f[c].key = "allow"
    <3>1. i \in hits /\ i \in I /\ f[c].length <= f[i].length
      BY <2>4
    <3>2. f[i].length = f[c].length
      BY <1>5, <2>5, <3>1
    <3> QED
      BY <2>5, <2>7, <3>1, <3>2
  <2> HIDE DEF hits, longest
  <2> QED
    BY <1>6, <1>7, <1>9, <2>3, <2>6, <2>7
<1> QED
  BY <1>8, <1>9

(* The invariant that the run checks, for every bound: whatever file the site  *)
(* writes, can_fetch allows what RFC 9309 allows by the rules within the limits*)
(* of the code.                                                                *)
THEOREM DecidesAsRFC9309Always == PolicySpec => []DecidesAsRFC9309
<1>1. PolicyInit => file \in Seq(Lines)
  BY DEF PolicyInit
<1>2. file \in Seq(Lines) /\ [PolicyNext]_<<vars, file>> => (file \in Seq(Lines))'
  <2> SUFFICES ASSUME file \in Seq(Lines), [PolicyNext]_<<vars, file>>
               PROVE  file' \in Seq(Lines)
    OBVIOUS
  <2>1. CASE WriteLine
    <3>1. << >> \in Seq(Lines) /\ \A l \in Lines : Append(file, l) \in Seq(Lines)
      OBVIOUS
    <3>2. (\E l \in Lines : file' = Append(file, l)) \/ file' = << >>
      BY <2>1 DEF WriteLine
    <3> QED
      BY <3>1, <3>2
  <2>2. CASE file' = file
    BY <2>2
  <2> QED
    BY <2>1, <2>2 DEF PolicyNext
<1>3. file \in Seq(Lines) => DecidesAsRFC9309
  <2> SUFFICES ASSUME file \in Seq(Lines), NEW path \in Paths
               PROVE  CanFetch(file, path) = CanFetchByDefinition(file, path)
    BY DEF DecidesAsRFC9309, DecidesAsDefined
  <2>1. path \in Seq(Chars)
    BY PatternsArePatterns
  <2>2. CanFetch(file, path) <=> CanFetchByDefinition(file, path)
    BY <2>1, PolicyIsRFC9309
  <2>3. CanFetch(file, path) \in BOOLEAN /\ CanFetchByDefinition(file, path) \in BOOLEAN
    BY DEF CanFetch, CanFetchByDefinition
  <2> QED
    BY <2>2, <2>3
<1> QED
  BY <1>1, <1>2, <1>3, PTL DEF PolicySpec
=============================================================================
