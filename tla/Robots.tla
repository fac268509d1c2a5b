-------------------------------- MODULE Robots --------------------------------
(* The robots.txt cache of apps/feeds/robots.py for one host: is_allowed of    *)
(* several workers, the daily refresh_robots_cache, and a site that changes    *)
(* its policy, goes down and comes back. What a body means is in RobotsRules;  *)
(* here it is what kind of answer it stands for, and how old that answer is.   *)
(*                                                                             *)
(* Time passes in Ticks. All times are ages: an answer was given so long ago.  *)
EXTENDS Integers

CONSTANTS
    Workers,        \* tasks that fetch feeds of the host
    CacheTTL,       \* CACHE_TTL_SECONDS
    RetryTTL,       \* RETRY_TTL_SECONDS
    FetchLimit      \* longest time from the answer of the site to cache.set

ASSUME RobotsAssumption ==
    {CacheTTL, RetryTTL, FetchLimit} \subseteq Nat \ {0} /\ RetryTTL <= CacheTTL

(* What the site does with a request for /robots.txt: a 2xx with a body, a 3xx *)
(* or 4xx, a 5xx or no answer, a host that is not public.                      *)
Kinds == {"rules", "none", "unreachable", "unsafe"}

VARIABLES
    site,       \* the answer the site gives now
    cache,      \* the entry of the host: its kind, age and remaining time to live
    worker,     \* each worker's program counter, and the entry it holds
    active,     \* some active feed is on the host
    refreshed   \* age of the last refresh that covered the host

vars == <<site, cache, worker, active, refreshed>>

(* Ages past every bound are one. *)
Oldest == CacheTTL + FetchLimit + 1
Older(age) == IF age < Oldest THEN age + 1 ELSE Oldest

NoEntry == [kind |-> "no", age |-> 0, ttl |-> 0]
Entry(kind, age, ttl) == [kind |-> kind, age |-> age, ttl |-> ttl]

Init ==
    /\ site \in Kinds /\ cache = NoEntry /\ active = TRUE /\ refreshed = Oldest
    /\ worker = [w \in Workers |-> [pc |-> "idle", entry |-> NoEntry]]

Put(w, pc, entry) == worker' = [worker EXCEPT ![w] = [pc |-> pc, entry |-> entry]]

-----------------------------------------------------------------------------
(* is_allowed: cache.get, and the decision when it hits. *)
Lookup(w) ==
    /\ worker[w].pc = "idle" /\ active
    /\ IF cache = NoEntry THEN Put(w, "fetch", NoEntry) ELSE Put(w, "decided", cache)
    /\ UNCHANGED <<site, cache, active, refreshed>>

(* _fetch_robots: how long the answer may be kept. *)
TTL_OutageUnset(kind) == IF kind = "unreachable" THEN 0 ELSE CacheTTL
TTL(kind) == IF kind \in {"unreachable", "unsafe"} THEN RetryTTL ELSE CacheTTL

Fetch(w) ==
    /\ worker[w].pc = "fetch"
    /\ Put(w, "store", Entry(site, 0, TTL(site)))
    /\ UNCHANGED <<site, cache, active, refreshed>>

Store_Renewing(w) ==
    /\ worker[w].pc \in {"store", "decided"}
    /\ cache' = [worker[w].entry EXCEPT !.ttl = TTL(worker[w].entry.kind)]
    /\ Put(w, "decided", worker[w].entry)
    /\ UNCHANGED <<site, active, refreshed>>

(* cache.set, and the decision from what was fetched. *)
Store(w) ==
    /\ worker[w].pc = "store"
    /\ cache' = worker[w].entry
    /\ Put(w, "decided", worker[w].entry)
    /\ UNCHANGED <<site, active, refreshed>>

(* The task goes on with the decision; a worker may also die before it. *)
Leave(w) ==
    /\ worker[w].pc # "idle"
    /\ Put(w, "idle", NoEntry)
    /\ UNCHANGED <<site, cache, active, refreshed>>

(* refresh_robots_cache drops the entries of the hosts of active feeds. *)
Invalidated_OtherKey == cache
Invalidated == NoEntry

Refresh ==
    /\ active
    /\ cache' = Invalidated
    /\ refreshed' = 0
    /\ UNCHANGED <<site, worker, active>>

(* The owner of the site, and staff pausing or resuming the last feed on it. *)
SiteChanges(kind) == site' = kind /\ UNCHANGED <<cache, worker, active, refreshed>>
Toggle == active' = ~active /\ UNCHANGED <<site, cache, worker, refreshed>>

(* Time passes: Redis drops an entry at the end of its time to live, and no    *)
(* answer waits longer than FetchLimit to be stored, nor a decision to be used.*)
Tick ==
    /\ \A w \in Workers : worker[w].pc = "store" => worker[w].entry.age < FetchLimit
    /\ \A w \in Workers : worker[w].pc # "decided"
    /\ cache' = IF cache.ttl > 1 THEN Entry(cache.kind, Older(cache.age), cache.ttl - 1)
                ELSE NoEntry
    /\ worker' = [w \in Workers |->
                    IF worker[w].pc = "store"
                    THEN [worker[w] EXCEPT !.entry.age = Older(@)] ELSE worker[w]]
    /\ refreshed' = Older(refreshed)
    /\ UNCHANGED <<site, active>>

Next ==
    \/ \E w \in Workers : Lookup(w) \/ Fetch(w) \/ Store(w) \/ Leave(w)
    \/ \E kind \in Kinds : SiteChanges(kind)
    \/ Refresh \/ Toggle \/ Tick

Spec == Init /\ [][Next]_vars

-----------------------------------------------------------------------------
(* The types of the variables. *)
Entries == [kind : Kinds, age : 0 .. Oldest, ttl : 1 .. CacheTTL]
TypeOK ==
    /\ site \in Kinds /\ cache \in Entries \cup {NoEntry}
    /\ worker \in [Workers -> [pc : {"idle", "fetch", "store", "decided"},
                               entry : Entries \cup {NoEntry}]]
    /\ active \in BOOLEAN /\ refreshed \in 0 .. Oldest

(* is_allowed: a decision rests on what the site answered at most CACHE_TTL    *)
(* ago, plus the time a fetch takes, whoever stored it; an outage, or a host   *)
(* that did not resolve, blocks the feeds for RETRY_TTL only.                  *)
Fresh == \A w \in Workers :
    worker[w].pc = "decided" =>
        worker[w].entry.age <= FetchLimit
            + (IF worker[w].entry.kind \in {"rules", "none"} THEN CacheTTL ELSE RetryTTL)

(* refresh_robots_cache: after it no decision rests on an answer older than    *)
(* the refresh, except one that was being fetched when it ran.                 *)
RefreshReloads ==
    [][\A w \in Workers :
         (worker[w].pc # "decided" /\ worker'[w].pc = "decided")
            => worker'[w].entry.age <= refreshed + FetchLimit]_vars
=============================================================================
