# newsforge: a TLA+ model of the pipeline

newsforge crawls RSS and Atom feeds, stores their entries once, and sends matching articles to
subscribers by webhook or email. A Django API, Celery workers and Celery Beat share PostgreSQL
(the rows), Redis as broker (the messages) and Redis as cache (rate limit keys, robots.txt). The
rules that matter are spread over tasks that run concurrently, are redelivered after a crash and
keep nothing locked while they talk to the network. This project models those rules in TLA+,
checks them with TLC on small instances, and proves with TLAPS, for all instances, every safety
property of the passing runs.

## The system

```
Beat -> enqueue_due_feeds -> fetch_feed -> process_article -> apply_tag_rules -> fanout_instant
                                 |             (per entry)                            |
staff API: feeds ----------------+                                                    v
owner API: subscriptions ---------------------- Beat -> daily_digest ------------> deliver
```

| Component | State | Operations | What is hard | What makes it correct |
|---|---|---|---|---|
| Scheduler (`tasks/scheduler.py`) | `next_fetch_at`, `disabled_until` | `enqueue_due_feeds` | overlapping rounds, death after the commit, messages that expire | every live feed is queued again and again |
| Fetcher (`tasks/fetcher.py`, `apps/feeds`) | the feed row, rate limit keys | `fetch_feed` | works on a copy of the row; two fetches of one feed overlap | validators stand for queued entries; staff decisions stay; errors back off, never for ever |
| Feed API (`apps/feeds`) | the same row | create/restore, PATCH, DELETE, refresh | PATCH writes all columns it loaded | a new URL starts afresh |
| Article processing (`tasks/articles.py`, `apps/articles/services.py`) | `articles_article`, `processed_at` | `process_article` | statements commit one by one; redelivery | one row per guid and per content; each article announced once |
| Tag rules (`apps/tags`) | rules, tags of an article and who attached them | `apply_tag_rules`, staff edits of rules, tags and articles | first link of the chain; staff edit while it runs | a rule's tag is there because the rule called for it; tags exist before the fan-out |
| Fan-out and delivery (`tasks/notifications.py`) | `subscriptions_deliverylog` | `fanout_instant`, `deliver` | retries, crashes, several messages per pair | one sender per pair, no success lost or undone, duplicates only after a lost answer |
| Digest (`tasks/digest.py`) | `last_notified_at` | `daily_digest` | long run over rows loaded at its start; crash in the middle | windows neither overlap nor leave gaps |
| Subscription API (`apps/subscriptions`) | the subscription row | create, PATCH, DELETE, rotate-secret | caps checked by counting; copies saved late | both caps hold, the key belongs to the target, the owner has the secret in force; what is left of that when copies grow old |
| Outbound HTTP (`apps/core/safe_http.py`) | none across calls | `request` | redirects, name resolution and endless or compressed bodies under one deadline | only public addresses are contacted; nothing is cut silently; the call ends in time |
| robots.txt (`apps/feeds/robots.py`) | a cached policy per host | `is_allowed`, `refresh_robots_cache` | outages, a file that changes, fetches on their way during a refresh | decisions are those of RFC 9309 on a file that is not too old |
| Normalisation, search, article API, accounts | none | pure or read-only work | string work | see "Not modelled" |

Components meet in shared rows (feed, subscription, `last_notified_at`) and in messages. Messages
are acknowledged late: when a worker host is lost its message comes back; when Celery itself ends
the task (exception without retry, hard time limit, loss of the pool process) it does not.

## Modules

| Module | Models | State and actions |
|---|---|---|
| `Delivery` | `deliver` | one log row per pair; per message `pc`, retries, countdown, running time. `Load`, `ReadClock`, `Claim` (the transaction of `_claim`), `Send`, `Record`; `Fail`, `Kill`, `Crash`; `Tick`; `Pause`, `Resume`, `Delete`, `Hide` |
| `Articles` | `process_article`, `upsert_article` | rows with guid and hash; per message `pc`, entry, article. One action per SQL statement: `Insert`, `Edit`, `Touch`, `Claim`, then `Announce`, `Release` |
| `Digest` | `daily_digest`, the report of `deliver`, PATCH of a subscription | a clock read by statements; `Store`/`Commit` of articles, `Fanout`, `Start`, `LoadSubs`, `Match`, `QueueOne`, `Save`, `PatchLoad`/`PatchSave` |
| `Crawl` | scheduler, `fetch_feed`, feed API | feed rows, copies held by tasks and requests, rate limit keys. `EnqueueDue`, `Queue`; `Load`, `CheckRobots`, `Acquire`, `Request`, `QueueEntries`, `Follow`, `Save`, `RecordFailure`; `FindUrl`, `Insert`, `PatchLoad`, `SaveRow`, `Refresh`, `Destroy` |
| `Subscriptions` | subscription API, saves of the digest | rows, copies, the owner and key locks. `LockOwner`, `CountOwn`, `LockKey`, `CountOthers`, `Insert`; `Patch`/`SavePatch`, `StartRotate`/`Rotate`, `StartDigest`/`SaveDigest`, `Delete` |
| `Outbox` | what `deliver` promises, without leases, clocks or retries | a pair is open, sending, arrived or delivered. `Begin`, `Arrive`, `ArriveUnnoticed`, `GiveUp`, `Confirm`, `Forget`, `Cancel` |
| `DeliveryOutbox` | the mapping of `Delivery` to `Outbox` | `ImplementsOutbox` |
| `Tagging` | `apply_tag_rules`, `fanout_instant`, staff edits of tags and rules | rules, tags of articles; per chain message its stage and the rules it still has to try. `ReadRules`, `TryRule`, `EndTags`; `Match`, `QueueOne`, `EndFanout`; `FailChain`, `Restart`; `Attach`, `Detach`, `DeleteTag`, `SaveRule`, `DeleteRule`, `PauseOrResume`, `Hide`, `DeleteOrRestoreFeed` |
| `Pipeline` | `process_article` with the chain it publishes | `Tagging` and an instance of `Articles` over the same ids; a step that announces an article puts its chain in the queue |
| `SafeHttp` | `request()` | the hop at hand, the address it is pinned to, time used, body read and decoded; `Resolve`, `Send` (answer, redirect, a Location that `urljoin` refuses, or failure), `Chunk`, `EndOfStream`, `BodyError` |
| `Robots` | the policy cache, `refresh_robots_cache` | kind, age and time to live of the entry, what the site answers. `Lookup`, `Fetch`, `Store`, `Leave`, `Refresh`, `SiteChanges`, `Toggle`, `Tick` |
| `RobotsRules` | the parser of groups, wildcard matching, choice of the rule | operators only, each loop of the code a fold over its body, next to a definition taken from RFC 9309 |
| `RobotsPolicy` | the cache and the files a site may serve | `Robots` and `RobotsRules` together; `WriteLine` adds a line to the file |
| `DeliveryProofs`, `ArticlesProofs`, `DigestProofs`, `CrawlProofs`, `SubscriptionsProofs`, `PipelineProofs`, `SafeHttpProofs`, `RobotsProofs` | theorems about the module of that name; `PipelineProofs` also about `Tagging`, `DeliveryProofs` also about `DeliveryOutbox`, `RobotsProofs` also about `RobotsRules` and `RobotsPolicy` | inductive invariants, one lemma per action or per group of like actions |
| `MC*` | constants and symmetry for TLC | |

A step is one database statement or transaction, one network exchange, or one message published:
the points between which other processes run. Data is cut down to what the properties tell apart:
an entry is a guid and a hash, a document is its version, a target is a name with a key. Operators
named `X_Something` next to `X` are deliberately wrong variants of `X`; `PROJECT.json` pairs each
with the property that notices it.

Modelling decisions worth knowing:

* **Time.** `Delivery` and `Crawl` count down (time left on a lease, until a retry, until a feed is
  due), so time never runs out and behaviours may be infinite; every moment in the past is 0, or
  `NoLease`. `Digest` needs absolute order and numbers the clock readings. All workers and the
  database share one clock.
* **Error counts** in `Crawl` stop at `MAX_ERROR_EXPONENT`, where both uses of the count saturate.
* **Validators** carry no URL, as neither a date nor a tag says where it came from. ETag and
  Last-Modified are members of `Validators`; a response has any of them, and a save keeps from the copy
  the ones it has not.
* **Entries** are numbered within a document, and a fetch queues them one by one up to
  `MaxEntries` (`MAX_ENTRIES_PER_FETCH`); `SizeOf` says how many a version has.
* **Rules of robots.txt** have a length next to their pattern: the code ranks and limits rules by their
  value as written, and matches by the normalised parts.
* **Copies.** Nothing keeps two requests from working on one row: in `Subscriptions` and `Crawl` every
  request, fetch and digest has its own copy, as old as it may get. History variables (`revived`,
  `stale`, `moved`) mark what was written from such a copy, or replaced under a task.
* **Validation and lookup** of a feed URL are one step: the unique index repeats the decision.
* **Rounds** of the scheduler take any non-empty set of due feeds, which covers rows skipped because
  they are locked; limit 200 and order are left out.
* **Deleting a subscription** is final in `Delivery`. A late PATCH can insert the row again;
  `Digest` and `Subscriptions` have that.
* Tasks slots of `Crawl` are reused; their number bounds messages in flight, not in total.

## Runs

| Run | Instance | Shows |
|---|---|---|
| `delivery` | one pair, two messages, lease 3 above time limit 2, crash | `OneSender`, `HolderKeepsLease`, `NoDuplicateWithoutLoss`; refinement: `ImplementsOutbox` |
| `delivery_live` | time limit as long as the lease, so that senders overlap; fair workers and time | `DeliveredIsFinal`, `AttemptsRunOut`, `EveryTaskEnds` |
| `articles` | three tasks over two guids, none, and two hashes, a crash | `LostOnlyToEdit`, `AnnouncedOnce`, `OneClaimer`, `ClaimedOrOrphaned`, `StoredIsInHand` |
| `articles_crash` | one task, one crash | refutes the comment at the claim |
| `pipeline` | one entry, two chain messages, a rule, two subscriptions, a crash, a restart, a staff edit or the deletion of the feed | `TagsAreCalledFor`, `FilteredOnNewTagsIsQueued`, `StoredIsFannedOut` |
| `digest` | digests, requests and articles over four clock readings | `MissedOnlyIfLate` |
| `digest_commit` | the same without crash and PATCH | refutes "not to neither" |
| `crawl` | one feed, two messages, two versions, failures, pauses, a crash; fair workers, rounds and time | `ValidatorIsQueued`, `KeepsBeingQueued` |
| `crawl_move` | two feeds, one URL redirecting to the other, a request of staff, documents one entry longer than a fetch takes | `TypeOK`, `ValidatorIsQueued`, `StaffDecides` |
| `subscriptions` | three ids of two owners, a target in two spellings, five requests that overlap on any rows | `OwnerCapButRevived`, `TargetCapButStale`, `WebhookHasSecret`, no deadlock |
| `safe_http` | three URLs (one refused, one plain HTTP), five kinds of address, two redirects, bodies up to and past the cap | `OnlyPublic`, `PermanentIfAllAre`, `ContentOnlyIfPreserved`, `NothingCutSilently`, `DeadlineHolds`, `StepsRunOut`, `Terminates` |
| `robots` | two workers and a refresh; every file of up to five lines with two rules kept and a rule that is too long; every pattern of up to three parts on every path of up to three characters | `Fresh`, `RefreshReloads`; `GreedyIsExact`, `DecidesAsRFC9309` |

**Bounds.** Two messages on one pair, article or feed are what every race here needs: each is
between one task that has read and one that writes. Pairs, and the feeds of articles, do not
interact, so one is enough. Retries, crashes, versions and requests are bounded by one to five
because each adds one more round of the same interleavings. Timers of `delivery` keep the order of the
real values (time limit 90 s < lease 120 s); `delivery_live` has no crash, and a time limit as long as
the lease. In `Crawl` the time limit, rate limit and interval are
one unit each, so that a fetch may still run when its feed is due again, as it may when messages have
waited in the queue; the pause is longer, or as long where only URLs matter.
Caps are 1 in `subscriptions`: two requests then compete for the last place. In `safe_http` the cap
on the body is two units and the raw slack one, so that a body may stop below, at and above both; two
redirects are what a payload dropped on one hop needs to come back on the next. In `robots` the two
halves, cache and files, do not interact and are explored side by side instead of multiplied: a file
grows line by line while the cache rests in its initial state, and the cache knows only the kind of
answer a file is.

**Fairness.** Weak fairness on the steps of each worker (a worker goes on with the task it runs and
takes the next message), on the passing of time, and in `Crawl` on the rounds Beat starts every
minute and on publishing. In `Pipeline` the steps of `process_article` and of the chain are fair, for the
same reason. In `SafeHttp` the whole next-state relation is: each wait of the code has a socket
timeout, and the answer of a silent peer is that timeout. Nothing is assumed of sites, receivers,
staff or owners; crashes and lost rounds are bounded. Deadlock is checked in the runs except where
tasks simply run out.

**Findings.** Two runs refute statements of the repository; `PROJECT.json` quotes them.

* `articles_crash`: a worker lost between the claim and the publication leaves an article that the
  redelivered task skips; it is never tagged or fanned out.
* `digest_commit`: an article stamped before a digest starts and committed after it has looked is in
  neither digest.

Both come from work that takes two steps with a crash or another task in between. A second weakness
of the code is a row saved from a copy that has grown old. It refutes five more statements, and
jitter refutes one; the properties of the passing runs say what is left of the five, and the
configurations below, which are not part of the run list, let TLC show the rest:

| Configuration | Property | Refutes | By |
|---|---|---|---|
| `SubscriptionsOwnerCap.cfg` | `OwnerCap` | `docs/GETTING_STARTED.md:132` "Each user can keep up to 20 subscriptions" | a PATCH loads a row, the row is deleted, a POST takes its place, and the save of the PATCH inserts the row again |
| `SubscriptionsTargetCap.cfg` | `TargetCap` | `docs/GETTING_STARTED.md:133` "at most 5 accounts" | a target given up by one PATCH and taken by another account is written back, unchecked, by a PATCH with an older copy |
| `SubscriptionsKeySync.cfg` | `KeyInSync` | `apps/subscriptions/models.py:41` "kept in sync by save()" | rotate-secret or the digest saves the key of a target that a PATCH has replaced |
| `SubscriptionsSecret.cfg` | `OwnerHasSecret` | `docs/GETTING_STARTED.md:158` "If it is lost or leaked, issue a new one" | a PATCH with an older copy saves the old secret over the new one |
| `CrawlOldUrl.cfg` | `ValidatorIsOfUrl` | `apps/feeds/models.py:60` "Forget what was learned about the old URL" | a fetch in flight saves its validators after the PATCH that changed the URL |
| `DeliveryLease.cfg` | `LeaseIsOutwaited` | `tasks/notifications.py:30` "shorter than the retries" | with full jitter the five retries of a redelivered `deliver` fall within the lease of its dead worker, and the pair is given up |

`CrawlQueue.cfg` is a further passing configuration: `ValidatorIsQueued` with both validators and two
versions, on a feed whose URL a PATCH changes.

**Accepted by the code**, and therefore not stated as properties: a pause or a new target does not
stop a send whose subscription is already loaded; a soft time limit inside a send is not retried; two
versions of an entry processed out of order leave the older content until the next fetch; a feed made
due by `refresh` may have two messages in the queue (the runs of `Crawl` have both); redirects to
another host are outside the rate limit; a compressed body cut short without Content-Length counts
as complete; a robots.txt over 500 KiB is cut in the middle of a line;
rules over `MAX_PATTERN_CHARS`, and those after the first `MAX_RULES` of the own groups and of `*`
together, are ignored, which RFC 9309 does not say; entries beyond `MAX_ENTRIES_PER_FETCH` are ignored
on that fetch (`docs/PERFORMANCE.md:99`) although the validator is stored; data after the end of the
first compressed stream is ignored (`NothingCutSilently` says so); two feeds that race for one URL are
told apart by the unique index, as two entries with one guid or one content are, which is a guard of the
model and not a property.

## Proofs

Each theorem holds for every value of the constants that satisfies the assumption of its module: the
kinds of the constants, that placeholders are not members, and what is said below. A proof shows
that an inductive invariant holds at the start and survives every action. The type invariants of `Delivery`, `Articles` and `SafeHttp` are proved only; their runs are
spent on the other properties. An action property follows from the invariant that holds before its step.

One hypothesis appears in theorems, and is needed (TLC has a counterexample without it):
`LeaseCoversAttempt` (`TimeLimit < Lease`, 90 s and 120 s in the code).

`DeliveryProofs`:

* `TypeCorrect`. Inductive with `ClockReadAfterStart` (a task has read its clock at most as long ago
  as it has run), which bounds `age`.
* `OneSenderAlways`, `HolderKeepsLeaseAlways`, from `LeaseCoversAttempt`. `OneSender` alone is not
  inductive: a second task is kept out by the lease of the first, so `SenderInv` adds that the log
  row of a holder has a lease with more time left than the holder may still run, and is not yet
  marked delivered.
* `NoDuplicateAlways`, from the same condition. `SettledInv` adds that a pair still open for
  sending, or being sent, has had no accepted payload other than lost ones.
* `DeliveredIsFinalAlways`: an action property, without the condition.
* `AttemptsRunOutAlways`: an action property, also without it. `StepsLeft` measures each message: what
  is left of its attempt, and one attempt for every retry and every crash still possible. A step of
  the message lowers the measure, and steps of others leave it, or lower it (a crash uses up one for
  all); it is never below 0 because of the types. So a message takes finitely many steps, also where
  senders overlap.
* `Refinement`: `LeaseCoversAttempt => (Spec => ImplementsOutbox)`. One lemma per action of `deliver`
  shows that it maps to a step of `Outbox` or to a stutter. It needs `SenderInv` (the abstract state
  is "sending" for one holder only) and `RowInv` (a success is in a stored row, and a deleted
  subscription has none).

`ArticlesProofs`:

* `ArticlesTypeCorrect`, with the article of a claiming task being stored.
* `AnnouncedOnceAlways`, `OneClaimerAlways`: by `ClaimInv`: a claimer's article is processed and has
  had no undoubted announcement, two claimers differ in their article, an unprocessed article is
  quiet.
* `ClaimedOrOrphanedAlways`: a processed article is `Accounted` for at every step; a release may take
  the claim away because `ClaimInv` says that nobody else has it.
* `LostOnlyToEditAlways`: the three statements of an upsert commit one by one. `MetInv` says that a task
  between them still has a row with its guid or its content, or that an edit has taken the content
  away; a guid never leaves its row, so only content can be lost.
* `StoredIsInHandAlways`. Not inductive: a task may have come to an article by its content alone, and
  lose it in a crash when its own entry has another guid. `HandInv` therefore asks for a better
  witness: a task that `Carries` the article, as its entry leads there by guid (or by content, where
  there is none), or the one that `Keeps` it because it has claimed it or failed with it. `LeadsOn` is
  the heart of it: an entry leads to the same row for ever, since an edit changes the content only of
  rows with a guid.

`DigestProofs`:

* `DigestTypeCorrect`: with every time in a row, a copy or a digest being in the past of the clock.
* `MissedOnlyIfLateAlways`. `CoverInv` says of the row, and of every copy of it that a digest or a
  PATCH has loaded and may still write or start from, what the property says of the row: all before its
  `last_notified_at` is dealt with. A digest that is sending has dealt with its window but for the
  batch. What is covered stays covered because a new `created_at` is later than every time read
  before it (`Onward`), which is where a late commit is let through as `late`.

`CrawlProofs`, assuming also that some interval is the longest (the column has 32 bits):

* `CrawlTypeCorrect`: every delay that `next_attempt_at` computes is at most the longest interval, the
  pause or twice the gap, also for copies saved late.
* `StaffDecidesAlways`, an action property: per action, what it writes of `is_active`, `is_deleted` and
  `interval_seconds`.
* `ValidatorIsQueuedAlways`. `CoverInv` carries the property through the copies: every validator a
  task or a PATCH has loaded is of a document whose entries, up to the cap, were queued; a task that is
  queueing has queued all up to the last one sent, and past `QueueEntries` all of them. URLs may change
  at any time, as the documents are looked for at every URL.

`SubscriptionsProofs`, assuming also finitely many subscriptions and requests. No theorem restricts how
requests on one row overlap:

* `SubscriptionsTypeCorrect`: the bound on secrets is inductive with `Counted` (each answered request
  made one at most); locks are held by requests in flight.
* `WebhookHasSecretAlways`: `SecretInv` says of rows and copies alike that a secret in them was given to
  the owner, so that any copy may be saved at any time.
* `OwnerCapAlways`: `CapInv` says that a POST has the owner's lock from its count to its INSERT, and
  that the owner, rows inserted again by a PATCH not counted, is below the cap in between. `FreshIds`
  keeps ids of POSTs in flight apart.
* `TargetCapAlways`: `TargetInv` says that a row which is not `stale` has the key of its target
  (`FreshKeys`), so that the code's count by key misses none of them, and that a request which has
  counted the accounts of a key holds its lock, with room until it saves, unless it leaves the target
  of its copy as it is.

`PipelineProofs`, about `Tagging` composed with `Articles`, assuming also that a rule has finitely
many keywords:

* `PipelineTypeCorrect`: rules and tags of articles never refer to a deleted tag.
* `MatchesIfCalled` (a lemma): counting the keywords found, as `apply_rules_to_article` does, decides
  what "any" and "all" mean.
* `TagsAreCalledForAlways`, `FilteredOnNewTagsIsQueuedAlways`: by `ChainInv`, which says of each
  message at each stage: while rules are tried, a due tag is settled (attached, or taken away by staff)
  or its rule is still to try; after that all are settled; while deliveries are queued, each one owed
  is queued or still to queue. A restart goes back to a stage whose condition is weaker.

`SafeHttpProofs`:

* `SafeHttpTypeCorrect`, with `CallInv` (what the locals are at each point; while a body is read, all
  that arrived is in the buffer, but for data after the end of a compressed stream).
* `OnlyPublicAlways`: the address kept from `resolve` to the connection is public (`AddrInv`).
* `PermanentIfAllAreAlways`, `ContentOnlyIfPreservedAlways`: `TrailInv` says that the flags `permanent`
  and `content` summarise all redirect codes so far.
* `NothingCutSilentlyAlways`: from `CallInv`, for each way a body ends.
* `DeadlineHoldsAlways`: `DeadlineInv` says that a hop is sent with exactly the time that remains, so
  that time used and its waits never sum to more than those of one hop from the start.
* `StepsRunOutAlways`: an action property. `StepsLeft` counts two steps for every redirect left and a
  read for every byte below the raw limit; `RawInv` (the raw bytes are within the limit while a body is
  read, also when they decode to nothing) keeps it from falling below 0.

`RobotsProofs`, assuming also `RetryTTL <= CacheTTL` (1800 and 86400 seconds in the code):

* `RobotsTypeCorrect`, `FreshAlways`, `RefreshReloadsAlways`: `CacheInv` bounds the sum of age and
  remaining time to live of the cached answer, the age of what a worker has fetched and not yet
  stored, and the age of the cache by that of the last refresh plus one fetch.
* `GreedyMatchIsExact`: `_Rule.matches` agrees with the definition for patterns and paths of any
  length. In one direction the loop is never past the place where a match has its next part
  (the first fit is at most any other fit); in the other the places it took are a match.
  `GreedyIsExactAlways` is the invariant of the run.
* `PolicyIsRFC9309`: `_rules_for` and `can_fetch` agree with RFC 9309 on files and paths of any length,
  by the rules that are no longer than `MAX_PATTERN_CHARS` and among the first `MAX_RULES` of the
  crawler's groups and those of `*` together, ranked by their length as written. `Tracks` says that after
  each line the flags are those of the group being read, `Collects` that the lists hold the rules of
  the groups so far that are within the limits, `Wins` that the best rule is the longest match so far with Allow first.
  `DecidesAsRFC9309Always` is the invariant of the run.
* These need induction over sequences, and the library's induction theorems cannot be used here
  because they take an operator. `LeastNumber` replaces them: every
  non-empty set of numbers has a least member (which follows from the library's theorem on finite
  subsets), so a loop invariant that failed somewhere would have a first place where it fails.
  `FoldTrace` says of a fold what the loop says of its locals: there is a sequence of values that
  starts with the first, applies the body at each element and ends with the result.

Only model-checked:

* `EveryTaskEnds`, `KeepsBeingQueued`, `StoredIsFannedOut`, `Terminates`: liveness under fairness is
  beyond the prover. For three of them the part that is safety is proved: that steps run out
  (`AttemptsRunOut`, `StepsRunOut`), and that a stored article is never without a task that will bring
  it to its chain (`StoredIsInHand`). What is left to TLC is that fair workers take those steps.
* The properties that the code refutes.

## Not modelled

* **String work**: sanitising of text, language detection, the canonical form of URLs and addresses,
  percent-encoding in robots.txt and the product token. What they decide is an outcome, a set or a
  constant function.
* **Search and the article API** only read; ranking and highlighting are PostgreSQL's. The text query
  of a subscription is taken to match in `Tagging`.
* **Accounts, throttling, health checks, error envelopes, admin**: thin layers of the framework
  without state of their own.
* **Settings and migrations**: their limits and unique indexes are constants and guards.
* Within modelled parts: the order and limit of a scheduler round, the batches of
  `cleanup_old_articles` (articles vanish one by one), the slugs of new tags, payloads and signatures.

## Plan

Every invariant and every action property of the passing runs has its theorem, and so has the
refinement. What is left:

1. what survives without `LeaseCoversAttempt`, such as `OneSender` until a task outlives its lease;
2. further promises stated abstractly, as `Outbox` does for `deliver`: the announcement of an article
   as one step, the policy cache as a bounded-age register;
3. batches of `cleanup_old_articles` and the order and limit of a scheduler round.
