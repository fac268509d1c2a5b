------------------------------- MODULE Crawl --------------------------------
(***************************************************************************)
(* Crawling: enqueue_due_feeds (tasks/scheduler.py), fetch_feed            *)
(* (tasks/fetcher.py) with its backoff and rate limit, and the staff API   *)
(* that edits the same rows (apps/feeds/serializers.py, views.py).         *)
(*                                                                         *)
(* A feed is a row of feeds_feed.  fetch_feed loads it, talks to the       *)
(* network and then writes back some columns of the copy it loaded; PATCH  *)
(* writes back all columns.  Nothing locks the row in between.             *)
(*                                                                         *)
(* Times are relative to the present and 0 stands for the present or any   *)
(* moment before it (disabled_until NULL too): nextIn is next_fetch_at,    *)
(* paused is disabled_until, ttl the time before a queued message expires, *)
(* cooldown the time to live of a host's rate limit key.                   *)
(*                                                                         *)
(* A document is the version served at a URL.  Its validators (ETag and    *)
(* Last-Modified) each stand for the version, without the URL; the row     *)
(* keeps each in a column of its own.                                      *)
(***************************************************************************)
EXTENDS Integers, FiniteSetsExt

CONSTANTS
  Feeds,       \* ids of feeds_feed
  Urls,        \* canonical URLs
  Tasks,       \* bound: fetch_feed messages queued or running at once
  Rounds,      \* enqueue_due_feeds tasks that may run at once
  Requests,    \* staff requests, each used once
  NewUrls,     \* URLs a PATCH may give a feed
  HostOf,      \* the host of a URL
  MovedTo,     \* where a URL is permanently redirected to, itself if it is not
  Intervals,   \* values of interval_seconds
  MaxErrors,   \* MAX_ERROR_EXPONENT
  Pause,       \* DISABLE_HOURS, which is also MAX_DELAY_SECONDS
  MinGap,      \* PER_DOMAIN_MIN_INTERVAL
  TimeLimit,   \* CELERY_TASK_TIME_LIMIT: a worker kills a task that ran so long
  Validators,  \* the validator headers a site may send: ETag, Last-Modified
  MaxEntries,  \* MAX_ENTRIES_PER_FETCH
  SizeOf,      \* the number of entries in each version of a document
  MaxVersion,  \* bound: versions of a document
  MaxCrashes,  \* bound: how many crashes of workers and lost rounds happen
  NoUrl,       \* no permanent redirect
  NoFeed       \* no feed yet

Hosts == {HostOf[u] : u \in Urls}

Longest == Max(Intervals \union {Pause, 2 * MinGap})

ASSUME CrawlAssumption ==
  /\ NewUrls \subseteq Urls
  /\ DOMAIN HostOf = Urls
  /\ MovedTo \in [Urls -> Urls]
  /\ Urls # {}
  /\ Intervals \subseteq Nat \ {0}
  /\ \E longest \in Intervals : \A i \in Intervals : i <= longest  \* a 32-bit column
  /\ MaxErrors \in Nat \ {0}
  /\ Pause \in Nat \ {0}
  /\ MinGap \in Nat \ {0}
  /\ TimeLimit \in Nat \ {0}
  /\ MaxEntries \in Nat \ {0}
  /\ MaxVersion \in Nat \ {0}
  /\ SizeOf \in [1..MaxVersion -> Nat]
  /\ MaxCrashes \in Nat
  /\ NoUrl \notin Urls
  /\ NoFeed \notin Feeds

VARIABLES
  row,       \* the rows of feeds_feed, by id
  version,   \* the version each URL serves
  batch,     \* per round: the feeds still to be queued and their interval, 0 for the others
  task,      \* where each fetch_feed message is
  copy,      \* the row its worker loaded, without next_fetch_at, which it never reads
  answer,    \* what the server answered it
  cooldown,  \* the rate limit keys of the hosts in Redis
  request,   \* where each staff request is
  edit,      \* the row it is about to save
  crashes,   \* crashes so far
  queued     \* history: per feed the entries queued: URL, version and place in the document

fetching == <<task, copy, answer>>
staff == <<request, edit>>
vars == <<row, version, batch, fetching, cooldown, staff, crashes, queued>>

-----------------------------------------------------------------------------
(* Rows and messages *)

Versions == 0..MaxVersion   \* 0: no validator

Unseen == [h \in Validators |-> 0]

\* seen: the columns etag and last_modified.
Rows ==
  [stored : BOOLEAN, url : Urls, seen : [Validators -> Versions], interval : Intervals,
   nextIn : 0..Longest, errors : 0..MaxErrors, paused : 0..Pause,
   active : BOOLEAN, deleted : BOOLEAN]

\* The columns a new feed starts with; it is due at once.
NewFeed(u, i) ==
  [stored |-> TRUE, url |-> u, seen |-> Unseen, interval |-> i, nextIn |-> 0,
   errors |-> 0, paused |-> 0, active |-> TRUE, deleted |-> FALSE]

NoRow == [NewFeed(CHOOSE u \in Urls : TRUE, CHOOSE i \in Intervals : TRUE) EXCEPT !.stored = FALSE]

Holder(u) == {f \in Feeds : row[f].stored /\ row[f].url = u}

Live(f) == row[f].stored /\ ~row[f].deleted /\ row[f].active

Message(at, f, ttl) == [at |-> at, feed |-> f, ttl |-> ttl, ran |-> 0]

Idle == Message("idle", NoFeed, 0)

NoEdit == [id |-> NoFeed, row |-> NoRow]

\* sent: how many of its entries have been queued.
NoAnswer == [url |-> NoUrl, moved |-> NoUrl, ver |-> 0, seen |-> Unseen, sent |-> 0]

Init ==
  /\ row \in [Feeds -> {NoRow} \union {NewFeed(u, i) : u \in Urls, i \in Intervals}]
  /\ \A f, g \in Feeds : row[f].stored /\ row[g].stored /\ f # g => row[f].url # row[g].url
  /\ version = [u \in Urls |-> 1]
  /\ batch = [r \in Rounds |-> [f \in Feeds |-> 0]]
  /\ task = [t \in Tasks |-> Idle]
  /\ copy = [t \in Tasks |-> NoRow]
  /\ answer = [t \in Tasks |-> NoAnswer]
  /\ cooldown = [h \in Hosts |-> 0]
  /\ request = [q \in Requests |-> "idle"]
  /\ edit = [q \in Requests |-> NoEdit]
  /\ crashes = 0
  /\ queued = [f \in Feeds |-> {}]

-----------------------------------------------------------------------------
(* The scheduler *)

\* Mutant: a feed with too many errors is left out for good.
Due_NotFailing(f) ==
  Live(f) /\ row[f].nextIn = 0 /\ row[f].paused = 0 /\ row[f].errors < MaxErrors

\* _DUE_SQL
Due(f) == Live(f) /\ row[f].nextIn = 0 /\ row[f].paused = 0

\* The transaction: the due feeds move to the end of their next interval.  There are fewer
\* of them than the limit of 200; those whose row another transaction has locked are skipped.
EnqueueDue(r) ==
  /\ \A f \in Feeds : batch[r][f] = 0
  /\ \E due \in SUBSET {f \in Feeds : Due(f)} :
       /\ due # {}
       /\ row' = [f \in Feeds |->
                    IF f \in due THEN [row[f] EXCEPT !.nextIn = row[f].interval] ELSE row[f]]
       /\ batch' = [batch EXCEPT ![r] =
                      [f \in Feeds |-> IF f \in due THEN row[f].interval ELSE 0]]
  /\ UNCHANGED <<version, fetching, cooldown, staff, crashes, queued>>

\* After the commit, one apply_async per feed, with expires = interval.
Queue(r, f, t) ==
  /\ batch[r][f] > 0
  /\ task[t].at = "idle"
  /\ task' = [task EXCEPT ![t] = Message("queued", f, batch[r][f])]
  /\ batch' = [batch EXCEPT ![r][f] = 0]
  /\ UNCHANGED <<row, version, copy, answer, cooldown, staff, crashes, queued>>

\* The round fails after the commit: what it has not queued waits for the next interval.
LoseRound(r) ==
  /\ \E f \in Feeds : batch[r][f] > 0
  /\ crashes < MaxCrashes
  /\ crashes' = crashes + 1
  /\ batch' = [batch EXCEPT ![r] = [f \in Feeds |-> 0]]
  /\ UNCHANGED <<row, version, fetching, cooldown, staff, queued>>

-----------------------------------------------------------------------------
(* fetch_feed *)

Goto(t, at) == task' = [task EXCEPT ![t].at = at]

\* The task is over; its slot can carry another message.
Finish(t) ==
  /\ task' = [task EXCEPT ![t] = Idle]
  /\ copy' = [copy EXCEPT ![t] = NoRow]
  /\ answer' = [answer EXCEPT ![t] = NoAnswer]

\* A worker takes the message and loads the feed.  Celery drops an expired message; a
\* deleted or inactive feed is gone.
Load(t) ==
  LET f == task[t].feed IN
  /\ task[t].at = "queued"
  /\ IF task[t].ttl > 0 /\ Live(f)
     THEN /\ Goto(t, "robots")
          /\ copy' = [copy EXCEPT ![t] = [row[f] EXCEPT !.nextIn = 0]]
          /\ UNCHANGED answer
     ELSE Finish(t)
  /\ UNCHANGED <<row, version, batch, cooldown, staff, crashes, queued>>

\* is_allowed: what robots.txt says is up to the site.  A blocked feed records only its
\* status, and is tried again at the end of the interval.
CheckRobots(t) ==
  /\ task[t].at = "robots"
  /\ \/ Goto(t, "acquire") /\ UNCHANGED <<copy, answer>>
     \/ Finish(t)
  /\ UNCHANGED <<row, version, batch, cooldown, staff, crashes, queued>>

\* SET NX EX
Free(h) == cooldown[h] = 0

\* try_acquire, or a new attempt after one to two gaps.
Acquire(t) ==
  LET f == task[t].feed
      h == HostOf[copy[t].url] IN
  /\ task[t].at = "acquire"
  /\ \/ /\ Free(h)
        /\ cooldown' = [cooldown EXCEPT ![h] = MinGap]
        /\ Goto(t, "request")
        /\ UNCHANGED <<row, copy, answer>>
     \/ /\ ~Free(h)
        /\ \E delay \in MinGap..(2 * MinGap) : row' = [row EXCEPT ![f].nextIn = delay]
        /\ Finish(t)
        /\ UNCHANGED cooldown
  /\ UNCHANGED <<version, batch, staff, crashes, queued>>

\* One of the validators sent matches what the server has now.
Matches(t, u) == \E h \in Validators : copy[t].seen[h] = version[u]

\* fetch() and the parsing of its body: any failure, a 304, or a document, which comes with
\* all validators, with some or with none.  A permanent redirect may be announced or not.
Request(t) ==
  /\ task[t].at = "request"
  /\ \/ /\ Goto(t, "failed")
        /\ UNCHANGED answer
     \/ \E u \in {copy[t].url, MovedTo[copy[t].url]}, with \in SUBSET Validators :
          LET moved == IF u = copy[t].url THEN NoUrl ELSE u
              seen == [h \in Validators |-> IF h \in with THEN version[u] ELSE 0]
          IN /\ \/ Matches(t, u) /\ with = {} /\ Goto(t, "not_modified")
                \/ Goto(t, "ok")
             /\ answer' = [answer EXCEPT ![t] =
                  [url |-> u, moved |-> moved, ver |-> version[u], seen |-> seen, sent |-> 0]]
  /\ UNCHANGED <<row, version, batch, copy, cooldown, staff, crashes, queued>>

\* entries[: MAX_ENTRIES_PER_FETCH]
Taken(v) == Min({SizeOf[v], MaxEntries})

\* Mutant: an error of the broker is swallowed and the fetch goes on.
QueueEntries_Swallowed(t) ==
  /\ task[t].at = "ok"
  /\ Goto(t, "follow_ok")
  /\ UNCHANGED <<row, version, batch, copy, answer, cooldown, staff, crashes, queued>>

\* One process_article message per entry taken, in their order, and on after the last.
QueueEntries(t) ==
  LET a == answer[t] IN
  /\ task[t].at = "ok"
  /\ \/ /\ a.sent < Taken(a.ver)
        /\ queued' = [queued EXCEPT ![task[t].feed] = @ \union {<<a.url, a.ver, a.sent + 1>>}]
        /\ answer' = [answer EXCEPT ![t].sent = a.sent + 1]
        /\ UNCHANGED task
     \/ /\ a.sent = Taken(a.ver)
        /\ Goto(t, "follow_ok")
        /\ UNCHANGED <<answer, queued>>
  /\ UNCHANGED <<row, version, batch, copy, cooldown, staff, crashes>>

\* _follow_permanent_redirect: not to a URL some feed, deleted ones included, has already.
Follow(t) ==
  /\ task[t].at \in {"follow_ok", "not_modified"}
  /\ answer' = [answer EXCEPT ![t].moved = IF Holder(@) = {} THEN @ ELSE NoUrl]
  /\ Goto(t, IF task[t].at = "follow_ok" THEN "save_ok" ELSE "save_not_modified")
  /\ UNCHANGED <<row, version, batch, copy, cooldown, staff, crashes, queued>>

\* _save: the unique index on url refuses the move if another feed has got there first;
\* then the other columns are saved alone.
NewUrl(t, f) ==
  IF answer[t].moved # NoUrl /\ Holder(answer[t].moved) \subseteq {f}
  THEN answer[t].moved ELSE row[f].url

\* A header the answer did not have leaves the validator that was loaded.
SavedSeen(t, f) ==
  IF task[t].at = "save_not_modified" THEN row[f].seen
  ELSE [h \in Validators |-> IF answer[t].seen[h] # 0 THEN answer[t].seen[h] ELSE copy[t].seen[h]]

\* Mutant: feed.save() without update_fields.
Save_WholeRow(t) ==
  LET f == task[t].feed IN
  /\ task[t].at \in {"save_ok", "save_not_modified"}
  /\ row' = [row EXCEPT ![f] =
               [copy[t] EXCEPT !.url = NewUrl(t, f), !.seen = SavedSeen(t, f),
                               !.errors = 0, !.paused = 0]]
  /\ Finish(t)
  /\ UNCHANGED <<version, batch, cooldown, staff, crashes, queued>>

\* The end of a fetch that brought a document or a 304.
Save(t) ==
  LET f == task[t].feed IN
  /\ task[t].at \in {"save_ok", "save_not_modified"}
  /\ row' = [row EXCEPT ![f] =
               [@ EXCEPT !.url = NewUrl(t, f), !.seen = SavedSeen(t, f),
                         !.errors = 0, !.paused = 0]]
  /\ Finish(t)
  /\ UNCHANGED <<version, batch, cooldown, staff, crashes, queued>>

\* Counting stops at the value from which on nothing changes.
Count(n) == Min({n + 1, MaxErrors})

\* Mutant: the delay is not capped.
NextAttempt_Uncapped(base, errors) ==
  LET delay == base * 2^errors IN (delay \div 2)..((3 * delay) \div 2)

\* next_attempt_at: base * 2^errors with a jitter of 0.5 to 1.5, at most a pause or one base.
NextAttempt(base, errors) ==
  LET delay == base * 2^errors
      cap == Max({base, Pause})
  IN {Min({d, cap}) : d \in (delay \div 2)..((3 * delay) \div 2)}

\* should_disable; otherwise disabled_until is saved as it was loaded.
PausedFor(t, errors) == IF errors >= MaxErrors THEN Pause ELSE copy[t].paused

\* _record_failure
RecordFailure(t) ==
  LET f == task[t].feed
      errors == Count(copy[t].errors) IN
  /\ task[t].at = "failed"
  /\ \E delay \in NextAttempt(copy[t].interval, errors) :
       row' = [row EXCEPT ![f] =
                 [@ EXCEPT !.errors = errors, !.nextIn = delay, !.paused = PausedFor(t, errors)]]
  /\ Finish(t)
  /\ UNCHANGED <<version, batch, cooldown, staff, crashes, queued>>

Running(t) == task[t].at \notin {"idle", "queued"}

\* An exception, the soft or hard time limit or the loss of the pool process: nothing is saved.
Fail(t) ==
  /\ Running(t)
  /\ Finish(t)
  /\ UNCHANGED <<row, version, batch, cooldown, staff, crashes, queued>>

\* The host is lost before the acknowledgement: the broker hands the message out again.
Crash(t) ==
  /\ Running(t)
  /\ crashes < MaxCrashes
  /\ crashes' = crashes + 1
  /\ task' = [task EXCEPT ![t] = Message("queued", @.feed, @.ttl)]
  /\ copy' = [copy EXCEPT ![t] = NoRow]
  /\ answer' = [answer EXCEPT ![t] = NoAnswer]
  /\ UNCHANGED <<row, version, batch, cooldown, staff, queued>>

-----------------------------------------------------------------------------
(* Staff requests *)

Reset(r) == [r EXCEPT !.seen = Unseen, !.errors = 0, !.paused = 0, !.nextIn = 0]

Answered(q) ==
  /\ request' = [request EXCEPT ![q] = "answered"]
  /\ edit' = [edit EXCEPT ![q] = NoEdit]

\* POST /feeds/: a live feed has the URL already, a deleted one is to be restored, or
\* there is none.
FindUrl(q) ==
  /\ request[q] = "idle"
  /\ \E u \in Urls, i \in Intervals, a \in BOOLEAN :
       \/ /\ \E f \in Holder(u) : ~row[f].deleted
          /\ Answered(q)
       \/ \E f \in Holder(u) :
            /\ row[f].deleted
            /\ request' = [request EXCEPT ![q] = "save"]
            /\ edit' = [edit EXCEPT ![q] =
                 [id |-> f, row |-> [Reset(row[f]) EXCEPT !.interval = i, !.active = a,
                                                         !.deleted = FALSE]]]
       \/ /\ Holder(u) = {}
          /\ request' = [request EXCEPT ![q] = "insert"]
          /\ edit' = [edit EXCEPT ![q] = [id |-> NoFeed, row |-> [NewFeed(u, i) EXCEPT !.active = a]]]
  /\ UNCHANGED <<row, version, batch, fetching, cooldown, crashes, queued>>

\* The INSERT of a new feed; the unique index refuses a URL added meanwhile.
Insert(q) ==
  /\ request[q] = "insert"
  /\ IF Holder(edit[q].row.url) = {}
     THEN \E f \in Feeds : ~row[f].stored /\ row' = [row EXCEPT ![f] = edit[q].row]
     ELSE UNCHANGED row
  /\ Answered(q)
  /\ UNCHANGED <<version, batch, fetching, cooldown, crashes, queued>>

\* PATCH /feeds/{id}/: get_object, then the new values; a new URL resets the crawl state.
PatchLoad(q) ==
  /\ request[q] = "idle"
  /\ \E f \in Feeds :
       /\ row[f].stored /\ ~row[f].deleted
       /\ \E u \in NewUrls \union {row[f].url}, i \in Intervals, a \in BOOLEAN :
            LET old == IF u = row[f].url THEN row[f] ELSE Reset(row[f])
            IN edit' = [edit EXCEPT ![q] =
                 [id |-> f, row |-> [old EXCEPT !.url = u, !.interval = i, !.active = a]]]
  /\ request' = [request EXCEPT ![q] = "save"]
  /\ UNCHANGED <<row, version, batch, fetching, cooldown, crashes, queued>>

\* The save() of a PATCH or a restored feed writes every column, unless the URL is taken.
SaveRow(q) ==
  LET f == edit[q].id IN
  /\ request[q] = "save"
  /\ row' = IF Holder(edit[q].row.url) \subseteq {f}
            THEN [row EXCEPT ![f] = edit[q].row] ELSE row
  /\ Answered(q)
  /\ UNCHANGED <<version, batch, fetching, cooldown, crashes, queued>>

\* POST /feeds/{id}/refresh/ and DELETE /feeds/{id}/ write only the columns they set.
Refresh(q, f) ==
  /\ request[q] = "idle"
  /\ row[f].stored /\ ~row[f].deleted
  /\ row' = [row EXCEPT ![f] = [@ EXCEPT !.nextIn = 0, !.paused = 0]]
  /\ Answered(q)
  /\ UNCHANGED <<version, batch, fetching, cooldown, crashes, queued>>

Destroy(q, f) ==
  /\ request[q] = "idle"
  /\ row[f].stored /\ ~row[f].deleted
  /\ row' = [row EXCEPT ![f] = [@ EXCEPT !.deleted = TRUE, !.active = FALSE]]
  /\ Answered(q)
  /\ UNCHANGED <<version, batch, fetching, cooldown, crashes, queued>>

-----------------------------------------------------------------------------
(* The environment *)

\* A site publishes a new version of its document.
Publish(u) ==
  /\ version[u] < MaxVersion
  /\ version' = [version EXCEPT ![u] = @ + 1]
  /\ UNCHANGED <<row, batch, fetching, cooldown, staff, crashes, queued>>

Down(n) == Max({n - 1, 0})

Older(r) == [r EXCEPT !.nextIn = Down(@), !.paused = Down(@)]

\* The hard limit kills a task before it runs longer.
WithinLimit(t) == Running(t) => task[t].ran < TimeLimit

\* One unit of time passes, for the times in the copies too.
Tick ==
  /\ \A t \in Tasks : WithinLimit(t)
  /\ row' = [f \in Feeds |-> Older(row[f])]
  /\ task' = [t \in Tasks |-> [task[t] EXCEPT !.ttl = Down(@),
                                             !.ran = IF Running(t) THEN @ + 1 ELSE @]]
  /\ copy' = [t \in Tasks |-> Older(copy[t])]
  /\ cooldown' = [h \in Hosts |-> Down(cooldown[h])]
  /\ edit' = [q \in Requests |-> [edit[q] EXCEPT !.row = Older(@)]]
  /\ UNCHANGED <<version, batch, answer, request, crashes, queued>>

FetchStep(t) ==
  \/ Load(t) \/ CheckRobots(t) \/ Acquire(t) \/ Request(t) \/ QueueEntries(t)
  \/ Follow(t) \/ Save(t) \/ RecordFailure(t)

StaffStep(q) ==
  \/ FindUrl(q) \/ Insert(q) \/ PatchLoad(q) \/ SaveRow(q)
  \/ \E f \in Feeds : Refresh(q, f) \/ Destroy(q, f)

Next ==
  \/ \E r \in Rounds : EnqueueDue(r) \/ LoseRound(r)
                       \/ \E f \in Feeds, t \in Tasks : Queue(r, f, t)
  \/ \E t \in Tasks : FetchStep(t) \/ Fail(t) \/ Crash(t)
  \/ \E q \in Requests : StaffStep(q)
  \/ \E u \in Urls : Publish(u)
  \/ Tick

Spec == Init /\ [][Next]_vars

\* Beat starts rounds for ever, workers take the next message and go on with the tasks they
\* run, and time passes.
Fairness ==
  /\ \A r \in Rounds : WF_vars(EnqueueDue(r))
  /\ \A r \in Rounds, f \in Feeds : WF_vars(\E t \in Tasks : Queue(r, f, t))
  /\ \A t \in Tasks : WF_vars(FetchStep(t))
  /\ WF_vars(Tick)

FairSpec == Spec /\ Fairness

-----------------------------------------------------------------------------
(* Properties *)

States == {"idle", "queued", "robots", "acquire", "request", "failed", "not_modified", "ok",
           "follow_ok", "save_ok", "save_not_modified"}

\* Every column stays in its range: a feed waits at most a pause or one interval
\* (next_attempt_at caps the delay), whatever is added up on the way.
TypeOK ==
  /\ row \in [Feeds -> Rows]
  /\ version \in [Urls -> 1..MaxVersion]
  /\ batch \in [Rounds -> [Feeds -> Intervals \union {0}]]
  /\ task \in [Tasks -> [at : States, feed : Feeds \union {NoFeed}, ttl : 0..Longest,
                         ran : 0..TimeLimit]]
  /\ copy \in [Tasks -> Rows]
  /\ answer \in [Tasks -> [url : Urls \union {NoUrl}, moved : Urls \union {NoUrl},
                           ver : Versions, seen : [Validators -> Versions],
                           sent : 0..MaxEntries]]
  /\ cooldown \in [Hosts -> 0..MinGap]
  /\ request \in [Requests -> {"idle", "insert", "save", "answered"}]
  /\ edit \in [Requests -> [id : Feeds \union {NoFeed}, row : Rows]]
  /\ crashes \in 0..MaxCrashes
  /\ queued \in [Feeds -> SUBSET (Urls \X Versions \X (1..MaxEntries))]

\* The entries that a fetch takes from version v at URL u have all been queued for f.
Queued(f, u, v) == \A k \in 1..Taken(v) : <<u, v, k>> \in queued[f]

\* A stored validator is of a document whose entries, up to MAX_ENTRIES_PER_FETCH, have all
\* been queued for the feed: fetch_feed never learns one, also not from the copy of a row
\* that was edited meanwhile, before apply_async has accepted the last entry.  Otherwise the
\* site answers 304 to the next fetch and the entries are never queued.
ValidatorIsQueued ==
  \A f \in Feeds, h \in Validators :
    row[f].stored /\ row[f].seen[h] # 0 => \E u \in Urls : Queued(f, u, row[f].seen[h])

\* reset_crawl_state: "Forget what was learned about the old URL".  A stored validator is of
\* a document at the URL the feed has now.
ValidatorIsOfUrl ==
  \A f \in Feeds, h \in Validators :
    row[f].stored /\ row[f].seen[h] # 0 => Queued(f, row[f].url, row[f].seen[h])

\* What staff decides (is_active, is_deleted, interval_seconds) is changed by requests alone:
\* a fetch_feed that loaded the feed before a DELETE or PATCH does not undo it.
StaffDecides ==
  [][\A f \in Feeds :
       \/ /\ row'[f].active = row[f].active
          /\ row'[f].deleted = row[f].deleted
          /\ row'[f].interval = row[f].interval
       \/ \E q \in Requests : request[q] # "answered" /\ request'[q] = "answered"]_vars

\* A feed that stays live is queued again and again: no pause, failure, rate limit, lost
\* round or stale save leaves it out of _DUE_SQL for ever.
KeepsBeingQueued ==
  \A f \in Feeds : <>[]Live(f) => []<>(\E t \in Tasks : task[t].at = "queued" /\ task[t].feed = f)
====
