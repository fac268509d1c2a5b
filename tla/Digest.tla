------------------------------- MODULE Digest -------------------------------
(***************************************************************************)
(* The windows of daily_digest (tasks/digest.py): a daily subscription is  *)
(* sent every article stored since its last digest.  last_notified_at is   *)
(* the lower end of the next window; deliver also writes it, for instant   *)
(* subscriptions, and so does every PATCH, which saves the whole row it    *)
(* loaded.                                                                 *)
(*                                                                         *)
(* All articles match all subscriptions.  A time is the number of times    *)
(* the clock was read before: no two statements read the same.             *)
(***************************************************************************)
EXTENDS Integers, FiniteSets

CONSTANTS
  Subs,       \* subscriptions
  Arts,       \* articles
  Runs,       \* daily_digest messages
  Requests,   \* PATCH requests of owners
  Null,       \* last_notified_at IS NULL
  Day,        \* 24 hours: the first window
  Limit,      \* MAX_ARTICLES_PER_DIGEST
  MaxTime,    \* bound: how often the clock is read
  MaxCrashes  \* bound: how many crashes of a worker host happen

ASSUME DigestAssumption ==
  /\ Null \notin Int
  /\ Day \in Nat
  /\ Limit \in Nat
  /\ MaxTime \in Nat
  /\ MaxCrashes \in Nat

Pairs == Subs \X Arts

Times == 0..MaxTime

VARIABLES
  clock,     \* now() of the database and of the workers
  created,   \* created_at of the articles, 0 before the INSERT
  visible,   \* articles whose INSERT has committed
  fanned,    \* articles fanout_instant has run for
  state,     \* of a subscription: active, paused or deleted
  interval,  \* instant or daily
  last,      \* last_notified_at
  reporting, \* subscriptions for which a deliver that read "instant" has sent
  run,       \* where each digest is: pc, now, the loaded rows, the batch
  patch,     \* the row each PATCH request has loaded
  crashes,   \* worker hosts lost so far
  queued,    \* history: pairs a deliver message was queued for
  cut,       \* history: pairs left out because a digest was full
  late,      \* history: pairs left out because the article had not committed yet
  origin     \* history: since when a subscription has been daily without a break

articles == <<created, visible, fanned>>
subRows == <<state, interval, last>>
history == <<queued, cut, late, origin>>
vars == <<clock, articles, subRows, reporting, run, patch, crashes, history>>

LastValues == Times \union {Null}

Idle == [pc |-> "idle", now |-> 0, loaded |-> [s \in Subs |-> Null],
         todo |-> {}, sub |-> Null, since |-> 0, batch |-> {}]

RunStates ==
  [pc : {"idle", "queued", "loading", "matching", "sending", "done", "failed"},
   now : Times, loaded : [Subs -> LastValues], todo : SUBSET Subs,
   sub : Subs \union {Null}, since : -Day..MaxTime, batch : SUBSET Arts]

NoPatch == [pc |-> "idle", sub |-> Null, state |-> "active", interval |-> "instant", last |-> Null]

PatchStates ==
  [pc : {"idle", "loaded", "done"}, sub : Subs \union {Null}, state : {"active", "paused"},
   interval : {"instant", "daily"}, last : LastValues]

\* Subscriptions, digests and requests stay in their ranges, and fanout_instant
\* runs only for articles that have committed.
TypeOK ==
  /\ clock \in Times
  /\ created \in [Arts -> Times]
  /\ visible \in SUBSET Arts
  /\ fanned \in SUBSET visible
  /\ state \in [Subs -> {"active", "paused", "deleted"}]
  /\ interval \in [Subs -> {"instant", "daily"}]
  /\ last \in [Subs -> LastValues]
  /\ reporting \in SUBSET Subs
  /\ run \in [Runs -> RunStates]
  /\ patch \in [Requests -> PatchStates]
  /\ crashes \in 0..MaxCrashes
  /\ queued \in SUBSET Pairs
  /\ cut \in SUBSET Pairs
  /\ late \in SUBSET Pairs
  /\ origin \in [Subs -> -Day..MaxTime]

Init ==
  /\ clock = 0
  /\ created = [a \in Arts |-> 0]
  /\ visible = {}
  /\ fanned = {}
  /\ state = [s \in Subs |-> "active"]
  /\ interval \in [Subs -> {"instant", "daily"}]
  /\ last = [s \in Subs |-> Null]
  /\ reporting = {}
  /\ run = [d \in Runs |-> Idle]
  /\ patch = [r \in Requests |-> NoPatch]
  /\ crashes = 0
  /\ queued = {}
  /\ cut = {}
  /\ late = {}
  /\ origin = [s \in Subs |-> -Day]

\* Reading the clock.
ReadClock == clock < MaxTime /\ clock' = clock + 1

(***************************************************************************)
(* Articles, and their fan-out to instant subscriptions.                   *)
(***************************************************************************)
\* The INSERT of upsert_article stamps created_at with now(), the start of its
\* transaction, and is seen by others once it has committed.
Store(a) ==
  /\ created[a] = 0
  /\ ReadClock
  /\ created' = [created EXCEPT ![a] = clock']
  /\ UNCHANGED <<visible, fanned, subRows, reporting, run, patch, crashes, history>>

Commit(a) ==
  /\ created[a] > 0
  /\ a \notin visible
  /\ visible' = visible \union {a}
  /\ UNCHANGED <<clock, created, fanned, subRows, reporting, run, patch, crashes, history>>

\* Mutant: the chain is published inside the transaction of the INSERT.
Fanout_BeforeCommit(a) ==
  /\ created[a] > 0 /\ a \notin fanned
  /\ fanned' = fanned \union {a}
  /\ queued' = queued \union {p \in Pairs : /\ p[2] = a
                                            /\ state[p[1]] = "active"
                                            /\ interval[p[1]] = "instant"}
  /\ UNCHANGED <<clock, created, visible, subRows, reporting, run, patch, crashes, cut, late, origin>>

\* fanout_instant, which follows the article through the chain.
Fanout(a) ==
  /\ a \in visible \ fanned
  /\ fanned' = fanned \union {a}
  /\ queued' = queued \union {p \in Pairs : /\ p[2] = a
                                            /\ state[p[1]] = "active"
                                            /\ interval[p[1]] = "instant"}
  /\ UNCHANGED <<clock, created, visible, subRows, reporting, run, patch, crashes, cut, late, origin>>

\* A deliver that loaded the subscription as instant has been answered.
Sent(s) ==
  /\ interval[s] = "instant"
  /\ \E a \in Arts : <<s, a>> \in queued
  /\ reporting' = reporting \union {s}
  /\ UNCHANGED <<clock, articles, subRows, run, patch, crashes, history>>

\* The filter of that update.
ReportsTo(s) == state[s] # "deleted" /\ interval[s] = "instant"

\* The end of deliver: last_notified_at of an instant subscription.
Report(s) ==
  /\ s \in reporting
  /\ ReadClock
  /\ reporting' = reporting \ {s}
  /\ last' = IF ReportsTo(s) THEN [last EXCEPT ![s] = clock'] ELSE last
  /\ UNCHANGED <<articles, state, interval, run, patch, crashes, history>>

(***************************************************************************)
(* daily_digest.                                                           *)
(***************************************************************************)
Become(d, r) == run' = [run EXCEPT ![d] = r]

\* Beat queues the task.
Beat(d) ==
  /\ run[d].pc = "idle"
  /\ Become(d, [Idle EXCEPT !.pc = "queued"])
  /\ UNCHANGED <<clock, articles, subRows, reporting, patch, crashes, history>>

\* _db_now
Start(d) ==
  /\ run[d].pc = "queued"
  /\ ReadClock
  /\ Become(d, [Idle EXCEPT !.pc = "loading", !.now = clock'])
  /\ UNCHANGED <<articles, subRows, reporting, patch, crashes, history>>

\* The query of the loop runs once; each row is as old as this when its turn comes.
LoadSubs(d) ==
  /\ run[d].pc = "loading"
  /\ Become(d, [run[d] EXCEPT
                  !.pc = "matching", !.loaded = last,
                  !.todo = {s \in Subs : state[s] = "active" /\ interval[s] = "daily"}])
  /\ UNCHANGED <<clock, articles, subRows, reporting, patch, crashes, history>>

Since(d, s) == IF run[d].loaded[s] = Null THEN run[d].now - Day ELSE run[d].loaded[s]

\* The articles of the window of s, committed or not.
Window(d, s) == {a \in Arts : Since(d, s) < created[a] /\ 0 < created[a] /\ created[a] <= run[d].now}

\* _MATCH_SQL sees what has committed and keeps at most Limit articles.
Match(d) ==
  /\ run[d].pc = "matching"
  /\ \E s \in run[d].todo :
       LET seen == Window(d, s) \intersect visible
       IN \E batch \in SUBSET seen :
            /\ \/ batch = seen /\ Cardinality(seen) <= Limit
               \/ Cardinality(batch) = Limit
            /\ Become(d, [run[d] EXCEPT !.pc = "sending", !.sub = s,
                                        !.since = Since(d, s), !.batch = batch])
            /\ cut' = cut \union ({s} \X (seen \ batch))
            /\ late' = late \union ({s} \X (Window(d, s) \ visible))
  /\ UNCHANGED <<clock, articles, subRows, reporting, patch, crashes, queued, origin>>

\* deliver.apply_async, once per article.
QueueOne(d) ==
  /\ run[d].pc = "sending"
  /\ \E a \in run[d].batch :
       /\ queued' = queued \union {<<run[d].sub, a>>}
       /\ Become(d, [run[d] EXCEPT !.batch = @ \ {a}])
  /\ UNCHANGED <<clock, articles, subRows, reporting, patch, crashes, cut, late, origin>>

\* Mutant: the window ends when it is saved, not when the digest started.
WindowEnd_AtSave(d) == clock

WindowEnd(d) == run[d].now

\* sub.save(update_fields=["last_notified_at"]).  A row that is gone makes the
\* save raise, which ends the digest for the subscriptions still to come.
Save(d) ==
  LET s == run[d].sub
  IN /\ run[d].pc = "sending"
     /\ run[d].batch = {}
     /\ \/ /\ state[s] # "deleted"
           /\ last' = [last EXCEPT ![s] = WindowEnd(d)]
           /\ origin' = [origin EXCEPT ![s] =
                           IF run[d].loaded[s] = Null /\ run[d].since > @
                           THEN run[d].since ELSE @]
           /\ Become(d, [run[d] EXCEPT !.pc = "matching", !.todo = @ \ {s}, !.sub = Null,
                                       !.since = 0])
        \/ /\ state[s] = "deleted"
           /\ Become(d, [Idle EXCEPT !.pc = "failed"])
           /\ UNCHANGED <<last, origin>>
     /\ UNCHANGED <<clock, articles, state, interval, reporting, patch, crashes, queued, cut, late>>

Finish(d) ==
  /\ run[d].pc = "matching"
  /\ run[d].todo = {}
  /\ Become(d, [Idle EXCEPT !.pc = "done"])
  /\ UNCHANGED <<clock, articles, subRows, reporting, patch, crashes, history>>

Running(d) == run[d].pc \in {"loading", "matching", "sending"}

\* A broker or database error, or a time limit: no retry, the message is
\* acknowledged.
Fail(d) ==
  /\ Running(d)
  /\ Become(d, [Idle EXCEPT !.pc = "failed"])
  /\ UNCHANGED <<clock, articles, subRows, reporting, patch, crashes, history>>

\* The worker host is lost: the message is delivered again, from the start.
Crash(d) ==
  /\ crashes < MaxCrashes
  /\ Running(d)
  /\ crashes' = crashes + 1
  /\ Become(d, [Idle EXCEPT !.pc = "queued"])
  /\ UNCHANGED <<clock, articles, subRows, reporting, patch, history>>

(***************************************************************************)
(* The owner.                                                              *)
(***************************************************************************)
\* PATCH loads the row (get_object) ...
PatchLoad(r) ==
  /\ patch[r].pc = "idle"
  /\ \E s \in Subs :
       /\ state[s] # "deleted"
       /\ patch' = [patch EXCEPT ![r] = [pc |-> "loaded", sub |-> s, state |-> state[s],
                                         interval |-> interval[s], last |-> last[s]]]
  /\ UNCHANGED <<clock, articles, subRows, reporting, run, crashes, history>>

\* ... and saves all of it with the new is_active and interval.  A row deleted in
\* the meantime is inserted again.  A subscription that turns daily is owed what
\* is stored from its last_notified_at on.
PatchSave(r) ==
  LET s == patch[r].sub
      old == patch[r].last
  IN /\ patch[r].pc = "loaded"
     /\ \E newState \in {"active", "paused"}, newInterval \in {"instant", "daily"} :
          /\ state' = [state EXCEPT ![s] = newState]
          /\ interval' = [interval EXCEPT ![s] = newInterval]
          /\ last' = [last EXCEPT ![s] = old]
     /\ origin' = [origin EXCEPT ![s] =
                     IF patch[r].interval = "instant" /\ old # Null
                     THEN IF old > @ THEN old ELSE @
                     ELSE @]
     /\ patch' = [patch EXCEPT ![r] = [NoPatch EXCEPT !.pc = "done"]]
     /\ UNCHANGED <<clock, articles, reporting, run, crashes, queued, cut, late>>

\* DELETE
Delete(s) ==
  /\ state[s] # "deleted"
  /\ state' = [state EXCEPT ![s] = "deleted"]
  /\ UNCHANGED <<clock, articles, interval, last, reporting, run, patch, crashes, history>>

Next ==
  \/ \E a \in Arts : Store(a) \/ Commit(a) \/ Fanout(a)
  \/ \E s \in Subs : Sent(s) \/ Report(s) \/ Delete(s)
  \/ \E d \in Runs : \/ Beat(d) \/ Start(d) \/ LoadSubs(d) \/ Match(d) \/ QueueOne(d)
                     \/ Save(d) \/ Finish(d) \/ Fail(d) \/ Crash(d)
  \/ \E r \in Requests : PatchLoad(r) \/ PatchSave(r)

Spec == Init /\ [][Next]_vars

(***************************************************************************)
(* Properties.                                                             *)
(***************************************************************************)
\* The window of s has passed over article a.
Passed(s, a) ==
  /\ a \in visible
  /\ state[s] # "deleted"
  /\ interval[s] = "daily"
  /\ last[s] # Null
  /\ origin[s] < created[a]
  /\ created[a] <= last[s]

\* Whatever the window of a daily subscription has passed over was queued for it,
\* unless it was cut from a full digest or its INSERT committed after the digest
\* looked: also after digests that overlap, fail half way or are redelivered,
\* after a deliver of the time when the subscription was instant, and after a
\* PATCH that wrote back an old row.
MissedOnlyIfLate ==
  \A s \in Subs, a \in Arts : Passed(s, a) => <<s, a>> \in queued \union cut \union late

\* The comment at _db_now: "an article stored while this run is going belongs to
\* the next digest, not to neither".
NotNeither ==
  \A s \in Subs, a \in Arts : Passed(s, a) => <<s, a>> \in queued \union cut
=============================================================================
