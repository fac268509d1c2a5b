------------------------------ MODULE Delivery ------------------------------
(***************************************************************************)
(* The deliver task (tasks/notifications.py): sending an article to the    *)
(* target of a subscription, at least once, under a lease per pair.        *)
(*                                                                         *)
(* A pair is a (subscription, article).  Its DeliveryLog row is log[pair]; *)
(* any number of deliver messages may be queued for one pair (fan-out,     *)
(* digest, a retry, a redelivery after a crash), and their workers         *)
(* interleave between any two database statements.                         *)
(*                                                                         *)
(* Times are relative to the present: left is leased_until minus the       *)
(* present, wait is the countdown a retry still waits for, ran the time    *)
(* since a worker started the task, and age the time since the worker read *)
(* its clock at the top of _claim.  Tick lets one unit of time pass.  All  *)
(* workers are taken to share one clock.                                   *)
(***************************************************************************)
EXTENDS Integers

CONSTANTS
  Subs,        \* subscriptions
  Arts,        \* articles
  Tasks,       \* deliver messages, one element per message ever queued
  PairOf,      \* the (subscription_id, article_id) a message carries
  Lease,       \* LEASE
  TimeLimit,   \* CELERY_TASK_TIME_LIMIT: a worker kills a task that ran so long
  MaxRetries,  \* max_retries
  Backoff,     \* retry_backoff: the first countdown is at most this
  BackoffCap,  \* retry_backoff_max of Celery
  MaxCrashes   \* bound: how many crashes of a worker host happen

Pairs == Subs \X Arts

ASSUME DeliveryAssumption ==
  /\ PairOf \in [Tasks -> Pairs]
  /\ Lease \in Nat \ {0}
  /\ TimeLimit \in Nat \ {0}
  /\ MaxRetries \in Nat
  /\ Backoff \in Nat
  /\ BackoffCap \in Nat
  /\ MaxCrashes \in Nat

VARIABLES
  sub,        \* Subscription rows: active, paused (is_active = false) or deleted
  visible,    \* articles that are not soft-deleted and whose feed is not
  log,        \* DeliveryLog rows
  pc,         \* where each message is: not queued yet, queued, at a worker, done
  result,     \* the answer to the attempt, then why the task ended
  retries,    \* request.retries of the message
  wait,       \* countdown left before a worker may take the message
  ran,        \* time since a worker took it
  age,        \* time since the worker read its clock in _claim
  crashes,    \* worker hosts lost so far
  accepted,   \* history: how often the receiver of a pair took the payload
  losses      \* history: how often it did and no success could be logged

taskVars == <<pc, result, retries, wait, ran, age>>
history == <<accepted, losses>>
vars == <<sub, visible, log, taskVars, crashes, history>>

\* What the send of one attempt came to.  "unsendable" stands for a missing
\* secret, a missing target and a URL refused by safe_http: nothing leaves.
\* "retry" is an exception of autoretry_for, "internal" any other one.
Answers == {"ok", "refused", "unsendable", "retry", "internal"}

\* Why a task ended.
Ends == {"gone", "deduped", "ok", "refused", "unsendable", "internal",
         "exhausted", "in flight", "error", "killed"}

\* leased_until IS NULL, or so long ago that no running task can have read
\* its clock before the lease ended.
NoLease == -TimeLimit

NoRow == [stored |-> FALSE, succeeded |-> FALSE, attempts |-> 0, left |-> NoLease]

RunningPcs == {"loaded", "claiming", "sending", "recording"}

LogRows == [stored : BOOLEAN, succeeded : BOOLEAN, attempts : Nat, left : NoLease..Lease]

\* The delivery log, the messages and the timers stay in their ranges: a message
\* is retried at most MaxRetries times, a task runs at most TimeLimit, and a
\* lease ends at most Lease from now.
TypeOK ==
  /\ sub \in [Subs -> {"active", "paused", "deleted"}]
  /\ visible \in [Arts -> BOOLEAN]
  /\ log \in [Pairs -> LogRows]
  /\ pc \in [Tasks -> {"idle", "queued", "done"} \union RunningPcs]
  /\ result \in [Tasks -> Answers \union Ends \union {"none"}]
  /\ retries \in [Tasks -> 0..MaxRetries]
  /\ wait \in [Tasks -> 0..BackoffCap]
  /\ ran \in [Tasks -> 0..TimeLimit]
  /\ age \in [Tasks -> 0..TimeLimit]
  /\ crashes \in 0..MaxCrashes
  /\ accepted \in [Pairs -> Nat]
  /\ losses \in [Pairs -> Nat]

Init ==
  /\ sub = [s \in Subs |-> "active"]
  /\ visible = [a \in Arts |-> TRUE]
  /\ log = [p \in Pairs |-> NoRow]
  /\ pc = [t \in Tasks |-> "idle"]
  /\ result = [t \in Tasks |-> "none"]
  /\ retries = [t \in Tasks |-> 0]
  /\ wait = [t \in Tasks |-> 0]
  /\ ran = [t \in Tasks |-> 0]
  /\ age = [t \in Tasks |-> 0]
  /\ crashes = 0
  /\ accepted = [p \in Pairs |-> 0]
  /\ losses = [p \in Pairs |-> 0]

Running(t) == pc[t] \in RunningPcs

(***************************************************************************)
(* Ways for a task to move on.                                             *)
(***************************************************************************)
\* The worker goes on to the next statement.
Goto(t, next) ==
  /\ pc' = [pc EXCEPT ![t] = next]
  /\ UNCHANGED <<result, retries, wait, ran, age>>

\* The worker is free again.
Leave(t, next) ==
  /\ pc' = [pc EXCEPT ![t] = next]
  /\ ran' = [ran EXCEPT ![t] = 0]
  /\ age' = [age EXCEPT ![t] = 0]

End(t, why) ==
  /\ Leave(t, "done")
  /\ result' = [result EXCEPT ![t] = why]
  /\ UNCHANGED <<retries, wait>>

\* The countdowns of a retry: full jitter below the doubled backoff.
Countdowns(t) == {w \in 0..BackoffCap : w <= Backoff * 2^retries[t]}

\* Mutant: one retry too many.
MayRetry_OneMore(t) == retries[t] <= MaxRetries

MayRetry(t) == retries[t] < MaxRetries

\* autoretry_for: the message is published again, until max_retries; then the
\* exception ends the task.
RetryOrGiveUp(t, why) ==
  \/ /\ MayRetry(t)
     /\ Leave(t, "queued")
     /\ \E w \in Countdowns(t) : wait' = [wait EXCEPT ![t] = w]
     /\ retries' = [retries EXCEPT ![t] = @ + 1]
     /\ UNCHANGED result
  \/ /\ ~MayRetry(t)
     /\ End(t, why)

(***************************************************************************)
(* The producers: fanout_instant and daily_digest queue a message for each *)
(* pair they match.  The match is a SELECT some statements earlier, so the *)
(* rows may have changed; a redelivered producer queues the pair again.    *)
(***************************************************************************)
Enqueue(t) ==
  /\ pc[t] = "idle"
  /\ Goto(t, "queued")
  /\ UNCHANGED <<sub, visible, log, crashes, history>>

(***************************************************************************)
(* deliver.                                                                *)
(***************************************************************************)
\* Mutant: a task of a paused subscription or a hidden article is put back.
Load_Postponed(t) ==
  /\ pc[t] = "queued"
  /\ wait[t] = 0
  /\ IF sub[PairOf[t][1]] = "active" /\ visible[PairOf[t][2]]
     THEN Goto(t, "loaded")
     ELSE /\ \E w \in Countdowns(t) : wait' = [wait EXCEPT ![t] = w]
          /\ UNCHANGED <<pc, result, retries, ran, age>>
  /\ UNCHANGED <<sub, visible, log, crashes, history>>

\* A worker starts the task and loads the subscription and the article.
Load(t) ==
  /\ pc[t] = "queued"
  /\ wait[t] = 0
  /\ IF sub[PairOf[t][1]] = "active" /\ visible[PairOf[t][2]]
     THEN Goto(t, "loaded")
     ELSE End(t, "gone")
  /\ UNCHANGED <<sub, visible, log, crashes, history>>

\* _claim reads its clock before it waits for the row lock.
ReadClock(t) ==
  /\ pc[t] = "loaded"
  /\ pc' = [pc EXCEPT ![t] = "claiming"]
  /\ age' = [age EXCEPT ![t] = 0]
  /\ UNCHANGED <<sub, visible, log, result, retries, wait, ran, crashes, history>>

\* Mutant: a claim that never looks at the lease of the row.
Leased_Unchecked(t) == FALSE

\* leased_until > now, for the now the task read.
Leased(t) == log[PairOf[t]].left > -age[t]

\* Mutant: a claim that takes the lease of a delivered pair too.
Delivered_Unchecked(p) == FALSE

Delivered(p) == log[p].succeeded

\* The transaction of _claim.  Creating the row of a subscription that is gone
\* breaks the foreign key; that exception is not retried.
Claim(t) ==
  LET p == PairOf[t]
  IN /\ pc[t] = "claiming"
     /\ \/ /\ sub[p[1]] = "deleted"
           /\ End(t, "error")
           /\ UNCHANGED log
        \/ /\ sub[p[1]] # "deleted"
           /\ Delivered(p)
           /\ End(t, "deduped")
           /\ UNCHANGED log
        \/ /\ sub[p[1]] # "deleted"
           /\ ~Delivered(p)
           /\ Leased(t)
           /\ RetryOrGiveUp(t, "in flight")
           /\ UNCHANGED log
        \/ /\ sub[p[1]] # "deleted"
           /\ ~Delivered(p)
           /\ ~Leased(t)
           /\ log' = [log EXCEPT ![p] = [stored |-> TRUE, succeeded |-> @.succeeded,
                                         attempts |-> @.attempts, left |-> Lease - age[t]]]
           /\ pc' = [pc EXCEPT ![t] = "sending"]
           /\ age' = [age EXCEPT ![t] = 0]
           /\ UNCHANGED <<result, retries, wait, ran>>
     /\ UNCHANGED <<sub, visible, crashes, history>>

\* Whether the receiver can have taken the payload of an attempt with this answer.
\* An error may hide that it did: the answer was lost on the way back.
Took(answer) ==
  CASE answer = "ok" -> {TRUE}
    [] answer \in {"refused", "unsendable"} -> {FALSE}
    [] OTHER -> BOOLEAN

\* _send_webhook or _send_email, and the exception handlers around them.
Send(t) ==
  LET p == PairOf[t]
  IN /\ pc[t] = "sending"
     /\ pc' = [pc EXCEPT ![t] = "recording"]
     /\ \E answer \in Answers : \E took \in Took(answer) :
          /\ result' = [result EXCEPT ![t] = answer]
          /\ accepted' = IF took THEN [accepted EXCEPT ![p] = @ + 1] ELSE accepted
          /\ losses' = IF took /\ answer # "ok" THEN [losses EXCEPT ![p] = @ + 1] ELSE losses
     /\ UNCHANGED <<sub, visible, log, retries, wait, ran, age, crashes>>

\* Mutant: the update of _record without its succeeded=False filter.
Recordable_Unfiltered(row) == row.stored

\* The filter of the update in _record: no row of a deleted subscription, and no
\* row of a delivered pair, matches.
Recordable(row) == row.stored /\ ~row.succeeded

\* _record and what deliver does after it.  The last_notified_at an instant
\* subscription gets is the matter of module Digest.
Record(t) ==
  LET p == PairOf[t]
      ok == result[t] = "ok"
  IN /\ pc[t] = "recording"
     /\ log' = IF Recordable(log[p])
               THEN [log EXCEPT ![p] = [stored |-> TRUE, succeeded |-> ok,
                                        attempts |-> @.attempts + 1, left |-> NoLease]]
               ELSE log
     /\ \/ result[t] = "retry" /\ RetryOrGiveUp(t, "exhausted")
        \/ result[t] # "retry" /\ End(t, result[t])
     /\ UNCHANGED <<sub, visible, crashes, history>>

(***************************************************************************)
(* Ways for a task to be cut short.                                        *)
(***************************************************************************)
\* What the histories learn when the worker of t stops where it is: a request
\* on its way may still arrive, and a success it holds is never logged.
Abandon(t) ==
  LET p == PairOf[t]
      holdsSuccess == pc[t] = "recording" /\ result[t] = "ok"
  IN \/ /\ pc[t] = "sending"
        /\ accepted' = [accepted EXCEPT ![p] = @ + 1]
        /\ losses' = [losses EXCEPT ![p] = @ + 1]
     \/ /\ holdsSuccess
        /\ losses' = [losses EXCEPT ![p] = @ + 1]
        /\ UNCHANGED accepted
     \/ /\ ~holdsSuccess
        /\ UNCHANGED history

\* A database error, or the soft time limit, outside the try block of deliver:
\* the exception is not one of autoretry_for.
Fail(t) ==
  /\ pc[t] \in {"loaded", "claiming", "recording"}
  /\ End(t, "error")
  /\ Abandon(t)
  /\ UNCHANGED <<sub, visible, log, crashes>>

\* The hard time limit, or the loss of the pool process: Celery kills the task
\* and acknowledges its message.
Kill(t) ==
  /\ Running(t)
  /\ End(t, "killed")
  /\ Abandon(t)
  /\ UNCHANGED <<sub, visible, log, crashes>>

\* The worker host is lost: the unacknowledged message is delivered again.
Crash(t) ==
  /\ crashes < MaxCrashes
  /\ Running(t)
  /\ crashes' = crashes + 1
  /\ Leave(t, "queued")
  /\ Abandon(t)
  /\ UNCHANGED <<sub, visible, log, result, retries, wait>>

(***************************************************************************)
(* Time, and the rest of the system.                                       *)
(***************************************************************************)
Countdown(n) == IF n > 0 THEN n - 1 ELSE 0

\* Mutant: no hard time limit.
WithinLimit_Unlimited(t) == TRUE

\* No task runs on past the hard time limit.
WithinLimit(t) == Running(t) => ran[t] < TimeLimit

Tick ==
  /\ \A t \in Tasks : WithinLimit(t)
  /\ wait' = [t \in Tasks |-> Countdown(wait[t])]
  /\ ran' = [t \in Tasks |-> IF Running(t) THEN ran[t] + 1 ELSE ran[t]]
  /\ age' = [t \in Tasks |-> IF pc[t] = "claiming" THEN age[t] + 1 ELSE age[t]]
  /\ log' = [p \in Pairs |->
              [stored |-> log[p].stored, succeeded |-> log[p].succeeded,
               attempts |-> log[p].attempts,
               left |-> IF log[p].left > NoLease THEN log[p].left - 1 ELSE NoLease]]
  /\ UNCHANGED <<sub, visible, pc, result, retries, crashes, history>>

\* PATCH of is_active by the owner.
Pause(s) ==
  /\ sub[s] = "active"
  /\ sub' = [sub EXCEPT ![s] = "paused"]
  /\ UNCHANGED <<visible, log, taskVars, crashes, history>>

Resume(s) ==
  /\ sub[s] = "paused"
  /\ sub' = [sub EXCEPT ![s] = "active"]
  /\ UNCHANGED <<visible, log, taskVars, crashes, history>>

\* DELETE by the owner; the log rows go with the subscription (CASCADE).  A PATCH
\* that loaded the row before can insert it again (module Subscriptions); here a
\* deleted subscription stays deleted.
Delete(s) ==
  /\ sub[s] # "deleted"
  /\ sub' = [sub EXCEPT ![s] = "deleted"]
  /\ log' = [p \in Pairs |-> IF p[1] = s THEN NoRow ELSE log[p]]
  /\ UNCHANGED <<visible, taskVars, crashes, history>>

\* An article or its feed is soft-deleted (cleanup, DELETE of the feed), or a
\* deleted feed is added again.
Hide(a) ==
  /\ visible' = [visible EXCEPT ![a] = ~@]
  /\ UNCHANGED <<sub, log, taskVars, crashes, history>>

Step(t) ==
  \/ Load(t) \/ ReadClock(t) \/ Claim(t) \/ Send(t) \/ Record(t)

Next ==
  \/ \E t \in Tasks : Enqueue(t) \/ Step(t) \/ Fail(t) \/ Kill(t) \/ Crash(t)
  \/ Tick
  \/ \E s \in Subs : Pause(s) \/ Resume(s) \/ Delete(s)
  \/ \E a \in Arts : Hide(a)

Spec == Init /\ [][Next]_vars

\* A queued message is taken by some worker and each statement of a running task
\* returns or raises, at the latest at the time limit; time passes.
Fairness == WF_vars(Tick) /\ \A t \in Tasks : WF_vars(Step(t))

FairSpec == Spec /\ Fairness

(***************************************************************************)
(* Properties.                                                             *)
(***************************************************************************)
\* The lease lasts longer than a task may run ("longer than one attempt").
LeaseCoversAttempt == TimeLimit < Lease

Holds(t) == pc[t] \in {"sending", "recording"}

\* Two tasks never send the same pair at the same time: _claim admits one, and
\* the lease of a task that still runs has not ended.
OneSender ==
  \A t, u \in Tasks :
    Holds(t) /\ Holds(u) /\ PairOf[t] = PairOf[u] => t = u

\* A task that is sending still has its lease, unless the subscription and
\* with it the row were deleted under it.
HolderKeepsLease ==
  \A t \in Tasks :
    Holds(t) => \/ sub[PairOf[t][1]] = "deleted"
                \/ /\ log[PairOf[t]].left > 0
                   /\ ~log[PairOf[t]].succeeded

\* deliver does not send twice from our side: a receiver takes a payload once
\* more than before only if a success got lost (no answer, a crash or a failed
\* statement between the send and _record).
NoDuplicateWithoutLoss == \A p \in Pairs : accepted[p] <= losses[p] + 1

\* A delivered pair is never marked failed again, nor counted again, whatever
\* late attempts end: only deleting the subscription removes its row.
DeliveredIsFinal ==
  [][\A p \in Pairs :
       log[p].succeeded => \/ /\ log'[p].succeeded
                              /\ log'[p].attempts = log[p].attempts
                           \/ sub'[p[1]] = "deleted"]_vars

\* How many steps a message has at most: an attempt has five, from the queue to
\* its record, and there is one more for every retry and every crash to come.
StepsOf == [idle |-> 6, queued |-> 5, loaded |-> 4, claiming |-> 3, sending |-> 2,
            recording |-> 1, done |-> 0]

StepsLeft(t) == StepsOf[pc[t]] + 5 * (MaxRetries - retries[t]) + 5 * (MaxCrashes - crashes)

\* No message goes round without end, however tasks of one pair find each other's
\* lease, fail, are killed or redelivered: what moves a message leaves it fewer
\* steps, never less than none, and what others do never adds to them.
AttemptsRunOut ==
  [][\A t \in Tasks : \/ StepsLeft(t)' \in 0..StepsLeft(t) - 1
                      \/ pc'[t] = pc[t] /\ StepsLeft(t)' = StepsLeft(t)]_vars

\* Every queued task ends: it is delivered, dropped, refused, killed or out of
\* retries, and no two tasks keep each other waiting for the lease of a pair.
EveryTaskEnds == \A t \in Tasks : pc[t] = "queued" ~> pc[t] = "done"

\* The comment at LEASE calls it "shorter than the retries": a redelivered deliver that meets the
\* lease of its own dead worker outwaits it.  With full jitter no sum of countdowns is certain.
LeaseIsOutwaited == \A t \in Tasks : result[t] # "in flight"
=============================================================================
