--------------------------- MODULE DeliveryProofs ---------------------------
(***************************************************************************)
(* Proofs about module Delivery, for any sets of subscriptions, articles   *)
(* and messages and any values of the time constants.                      *)
(***************************************************************************)
EXTENDS DeliveryOutbox, TLAPS

(***************************************************************************)
(* Typing.  That age stays within the time limit needs the clock to have   *)
(* been read after the task started.                                       *)
(***************************************************************************)
ClockReadAfterStart ==
  \A t \in Tasks : pc[t] = "claiming" => age[t] <= ran[t]

TypeInv == TypeOK /\ ClockReadAfterStart

\* The part of TypeInv that is about messages.
TaskType ==
  /\ pc \in [Tasks -> {"idle", "queued", "done"} \union RunningPcs]
  /\ result \in [Tasks -> Answers \union Ends \union {"none"}]
  /\ retries \in [Tasks -> 0..MaxRetries]
  /\ wait \in [Tasks -> 0..BackoffCap]
  /\ ran \in [Tasks -> 0..TimeLimit]
  /\ age \in [Tasks -> 0..TimeLimit]
  /\ ClockReadAfterStart

\* Wherever a worker is cut short, the histories stay natural numbers.
LEMMA AbandonType ==
  ASSUME TypeOK, NEW t \in Tasks, Abandon(t)
  PROVE  accepted' \in [Pairs -> Nat] /\ losses' \in [Pairs -> Nat]
  BY DeliveryAssumption DEF TypeOK, Abandon, history

\* Leaving a worker, ending and retrying keep the messages well typed.
LEMMA EndType ==
  ASSUME TaskType, NEW t \in Tasks, NEW why \in Answers \union Ends \union {"none"}, End(t, why)
  PROVE  TaskType'
  BY DeliveryAssumption DEF TaskType, End, Leave, ClockReadAfterStart

\* autoretry_for counts up to max_retries and draws a countdown within its cap.
LEMMA RetryType ==
  ASSUME TaskType, NEW t \in Tasks, NEW why \in Answers \union Ends \union {"none"},
         RetryOrGiveUp(t, why)
  PROVE  TaskType'
<1>1. CASE End(t, why)
  BY <1>1, EndType
<1>2. CASE /\ MayRetry(t)
           /\ Leave(t, "queued")
           /\ \E w \in Countdowns(t) : wait' = [wait EXCEPT ![t] = w]
           /\ retries' = [retries EXCEPT ![t] = @ + 1]
           /\ UNCHANGED result
  <2>1. Countdowns(t) \subseteq 0..BackoffCap
    BY DEF Countdowns
  <2> QED
    BY <1>2, <2>1, DeliveryAssumption DEF TaskType, MayRetry, Leave, ClockReadAfterStart
<1> QED
  BY <1>1, <1>2 DEF RetryOrGiveUp

\* Every step of deliver and its environment keeps the type invariant.
LEMMA TypeStep == TypeInv /\ [Next]_vars => TypeInv'
<1> SUFFICES ASSUME TypeInv, [Next]_vars PROVE TypeInv'
  OBVIOUS
<1>a. TaskType
  BY DEF TypeInv, TypeOK, TaskType
<1>b. ASSUME TaskType', /\ sub' \in [Subs -> {"active", "paused", "deleted"}]
                        /\ visible' \in [Arts -> BOOLEAN]
                        /\ log' \in [Pairs -> LogRows]
                        /\ crashes' \in 0..MaxCrashes
                        /\ accepted' \in [Pairs -> Nat]
                        /\ losses' \in [Pairs -> Nat]
      PROVE  TypeInv'
  BY <1>b DEF TypeInv, TypeOK, TaskType
<1>c. ASSUME TaskType', UNCHANGED <<sub, visible, log, crashes, history>> PROVE TypeInv'
  BY <1>b, <1>c DEF TypeInv, TypeOK, history
<1>1. ASSUME NEW t \in Tasks, Enqueue(t) PROVE TypeInv'
  <2>1. TaskType'
    BY <1>1, <1>a DEF Enqueue, Goto, TaskType, ClockReadAfterStart
  <2> QED
    BY <1>1, <1>c, <2>1 DEF Enqueue
<1>2. ASSUME NEW t \in Tasks, Load(t) PROVE TypeInv'
  <2>1. CASE End(t, "gone")
    BY <1>2, <1>a, <1>c, <2>1, EndType DEF Load, Ends
  <2>2. CASE Goto(t, "loaded")
    <3>1. TaskType'
      BY <2>2, <1>a DEF Goto, TaskType, ClockReadAfterStart, RunningPcs
    <3> QED
      BY <1>2, <1>c, <3>1 DEF Load
  <2> QED
    BY <1>2, <2>1, <2>2 DEF Load
<1>3. ASSUME NEW t \in Tasks, ReadClock(t) PROVE TypeInv'
  <2>1. TaskType'
    BY <1>3, <1>a, DeliveryAssumption
    DEF ReadClock, TaskType, ClockReadAfterStart, RunningPcs
  <2> QED
    BY <1>3, <1>c, <2>1 DEF ReadClock
<1>4. ASSUME NEW t \in Tasks, Claim(t) PROVE TypeInv'
  <2> DEFINE p == PairOf[t]
  <2>1. p \in Pairs
    BY DeliveryAssumption
  <2>2. CASE End(t, "error") /\ UNCHANGED log
    BY <1>4, <1>a, <1>c, <2>2, EndType DEF Claim, Ends
  <2>3. CASE End(t, "deduped") /\ UNCHANGED log
    BY <1>4, <1>a, <1>c, <2>3, EndType DEF Claim, Ends
  <2>4. CASE RetryOrGiveUp(t, "in flight") /\ UNCHANGED log
    BY <1>4, <1>a, <1>c, <2>4, RetryType DEF Claim, Ends
  <2>5. CASE /\ log' = [log EXCEPT ![p] = [stored |-> TRUE, succeeded |-> @.succeeded,
                                           attempts |-> @.attempts, left |-> Lease - age[t]]]
             /\ pc' = [pc EXCEPT ![t] = "sending"]
             /\ age' = [age EXCEPT ![t] = 0]
             /\ UNCHANGED <<result, retries, wait, ran>>
    <3>1. Lease - age[t] \in NoLease..Lease
      BY DeliveryAssumption DEF TypeInv, TypeOK, NoLease
    <3>2. log' \in [Pairs -> LogRows]
      BY <2>1, <2>5, <3>1 DEF TypeInv, TypeOK, LogRows
    <3>3. TaskType'
      BY <2>5, <1>a, DeliveryAssumption DEF TaskType, ClockReadAfterStart, RunningPcs
    <3> QED
      BY <1>4, <1>b, <3>2, <3>3 DEF Claim, TypeInv, TypeOK, history
  <2> QED
    BY <1>4, <2>2, <2>3, <2>4, <2>5 DEF Claim
<1>5. ASSUME NEW t \in Tasks, Send(t) PROVE TypeInv'
  <2>1. PairOf[t] \in Pairs
    BY DeliveryAssumption
  <2>2. TaskType'
    BY <1>5, <1>a DEF Send, TaskType, ClockReadAfterStart, RunningPcs
  <2>3. accepted' \in [Pairs -> Nat] /\ losses' \in [Pairs -> Nat]
    BY <1>5, <2>1 DEF Send, TypeInv, TypeOK
  <2> QED
    BY <1>5, <1>b, <2>2, <2>3 DEF Send, TypeInv, TypeOK
<1>6. ASSUME NEW t \in Tasks, Record(t) PROVE TypeInv'
  <2>1. PairOf[t] \in Pairs
    BY DeliveryAssumption
  <2>2. NoLease \in NoLease..Lease
    BY DeliveryAssumption DEF NoLease
  <2>3. log' \in [Pairs -> LogRows]
    BY <1>6, <2>1, <2>2 DEF Record, TypeInv, TypeOK, LogRows
  <2>4. TaskType'
    <3>1. CASE RetryOrGiveUp(t, "exhausted")
      BY <1>a, <3>1, RetryType DEF Ends
    <3>2. CASE End(t, result[t])
      BY <1>a, <3>2, EndType DEF TaskType
    <3> QED
      BY <1>6, <3>1, <3>2 DEF Record
  <2> QED
    BY <1>6, <1>b, <2>3, <2>4 DEF Record, TypeInv, TypeOK, history
<1>7. ASSUME NEW t \in Tasks, Fail(t) \/ Kill(t) PROVE TypeInv'
  <2>1. TaskType'
    BY <1>7, <1>a, EndType DEF Fail, Kill, Ends
  <2>2. accepted' \in [Pairs -> Nat] /\ losses' \in [Pairs -> Nat]
    BY <1>7, AbandonType DEF Fail, Kill, TypeInv
  <2> QED
    BY <1>7, <1>b, <2>1, <2>2 DEF Fail, Kill, TypeInv, TypeOK
<1>8. ASSUME NEW t \in Tasks, Crash(t) PROVE TypeInv'
  <2>1. TaskType'
    BY <1>8, <1>a, DeliveryAssumption DEF Crash, Leave, TaskType, ClockReadAfterStart
  <2>2. accepted' \in [Pairs -> Nat] /\ losses' \in [Pairs -> Nat]
    BY <1>8, AbandonType DEF Crash, TypeInv
  <2>3. crashes' \in 0..MaxCrashes
    BY <1>8, DeliveryAssumption DEF Crash, TypeInv, TypeOK
  <2> QED
    BY <1>8, <1>b, <2>1, <2>2, <2>3 DEF Crash, TypeInv, TypeOK
<1>9. CASE Tick
  <2>1. TaskType'
    BY <1>9, <1>a, DeliveryAssumption
    DEF Tick, WithinLimit, Running, RunningPcs, Countdown, TaskType, ClockReadAfterStart
  <2>2. log' \in [Pairs -> LogRows]
    BY <1>9, DeliveryAssumption DEF Tick, TypeInv, TypeOK, LogRows, NoLease
  <2> QED
    BY <1>9, <1>b, <2>1, <2>2 DEF Tick, TypeInv, TypeOK, history
<1>10. ASSUME NEW s \in Subs, Pause(s) \/ Resume(s) \/ Delete(s) PROVE TypeInv'
  <2>1. TaskType'
    BY <1>10, <1>a DEF Pause, Resume, Delete, taskVars, TaskType, ClockReadAfterStart
  <2>2. NoRow \in LogRows
    BY DeliveryAssumption DEF NoRow, LogRows, NoLease
  <2> QED
    BY <1>10, <1>b, <2>1, <2>2 DEF Pause, Resume, Delete, TypeInv, TypeOK, history
<1>11. ASSUME NEW a \in Arts, Hide(a) PROVE TypeInv'
  <2>1. TaskType'
    BY <1>11, <1>a DEF Hide, taskVars, TaskType, ClockReadAfterStart
  <2> QED
    BY <1>11, <1>b, <2>1 DEF Hide, TypeInv, TypeOK, history
<1>12. CASE UNCHANGED vars
  <2>1. TaskType'
    BY <1>12, <1>a DEF vars, taskVars, TaskType, ClockReadAfterStart
  <2> QED
    BY <1>12, <1>c, <2>1 DEF vars
<1> QED
  BY <1>1, <1>2, <1>3, <1>4, <1>5, <1>6, <1>7, <1>8, <1>9, <1>10, <1>11, <1>12
  DEF Next, Step

\* The type invariant, with the order of start and clock.
LEMMA TypeInvariant == Spec => []TypeInv
<1>1. Init => TypeInv
  BY DeliveryAssumption
  DEF Init, TypeInv, TypeOK, LogRows, NoRow, NoLease, ClockReadAfterStart
<1> QED
  BY <1>1, TypeStep, PTL DEF Spec

\* Type correctness of the delivery log, the messages and the histories.
THEOREM TypeCorrect == Spec => []TypeOK
<1>1. TypeInv => TypeOK
  BY DEF TypeInv
<1> QED
  BY <1>1, TypeInvariant, PTL

(***************************************************************************)
(* One sender per pair.  The lease a holder took is the lease of the row,  *)
(* and so much of it is left that the holder is killed before it ends.     *)
(***************************************************************************)
LeaseOfHolder(t) ==
  LET p == PairOf[t]
  IN \/ sub[p[1]] = "deleted"
     \/ /\ log[p].stored
        /\ ~log[p].succeeded
        /\ log[p].left >= Lease - ran[t]

HoldersLeased == \A t \in Tasks : Holds(t) => LeaseOfHolder(t)

SenderInv == HoldersLeased /\ OneSender

\* With the lease longer than the time limit, the lease of a holder has not ended.
LEMMA HolderIsAhead ==
  ASSUME TypeInv, SenderInv, LeaseCoversAttempt, NEW t \in Tasks, Holds(t),
         sub[PairOf[t][1]] # "deleted"
  PROVE  log[PairOf[t]].left > 0 /\ ~log[PairOf[t]].succeeded /\ log[PairOf[t]].stored
<1>1. PairOf[t] \in Pairs
  BY DeliveryAssumption
<1>2. log[PairOf[t]].left \in Int /\ ran[t] \in 0..TimeLimit
  BY <1>1, DeliveryAssumption DEF TypeInv, TypeOK, LogRows, NoLease
<1> QED
  BY <1>2, DeliveryAssumption DEF SenderInv, HoldersLeased, LeaseOfHolder, LeaseCoversAttempt

\* A step that makes no new holder, writes no row of a holder and lets no time
\* pass for a holder keeps the invariant.
LEMMA SenderFrame ==
  ASSUME SenderInv, UNCHANGED <<sub, log>>,
         \A u \in Tasks : Holds(u)' => Holds(u) /\ ran'[u] = ran[u]
  PROVE  SenderInv'
  BY DEF SenderInv, HoldersLeased, LeaseOfHolder, OneSender

\* Leaving a worker makes no new holder and touches no timer of another task.
LEMMA LeaveFrame ==
  ASSUME TypeInv, NEW t \in Tasks, NEW next \in {"queued", "done"}, Leave(t, next)
  PROVE  \A u \in Tasks : Holds(u)' => u # t /\ Holds(u) /\ ran'[u] = ran[u]
  BY DEF TypeInv, TypeOK, Leave, Holds

\* Neither do the ways a task ends or is retried.
LEMMA EndFrame ==
  ASSUME TypeInv, NEW t \in Tasks, NEW why,
         End(t, why) \/ RetryOrGiveUp(t, why)
  PROVE  \A u \in Tasks : Holds(u)' => u # t /\ Holds(u) /\ ran'[u] = ran[u]
  BY LeaveFrame DEF End, RetryOrGiveUp

\* Every step keeps the lease of each holder ahead of the time it has left to run.
LEMMA SenderStep ==
  ASSUME LeaseCoversAttempt, TypeInv, SenderInv, [Next]_vars
  PROVE  SenderInv'
<1>1. ASSUME NEW t \in Tasks, Enqueue(t) PROVE SenderInv'
  <2>1. \A u \in Tasks : Holds(u)' => Holds(u) /\ ran'[u] = ran[u]
    BY <1>1 DEF Enqueue, Goto, Holds, TypeInv, TypeOK
  <2> QED
    BY <1>1, <2>1, SenderFrame DEF Enqueue
<1>2. ASSUME NEW t \in Tasks, Load(t) PROVE SenderInv'
  <2>1. CASE End(t, "gone")
    BY <1>2, <2>1, EndFrame, SenderFrame DEF Load
  <2>2. CASE Goto(t, "loaded")
    <3>1. \A u \in Tasks : Holds(u)' => Holds(u) /\ ran'[u] = ran[u]
      BY <2>2 DEF Goto, Holds, TypeInv, TypeOK
    <3> QED
      BY <1>2, <3>1, SenderFrame DEF Load
  <2> QED
    BY <1>2, <2>1, <2>2 DEF Load
<1>3. ASSUME NEW t \in Tasks, ReadClock(t) PROVE SenderInv'
  <2>1. \A u \in Tasks : Holds(u)' => Holds(u) /\ ran'[u] = ran[u]
    BY <1>3 DEF ReadClock, Holds, TypeInv, TypeOK
  <2> QED
    BY <1>3, <2>1, SenderFrame DEF ReadClock
<1>4. ASSUME NEW t \in Tasks, Claim(t) PROVE SenderInv'
  <2> DEFINE p == PairOf[t]
  <2>1. CASE End(t, "error") /\ UNCHANGED log
    BY <1>4, <2>1, EndFrame, SenderFrame DEF Claim
  <2>2. CASE End(t, "deduped") /\ UNCHANGED log
    BY <1>4, <2>2, EndFrame, SenderFrame DEF Claim
  <2>3. CASE RetryOrGiveUp(t, "in flight") /\ UNCHANGED log
    BY <1>4, <2>3, EndFrame, SenderFrame DEF Claim
  <2>4. CASE /\ sub[p[1]] # "deleted"
             /\ ~Delivered(p)
             /\ ~Leased(t)
             /\ log' = [log EXCEPT ![p] = [stored |-> TRUE, succeeded |-> @.succeeded,
                                           attempts |-> @.attempts, left |-> Lease - age[t]]]
             /\ pc' = [pc EXCEPT ![t] = "sending"]
             /\ age' = [age EXCEPT ![t] = 0]
             /\ UNCHANGED <<result, retries, wait, ran>>
    <3>1. p \in Pairs /\ \A u \in Tasks : PairOf[u] \in Pairs
      BY DeliveryAssumption
    <3>2. pc[t] = "claiming" /\ UNCHANGED sub
      BY <1>4 DEF Claim
    <3>3. age[t] <= ran[t] /\ age[t] \in Nat /\ ran[t] \in Nat
      BY <3>2, DeliveryAssumption DEF TypeInv, TypeOK, ClockReadAfterStart
    <3>4. ~(log[p].left > 0)
      <4>1. log[p].left \in Int
        BY <3>1, DeliveryAssumption DEF TypeInv, TypeOK, LogRows, NoLease
      <4> QED
        BY <2>4, <3>3, <4>1 DEF Leased
    <3>5. \A u \in Tasks : Holds(u) => PairOf[u] # p
      BY <2>4, <3>4, HolderIsAhead
    <3>6. \A u \in Tasks : Holds(u)' <=> u = t \/ Holds(u)
      BY <2>4 DEF Holds, TypeInv, TypeOK
    <3>7. OneSender'
      BY <3>5, <3>6 DEF SenderInv, OneSender
    <3>8. log'[p].stored /\ ~log'[p].succeeded /\ log'[p].left = Lease - age[t]
      BY <2>4, <3>1 DEF TypeInv, TypeOK, Delivered
    <3>9. LeaseOfHolder(t)'
      BY <2>4, <3>3, <3>8, DeliveryAssumption DEF LeaseOfHolder
    <3>10. ASSUME NEW u \in Tasks, u # t, Holds(u) PROVE LeaseOfHolder(u)'
      <4>1. log'[PairOf[u]] = log[PairOf[u]]
        BY <2>4, <3>1, <3>5, <3>10 DEF TypeInv, TypeOK
      <4>2. LeaseOfHolder(u)
        BY <3>10 DEF SenderInv, HoldersLeased
      <4> QED
        BY <2>4, <3>2, <4>1, <4>2 DEF LeaseOfHolder
    <3> QED
      BY <3>6, <3>7, <3>9, <3>10 DEF SenderInv, HoldersLeased
  <2> QED
    BY <1>4, <2>1, <2>2, <2>3, <2>4 DEF Claim
<1>5. ASSUME NEW t \in Tasks, Send(t) PROVE SenderInv'
  <2>1. \A u \in Tasks : Holds(u)' => Holds(u) /\ ran'[u] = ran[u]
    BY <1>5 DEF Send, Holds, TypeInv, TypeOK
  <2> QED
    BY <1>5, <2>1, SenderFrame DEF Send
<1>6. ASSUME NEW t \in Tasks, Record(t) PROVE SenderInv'
  <2>1. \A u \in Tasks : Holds(u)' => u # t /\ Holds(u) /\ ran'[u] = ran[u]
    BY <1>6, EndFrame DEF Record
  <2>2. Holds(t) /\ UNCHANGED sub
    BY <1>6 DEF Record, Holds
  <2>3. \A u \in Tasks : u # t /\ Holds(u) => PairOf[u] # PairOf[t]
    BY <2>2 DEF SenderInv, OneSender
  <2>4. ASSUME NEW u \in Tasks, Holds(u)' PROVE LeaseOfHolder(u)'
    <3>1. PairOf[u] \in Pairs /\ PairOf[u] # PairOf[t]
      BY <2>1, <2>3, <2>4, DeliveryAssumption
    <3>2. log'[PairOf[u]] = log[PairOf[u]]
      BY <1>6, <3>1 DEF Record, TypeInv, TypeOK
    <3>3. LeaseOfHolder(u)
      BY <2>1, <2>4 DEF SenderInv, HoldersLeased
    <3> QED
      BY <2>1, <2>2, <2>4, <3>2, <3>3 DEF LeaseOfHolder
  <2> QED
    BY <2>1, <2>4 DEF SenderInv, HoldersLeased, OneSender
<1>7. ASSUME NEW t \in Tasks, Fail(t) \/ Kill(t) PROVE SenderInv'
  <2>1. UNCHANGED <<sub, log>>
    BY <1>7 DEF Fail, Kill
  <2> QED
    BY <1>7, <2>1, EndFrame, SenderFrame DEF Fail, Kill
<1>8. ASSUME NEW t \in Tasks, Crash(t) PROVE SenderInv'
  BY <1>8, LeaveFrame, SenderFrame DEF Crash
<1>9. CASE Tick
  <2>1. \A u \in Tasks : Holds(u)' <=> Holds(u)
    BY <1>9 DEF Tick, Holds
  <2>2. ASSUME NEW u \in Tasks, Holds(u) PROVE LeaseOfHolder(u)'
    <3>1. CASE sub[PairOf[u][1]] = "deleted"
      BY <1>9, <3>1 DEF Tick, LeaseOfHolder
    <3>2. CASE sub[PairOf[u][1]] # "deleted"
      <4> DEFINE p == PairOf[u]
      <4>1. p \in Pairs
        BY DeliveryAssumption
      <4>2. log[p].left \in Int /\ log[p].left > 0 /\ ran[u] \in Nat
        BY <2>2, <3>2, <4>1, HolderIsAhead, DeliveryAssumption
        DEF TypeInv, TypeOK, LogRows, NoLease
      <4>3. /\ log'[p].left = log[p].left - 1
            /\ log'[p].stored = log[p].stored
            /\ log'[p].succeeded <=> log[p].succeeded
        BY <1>9, <4>1, <4>2, DeliveryAssumption DEF Tick, NoLease
      <4>4. ran'[u] = ran[u] + 1
        BY <1>9, <2>2 DEF Tick, Running, RunningPcs, Holds
      <4>5. log[p].stored /\ ~log[p].succeeded /\ log[p].left >= Lease - ran[u]
        BY <2>2, <3>2 DEF SenderInv, HoldersLeased, LeaseOfHolder
      <4> QED
        BY <4>2, <4>3, <4>4, <4>5, DeliveryAssumption DEF LeaseOfHolder
    <3> QED
      BY <3>1, <3>2
  <2> QED
    BY <2>1, <2>2 DEF SenderInv, HoldersLeased, OneSender
<1>10. ASSUME NEW s \in Subs, Pause(s) \/ Resume(s) \/ Delete(s) PROVE SenderInv'
  <2>1. \A u \in Tasks : (Holds(u)' <=> Holds(u)) /\ ran'[u] = ran[u]
    BY <1>10 DEF Pause, Resume, Delete, taskVars, Holds
  <2>2. ASSUME NEW u \in Tasks, Holds(u) PROVE LeaseOfHolder(u)'
    <3>1. PairOf[u] \in Pairs /\ PairOf[u][1] \in Subs
      BY DeliveryAssumption DEF Pairs
    <3>2. LeaseOfHolder(u)
      BY <2>2 DEF SenderInv, HoldersLeased
    <3> QED
      BY <1>10, <2>1, <3>1, <3>2 DEF Pause, Resume, Delete, LeaseOfHolder, TypeInv, TypeOK
  <2> QED
    BY <2>1, <2>2 DEF SenderInv, HoldersLeased, OneSender
<1>11. ASSUME NEW a \in Arts, Hide(a) PROVE SenderInv'
  BY <1>11, SenderFrame DEF Hide, taskVars, Holds
<1>12. CASE UNCHANGED vars
  BY <1>12, SenderFrame DEF vars, taskVars, Holds
<1> QED
  BY <1>1, <1>2, <1>3, <1>4, <1>5, <1>6, <1>7, <1>8, <1>9, <1>10, <1>11, <1>12
  DEF Next, Step

\* The inductive invariant of the lease holds in every reachable state.
LEMMA SenderInvariant == LeaseCoversAttempt => (Spec => [](TypeInv /\ SenderInv))
<1> SUFFICES ASSUME LeaseCoversAttempt PROVE Spec => [](TypeInv /\ SenderInv)
  OBVIOUS
<1>1. Init => SenderInv
  BY DEF Init, SenderInv, HoldersLeased, OneSender, Holds
<1>2. TypeInv /\ SenderInv /\ [Next]_vars => SenderInv'
  BY SenderStep
<1> QED
  BY <1>1, <1>2, TypeInvariant, PTL DEF Spec

\* While the lease lasts longer than the hard time limit, two tasks never send
\* the same pair at the same time, however many messages are queued for it.
THEOREM OneSenderAlways == LeaseCoversAttempt => (Spec => []OneSender)
<1>1. SenderInv => OneSender
  BY DEF SenderInv
<1> QED
  BY <1>1, SenderInvariant, PTL

\* Under the same condition a running task has its lease until it has recorded
\* its attempt: no other task takes over a pair that is still being sent.
THEOREM HolderKeepsLeaseAlways == LeaseCoversAttempt => (Spec => []HolderKeepsLease)
<1> SUFFICES ASSUME LeaseCoversAttempt PROVE Spec => []HolderKeepsLease
  OBVIOUS
<1>1. TypeInv /\ SenderInv => HolderKeepsLease
  BY HolderIsAhead DEF HolderKeepsLease
<1> QED
  BY <1>1, SenderInvariant, PTL

(***************************************************************************)
(* No duplicate without a loss.  A pair is settled when every time its     *)
(* receiver took the payload has been counted as a loss; a new attempt     *)
(* starts only on a settled pair.                                          *)
(***************************************************************************)
HoldsSuccess(t) == pc[t] = "recording" /\ result[t] = "ok"

Pending(t) == Holds(t) /\ ~HoldsSuccess(t)

Open(p) ==
  /\ sub[p[1]] # "deleted"
  /\ ~log[p].succeeded
  /\ \A t \in Tasks : HoldsSuccess(t) => PairOf[t] # p

Settled(p) == accepted[p] <= losses[p]

SettledInv ==
  /\ NoDuplicateWithoutLoss
  /\ \A t \in Tasks : Pending(t) => Settled(PairOf[t])
  /\ \A p \in Pairs : Open(p) => Settled(p)

\* A step that leaves the histories alone, makes no new attempt and opens no pair.
LEMMA SettledFrame ==
  ASSUME SettledInv, UNCHANGED history,
         \A u \in Tasks : Pending(u)' => Pending(u) \/ Settled(PairOf[u]),
         \A p \in Pairs : Open(p)' => Open(p) \/ Settled(p)
  PROVE  SettledInv'
  BY DEF SettledInv, Settled, NoDuplicateWithoutLoss, history

\* A task that leaves its worker is neither pending nor in possession of a
\* success, and all other tasks are as they were.
LEMMA LeaveHoldings ==
  ASSUME TypeInv, NEW t \in Tasks, NEW next \in {"queued", "done"}, Leave(t, next),
         \A u \in Tasks : u # t => result'[u] = result[u]
  PROVE  \A u \in Tasks : /\ Pending(u)' <=> u # t /\ Pending(u)
                          /\ HoldsSuccess(u)' <=> u # t /\ HoldsSuccess(u)
  BY DEF TypeInv, TypeOK, Leave, Pending, Holds, HoldsSuccess

\* The same for the ways a task ends or is retried.
LEMMA EndHoldings ==
  ASSUME TypeInv, NEW t \in Tasks, NEW why, End(t, why) \/ RetryOrGiveUp(t, why)
  PROVE  \A u \in Tasks : /\ Pending(u)' <=> u # t /\ Pending(u)
                          /\ HoldsSuccess(u)' <=> u # t /\ HoldsSuccess(u)
<1>1. \A u \in Tasks : u # t => result'[u] = result[u]
  BY DEF End, RetryOrGiveUp, TypeInv, TypeOK
<1> QED
  BY <1>1, LeaveHoldings DEF End, RetryOrGiveUp

\* Cutting a task short keeps the invariant: what it may have sent is a loss.
LEMMA SettledAbandon ==
  ASSUME TypeInv, SenderInv, SettledInv, NEW t \in Tasks, Abandon(t), UNCHANGED <<sub, log>>,
         \A u \in Tasks : /\ Pending(u)' <=> u # t /\ Pending(u)
                          /\ HoldsSuccess(u)' <=> u # t /\ HoldsSuccess(u)
  PROVE  SettledInv'
<1> DEFINE q == PairOf[t]
<1>1. q \in Pairs /\ \A u \in Tasks : PairOf[u] \in Pairs
  BY DeliveryAssumption
<1>2. accepted \in [Pairs -> Nat] /\ losses \in [Pairs -> Nat]
  BY DEF TypeInv, TypeOK
<1>3. CASE UNCHANGED history /\ ~HoldsSuccess(t)
  BY <1>3, SettledFrame DEF Open
<1>4. CASE /\ HoldsSuccess(t)
           /\ losses' = [losses EXCEPT ![q] = @ + 1]
           /\ UNCHANGED accepted
  <2>1. Settled(q)'
    BY <1>1, <1>2, <1>4 DEF SettledInv, NoDuplicateWithoutLoss, Settled
  <2>2. \A p \in Pairs : p # q => /\ Settled(p)' <=> Settled(p)
                                  /\ Open(p)' => Open(p)
    BY <1>1, <1>2, <1>4 DEF Settled, Open
  <2>3. NoDuplicateWithoutLoss'
    BY <1>1, <1>2, <1>4 DEF SettledInv, NoDuplicateWithoutLoss
  <2> QED
    BY <1>1, <2>1, <2>2, <2>3 DEF SettledInv
<1>5. CASE /\ pc[t] = "sending"
           /\ accepted' = [accepted EXCEPT ![q] = @ + 1]
           /\ losses' = [losses EXCEPT ![q] = @ + 1]
  <2>1. Pending(t)
    BY <1>5 DEF Pending, Holds, HoldsSuccess
  <2>2. Settled(q)'
    BY <1>1, <1>2, <1>5, <2>1 DEF SettledInv, Settled
  <2>3. \A p \in Pairs : p # q => /\ Settled(p)' <=> Settled(p)
                                  /\ Open(p)' => Open(p)
    BY <1>1, <1>2, <1>5 DEF Settled, Open
  <2>4. NoDuplicateWithoutLoss'
    BY <1>1, <1>2, <1>5 DEF SettledInv, NoDuplicateWithoutLoss
  <2> QED
    BY <1>1, <2>2, <2>3, <2>4 DEF SettledInv
<1> QED
  BY <1>3, <1>4, <1>5 DEF Abandon, HoldsSuccess

\* Every step keeps the account of accepted and lost payloads.
LEMMA SettledStep ==
  ASSUME LeaseCoversAttempt, TypeInv, SenderInv, SettledInv, [Next]_vars
  PROVE  SettledInv'
<1>1. ASSUME NEW t \in Tasks, Enqueue(t) PROVE SettledInv'
  <2>1. \A u \in Tasks : (Pending(u)' <=> Pending(u)) /\ (HoldsSuccess(u)' <=> HoldsSuccess(u))
    BY <1>1 DEF Enqueue, Goto, Pending, Holds, HoldsSuccess, TypeInv, TypeOK
  <2> QED
    BY <1>1, <2>1, SettledFrame DEF Enqueue, Open
<1>2. ASSUME NEW t \in Tasks, Load(t) PROVE SettledInv'
  <2>1. ~HoldsSuccess(t) /\ ~Pending(t)
    BY <1>2 DEF Load, HoldsSuccess, Pending, Holds
  <2>2. \A u \in Tasks : (Pending(u)' <=> Pending(u)) /\ (HoldsSuccess(u)' <=> HoldsSuccess(u))
    <3>1. CASE End(t, "gone")
      BY <2>1, <3>1, EndHoldings
    <3>2. CASE Goto(t, "loaded")
      BY <2>1, <3>2 DEF Goto, Pending, Holds, HoldsSuccess, TypeInv, TypeOK
    <3> QED
      BY <1>2, <3>1, <3>2 DEF Load
  <2> QED
    BY <1>2, <2>2, SettledFrame DEF Load, Open
<1>3. ASSUME NEW t \in Tasks, ReadClock(t) PROVE SettledInv'
  <2>1. \A u \in Tasks : (Pending(u)' <=> Pending(u)) /\ (HoldsSuccess(u)' <=> HoldsSuccess(u))
    BY <1>3 DEF ReadClock, Pending, Holds, HoldsSuccess, TypeInv, TypeOK
  <2> QED
    BY <1>3, <2>1, SettledFrame DEF ReadClock, Open
<1>4. ASSUME NEW t \in Tasks, Claim(t) PROVE SettledInv'
  <2> DEFINE q == PairOf[t]
  <2>1. ~HoldsSuccess(t) /\ ~Pending(t) /\ UNCHANGED <<sub, history>>
    BY <1>4 DEF Claim, HoldsSuccess, Pending, Holds
  <2>2. CASE End(t, "error") /\ UNCHANGED log
    BY <2>1, <2>2, EndHoldings, SettledFrame DEF Open
  <2>3. CASE End(t, "deduped") /\ UNCHANGED log
    BY <2>1, <2>3, EndHoldings, SettledFrame DEF Open
  <2>4. CASE RetryOrGiveUp(t, "in flight") /\ UNCHANGED log
    BY <2>1, <2>4, EndHoldings, SettledFrame DEF Open
  <2>5. CASE /\ sub[q[1]] # "deleted"
             /\ ~Delivered(q)
             /\ ~Leased(t)
             /\ log' = [log EXCEPT ![q] = [stored |-> TRUE, succeeded |-> @.succeeded,
                                           attempts |-> @.attempts, left |-> Lease - age[t]]]
             /\ pc' = [pc EXCEPT ![t] = "sending"]
             /\ age' = [age EXCEPT ![t] = 0]
             /\ UNCHANGED <<result, retries, wait, ran>>
    <3>1. q \in Pairs /\ \A u \in Tasks : PairOf[u] \in Pairs
      BY DeliveryAssumption
    <3>2. ~(log[q].left > 0)
      <4>1. log[q].left \in Int /\ age[t] \in Nat
        BY <3>1, DeliveryAssumption DEF TypeInv, TypeOK, LogRows, NoLease
      <4> QED
        BY <2>5, <4>1 DEF Leased
    <3>3. \A u \in Tasks : Holds(u) => PairOf[u] # q
      BY <2>5, <3>2, HolderIsAhead
    <3>4. Settled(q)
      BY <2>5, <3>1, <3>3 DEF SettledInv, Open, Delivered, HoldsSuccess, Holds
    <3>5. \A u \in Tasks : (Pending(u)' => Pending(u) \/ u = t) /\ (HoldsSuccess(u)' <=> HoldsSuccess(u))
      BY <2>1, <2>5 DEF Pending, Holds, HoldsSuccess, TypeInv, TypeOK
    <3>6. \A p \in Pairs : log'[p].succeeded = log[p].succeeded
      BY <2>5, <3>1 DEF TypeInv, TypeOK
    <3> QED
      BY <2>1, <3>4, <3>5, <3>6, SettledFrame DEF Open
  <2> QED
    BY <1>4, <2>2, <2>3, <2>4, <2>5 DEF Claim
<1>5. ASSUME NEW t \in Tasks, Send(t) PROVE SettledInv'
  <2> DEFINE q == PairOf[t]
  <2>1. q \in Pairs /\ \A u \in Tasks : PairOf[u] \in Pairs
    BY DeliveryAssumption
  <2>2. accepted \in [Pairs -> Nat] /\ losses \in [Pairs -> Nat]
    BY DEF TypeInv, TypeOK
  <2>3. Pending(t) /\ Holds(t) /\ ~HoldsSuccess(t)
    BY <1>5 DEF Send, Pending, Holds, HoldsSuccess
  <2>4. Settled(q)
    BY <2>3 DEF SettledInv
  <2>5. \A u \in Tasks : u # t => /\ Pending(u)' <=> Pending(u)
                                  /\ HoldsSuccess(u)' <=> HoldsSuccess(u)
    BY <1>5 DEF Send, Pending, Holds, HoldsSuccess, TypeInv, TypeOK
  <2>6. \A u \in Tasks : u # t /\ Holds(u) => PairOf[u] # q
    BY <2>3 DEF SenderInv, OneSender
  <2>7. UNCHANGED <<sub, log>>
    BY <1>5 DEF Send
  <2>8. \A p \in Pairs : p # q => accepted'[p] = accepted[p] /\ losses'[p] = losses[p]
    BY <1>5, <2>1, <2>2 DEF Send
  <2>9. \A p \in Pairs : p # q => /\ Open(p)' => Open(p)
                                  /\ Settled(p)' <=> Settled(p)
    BY <2>3, <2>5, <2>7, <2>8 DEF Open, Settled
  <2>10. \/ /\ HoldsSuccess(t)' /\ ~Pending(t)'
            /\ accepted'[q] = accepted[q] + 1 /\ losses'[q] = losses[q]
         \/ /\ ~HoldsSuccess(t)'
            /\ \/ accepted'[q] = accepted[q] /\ losses'[q] = losses[q]
               \/ accepted'[q] = accepted[q] + 1 /\ losses'[q] = losses[q] + 1
    <3>1. PICK answer \in Answers :
            \E took \in Took(answer) :
              /\ result' = [result EXCEPT ![t] = answer]
              /\ accepted' = IF took THEN [accepted EXCEPT ![q] = @ + 1] ELSE accepted
              /\ losses' = IF took /\ answer # "ok"
                           THEN [losses EXCEPT ![q] = @ + 1] ELSE losses
      BY <1>5 DEF Send
    <3>2. result'[t] = answer /\ pc'[t] = "recording"
      BY <1>5, <3>1 DEF Send, TypeInv, TypeOK
    <3>3. CASE answer = "ok"
      <4>1. Took(answer) = {TRUE}
        BY <3>3 DEF Took
      <4>2. accepted' = [accepted EXCEPT ![q] = @ + 1] /\ losses' = losses
        BY <3>1, <3>3, <4>1
      <4> QED
        BY <2>1, <2>2, <3>2, <3>3, <4>2 DEF HoldsSuccess, Pending
    <3>4. CASE answer # "ok"
      <4>1. \/ accepted' = accepted /\ losses' = losses
            \/ /\ accepted' = [accepted EXCEPT ![q] = @ + 1]
               /\ losses' = [losses EXCEPT ![q] = @ + 1]
        BY <3>1, <3>4
      <4> QED
        BY <2>1, <2>2, <3>2, <3>4, <4>1 DEF HoldsSuccess
    <3> QED
      BY <3>3, <3>4
  <2>11. /\ NoDuplicateWithoutLoss'
         /\ ~HoldsSuccess(t)' => Settled(q)'
    BY <2>1, <2>2, <2>4, <2>8, <2>10 DEF SettledInv, NoDuplicateWithoutLoss, Settled
  <2>12. \A u \in Tasks : Pending(u)' => Settled(PairOf[u])'
    BY <2>1, <2>5, <2>6, <2>9, <2>10, <2>11 DEF SettledInv, Pending
  <2>13. \A p \in Pairs : Open(p)' => Settled(p)'
    BY <2>9, <2>10, <2>11 DEF SettledInv, Open
  <2> QED
    BY <2>11, <2>12, <2>13 DEF SettledInv
<1>6. ASSUME NEW t \in Tasks, Record(t) PROVE SettledInv'
  <2> DEFINE q == PairOf[t]
  <2>1. q \in Pairs
    BY DeliveryAssumption
  <2>2. Holds(t) /\ UNCHANGED <<sub, history>>
    BY <1>6 DEF Record, Holds
  <2>3. \A u \in Tasks : /\ Pending(u)' <=> u # t /\ Pending(u)
                         /\ HoldsSuccess(u)' <=> u # t /\ HoldsSuccess(u)
    BY <1>6, EndHoldings DEF Record
  <2>4. \A p \in Pairs : p # q => log'[p] = log[p]
    BY <1>6 DEF Record, TypeInv, TypeOK
  <2>5. ASSUME Open(q)' PROVE Open(q) \/ Settled(q)
    <3>1. CASE HoldsSuccess(t)
      <4>1. sub[q[1]] # "deleted"
        BY <2>2, <2>5 DEF Open
      <4>2. Recordable(log[q])
        BY <2>2, <4>1, HolderIsAhead DEF Recordable
      <4>3. log'[q].succeeded
        BY <1>6, <2>1, <3>1, <4>2 DEF Record, HoldsSuccess, TypeInv, TypeOK
      <4> QED
        BY <2>5, <4>3 DEF Open
    <3>2. CASE ~HoldsSuccess(t)
      BY <2>2, <3>2 DEF SettledInv, Pending
    <3> QED
      BY <3>1, <3>2
  <2> QED
    BY <2>2, <2>3, <2>4, <2>5, SettledFrame DEF Open
<1>7. ASSUME NEW t \in Tasks, Fail(t) \/ Kill(t) PROVE SettledInv'
  <2>1. UNCHANGED <<sub, log>> /\ Abandon(t)
    BY <1>7 DEF Fail, Kill
  <2> QED
    BY <1>7, <2>1, EndHoldings, SettledAbandon DEF Fail, Kill
<1>8. ASSUME NEW t \in Tasks, Crash(t) PROVE SettledInv'
  BY <1>8, LeaveHoldings, SettledAbandon DEF Crash
<1>9. CASE Tick
  <2>1. \A p \in Pairs : log'[p].succeeded = log[p].succeeded
    BY <1>9 DEF Tick
  <2>2. \A u \in Tasks : (Pending(u)' <=> Pending(u)) /\ (HoldsSuccess(u)' <=> HoldsSuccess(u))
    BY <1>9 DEF Tick, Pending, Holds, HoldsSuccess
  <2> QED
    BY <1>9, <2>1, <2>2, SettledFrame DEF Tick, Open
<1>10. ASSUME NEW s \in Subs, Pause(s) \/ Resume(s) \/ Delete(s) PROVE SettledInv'
  <2>1. \A u \in Tasks : (Pending(u)' <=> Pending(u)) /\ (HoldsSuccess(u)' <=> HoldsSuccess(u))
    BY <1>10 DEF Pause, Resume, Delete, taskVars, Pending, Holds, HoldsSuccess
  <2>2. \A p \in Pairs : Open(p)' => Open(p)
    <3>1. \A p \in Pairs : p[1] \in Subs
      BY DEF Pairs
    <3> QED
      BY <1>10, <2>1, <3>1 DEF Pause, Resume, Delete, Open, TypeInv, TypeOK
  <2> QED
    BY <1>10, <2>1, <2>2, SettledFrame DEF Pause, Resume, Delete
<1>11. ASSUME NEW a \in Arts, Hide(a) PROVE SettledInv'
  BY <1>11, SettledFrame DEF Hide, taskVars, Open, Pending, Holds, HoldsSuccess
<1>12. CASE UNCHANGED vars
  BY <1>12, SettledFrame DEF vars, taskVars, Open, Pending, Holds, HoldsSuccess
<1> QED
  BY <1>1, <1>2, <1>3, <1>4, <1>5, <1>6, <1>7, <1>8, <1>9, <1>10, <1>11, <1>12
  DEF Next, Step

\* Under the same condition a receiver takes a payload twice only when a success
\* got lost on the way into the delivery log.
THEOREM NoDuplicateAlways == LeaseCoversAttempt => (Spec => []NoDuplicateWithoutLoss)
<1> SUFFICES ASSUME LeaseCoversAttempt PROVE Spec => []NoDuplicateWithoutLoss
  OBVIOUS
<1>1. Init => SettledInv
  BY DEF Init, SettledInv, NoDuplicateWithoutLoss, Pending, Holds, Settled, Pairs, DeliveryAssumption
<1>2. TypeInv /\ SenderInv /\ SettledInv /\ [Next]_vars => SettledInv'
  BY SettledStep
<1>3. SettledInv => NoDuplicateWithoutLoss
  BY DEF SettledInv
<1> QED
  BY <1>1, <1>2, <1>3, SenderInvariant, PTL DEF Spec

(***************************************************************************)
(* No downgrade.  This needs no condition on the lease: the filter of      *)
(* _record protects the row even when attempts overlap.                    *)
(***************************************************************************)
RowIsFinal(p) ==
  log[p].succeeded => \/ /\ log'[p].succeeded
                         /\ log'[p].attempts = log[p].attempts
                      \/ sub'[p[1]] = "deleted"

\* Whatever the time limit is, a delivered pair keeps its success and its count
\* of attempts until its subscription is deleted.
THEOREM DeliveredIsFinalAlways == Spec => DeliveredIsFinal
<1>1. ASSUME TypeInv, [Next]_vars, NEW p \in Pairs PROVE RowIsFinal(p)
  <2>1. ASSUME log' = log PROVE RowIsFinal(p)
    BY <2>1 DEF RowIsFinal
  <2>2. ASSUME NEW t \in Tasks, Claim(t) PROVE RowIsFinal(p)
    BY <1>1, <2>2, DeliveryAssumption DEF Claim, Delivered, RowIsFinal, TypeInv, TypeOK
  <2>3. ASSUME NEW t \in Tasks, Record(t) PROVE RowIsFinal(p)
    BY <1>1, <2>3, DeliveryAssumption DEF Record, Recordable, RowIsFinal, TypeInv, TypeOK
  <2>4. CASE Tick
    BY <1>1, <2>4 DEF Tick, RowIsFinal
  <2>5. ASSUME NEW s \in Subs, Delete(s) PROVE RowIsFinal(p)
    BY <1>1, <2>5 DEF Delete, RowIsFinal, Pairs, TypeInv, TypeOK
  <2> QED
    BY <1>1, <2>1, <2>2, <2>3, <2>4, <2>5
    DEF Next, Step, Enqueue, Load, ReadClock, Send, Fail, Kill, Crash, Pause, Resume, Hide, vars
<1>2. TypeInv /\ [Next]_vars
      => [\A p \in Pairs :
            log[p].succeeded => \/ /\ log'[p].succeeded
                                   /\ log'[p].attempts = log[p].attempts
                                \/ sub'[p[1]] = "deleted"]_vars
  BY <1>1 DEF RowIsFinal
<1> QED
  BY <1>2, TypeInvariant, PTL DEF Spec, DeliveredIsFinal

(***************************************************************************)
(* The refinement.  The log and the holder of a pair determine its state   *)
(* in Outbox once it is known that a delivered pair has no holder, also    *)
(* when its subscription is deleted: then there is no row.                 *)
(***************************************************************************)
RowInv ==
  \A p \in Pairs : /\ log[p].succeeded => log[p].stored
                   /\ sub[p[1]] = "deleted" => ~log[p].stored

\* A row exists only for a subscription that does, and a success only in a row.
LEMMA RowStep ==
  ASSUME TypeInv, RowInv, [Next]_vars
  PROVE  RowInv'
<1>1. ASSUME UNCHANGED <<log, sub>> PROVE RowInv'
  BY <1>1 DEF RowInv
<1>2. ASSUME NEW t \in Tasks, Claim(t) PROVE RowInv'
  <2>1. PairOf[t] \in Pairs
    BY DeliveryAssumption
  <2>2. UNCHANGED sub
    BY <1>2 DEF Claim
  <2>3. \/ UNCHANGED log
        \/ /\ sub[PairOf[t][1]] # "deleted"
           /\ log'[PairOf[t]].stored
           /\ \A p \in Pairs : p # PairOf[t] => log'[p] = log[p]
    <3>1. \/ UNCHANGED log
          \/ /\ sub[PairOf[t][1]] # "deleted"
             /\ log' = [log EXCEPT ![PairOf[t]] =
                          [stored |-> TRUE, succeeded |-> @.succeeded,
                           attempts |-> @.attempts, left |-> Lease - age[t]]]
      BY <1>2 DEF Claim
    <3> QED
      BY <2>1, <3>1 DEF TypeInv, TypeOK
  <2> QED
    BY <1>1, <2>2, <2>3 DEF RowInv
<1>3. ASSUME NEW t \in Tasks, Record(t) PROVE RowInv'
  BY <1>3, DeliveryAssumption DEF Record, Recordable, RowInv, TypeInv, TypeOK
<1>4. CASE Tick
  BY <1>4 DEF Tick, RowInv
<1>5. ASSUME NEW s \in Subs, Pause(s) \/ Resume(s) \/ Delete(s) PROVE RowInv'
  <2>1. \A p \in Pairs : p[1] \in Subs
    BY DEF Pairs
  <2> QED
    BY <1>5, <2>1 DEF Pause, Resume, Delete, NoRow, RowInv, TypeInv, TypeOK
<1> QED
  BY <1>1, <1>2, <1>3, <1>4, <1>5
  DEF Next, Step, Enqueue, Load, ReadClock, Send, Fail, Kill, Crash, Hide, vars

OutboxInv == TypeInv /\ SenderInv /\ RowInv

\* A holder's pair is not marked delivered.
LEMMA HolderIsOpen ==
  ASSUME OutboxInv, NEW t \in Tasks, Holds(t)
  PROVE  PairOf[t] \in Pairs /\ ~log[PairOf[t]].succeeded
<1>1. PairOf[t] \in Pairs
  BY DeliveryAssumption
<1> QED
  BY <1>1 DEF OutboxInv, SenderInv, HoldersLeased, LeaseOfHolder, RowInv

\* The state of a pair that a task holds is what that task does.
LEMMA HeldState ==
  ASSUME OutboxInv, NEW t \in Tasks, Holds(t)
  PROVE  PairState(PairOf[t]) = IF pc[t] = "sending" THEN "sending"
                                ELSE IF HoldsSuccess(t) THEN "arrived" ELSE "open"
<1>1. ~log[PairOf[t]].succeeded
  BY HolderIsOpen
<1>2. \A u \in Tasks : Holds(u) /\ PairOf[u] = PairOf[t] => u = t
  BY DEF OutboxInv, SenderInv, OneSender
<1> QED
  BY <1>1, <1>2 DEF PairState, Holds, HoldsSuccess

\* The state of a pair that no task holds is what its row says.
LEMMA UnheldState ==
  ASSUME NEW p \in Pairs, \A t \in Tasks : Holds(t) => PairOf[t] # p
  PROVE  PairState(p) = IF log[p].succeeded THEN "delivered" ELSE "open"
  BY DEF PairState, Holds

\* The tasks of p and its row are as before, as far as Outbox can tell.
SameFor(p) ==
  /\ log'[p].succeeded <=> log[p].succeeded
  /\ \A t \in Tasks :
       PairOf[t] = p => /\ (pc'[t] = "sending") <=> (pc[t] = "sending")
                        /\ HoldsSuccess(t)' <=> HoldsSuccess(t)

\* Then its state is as before.
LEMMA SameState ==
  ASSUME NEW p \in Pairs, SameFor(p)
  PROVE  PairState(p)' = PairState(p)
  BY DEF SameFor, PairState, HoldsSuccess

\* The states of all pairs: the mapping of Outbox's variable.
PairStates == [p \in Pairs |-> PairState(p)]

Gone == {s \in Subs : sub[s] = "deleted"}

\* A step that changes nothing Outbox can tell is a stuttering step of it.
LEMMA OutboxStutter ==
  ASSUME \A p \in Pairs : SameFor(p), UNCHANGED history, Gone' = Gone
  PROVE  UNCHANGED Out!vars
<1>1. PairStates' = PairStates
  BY SameState DEF PairStates
<1> QED
  BY <1>1 DEF Out!vars, PairStates, Gone, history

\* A step that moves one pair, as Outbox sees it.
LEMMA OutboxMove ==
  ASSUME NEW p \in Pairs, NEW from, NEW to, PairState(p) = from, PairState(p)' = to,
         \A q \in Pairs : q # p => SameFor(q)
  PROVE  Out!Move(p, from, to)
<1>1. PairStates' = [PairStates EXCEPT ![p] = to]
  BY SameState DEF PairStates
<1> QED
  BY <1>1 DEF Out!Move, PairStates

\* What a step of one task leaves alone.
LEMMA OthersSame ==
  ASSUME TypeInv, NEW t \in Tasks,
         \A p \in Pairs : p # PairOf[t] => log'[p] = log[p],
         \A u \in Tasks : u # t => pc'[u] = pc[u] /\ result'[u] = result[u]
  PROVE  \A p \in Pairs : p # PairOf[t] => SameFor(p)
  BY DEF SameFor, HoldsSuccess

\* Leaving a worker, ending and retrying touch no other task.
LEMMA OnlyOneMoves ==
  ASSUME TypeInv, NEW t \in Tasks, NEW why, End(t, why) \/ RetryOrGiveUp(t, why)
  PROVE  /\ \A u \in Tasks : u # t => pc'[u] = pc[u] /\ result'[u] = result[u]
         /\ pc'[t] \in {"queued", "done"}
  BY DEF End, RetryOrGiveUp, Leave, TypeInv, TypeOK

\* A task that stops where it is: what it was sending may have arrived, a success it
\* held is forgotten, and otherwise Outbox sees nothing.
LEMMA OutboxAbandon ==
  ASSUME OutboxInv, NEW t \in Tasks, Running(t), Abandon(t), UNCHANGED <<sub, log>>,
         pc'[t] \in {"queued", "done"},
         \A u \in Tasks : u # t => pc'[u] = pc[u] /\ result'[u] = result[u]
  PROVE  [Out!Next]_Out!vars
<1> DEFINE p == PairOf[t]
<1>1. p \in Pairs
  BY DeliveryAssumption
<1>2. Gone' = Gone
  BY DEF Gone
<1>3. \A q \in Pairs : q # p => SameFor(q)
  BY OthersSame DEF OutboxInv
<1>4. CASE Holds(t)
  <2>1. PairState(p)' = "open"
    <3>1. ~log[p].succeeded /\ \A u \in Tasks : Holds(u) /\ PairOf[u] = p => u = t
      BY <1>4, HolderIsOpen DEF OutboxInv, SenderInv, OneSender
    <3> QED
      BY <3>1 DEF PairState, Holds
  <2>2. CASE pc[t] = "sending"
    <3>1. Out!Move(p, "sending", "open")
      BY <1>1, <1>3, <1>4, <2>1, <2>2, HeldState, OutboxMove
    <3>2. \/ UNCHANGED history
          \/ /\ accepted' = [accepted EXCEPT ![p] = @ + 1]
             /\ losses' = [losses EXCEPT ![p] = @ + 1]
      BY <2>2 DEF Abandon
    <3>3. Out!GiveUp(p) \/ Out!ArriveUnnoticed(p)
      BY <1>2, <3>1, <3>2 DEF Out!GiveUp, Out!ArriveUnnoticed, Out!Count, Gone, history
    <3> QED
      BY <1>1, <3>3 DEF Out!Next, Out!Pairs, Pairs
  <2>3. CASE HoldsSuccess(t)
    <3>1. Out!Move(p, "arrived", "open")
      BY <1>1, <1>3, <1>4, <2>1, <2>3, HeldState, OutboxMove DEF HoldsSuccess
    <3>2. UNCHANGED accepted /\ losses' = [losses EXCEPT ![p] = @ + 1]
      BY <2>3 DEF Abandon, HoldsSuccess
    <3>3. Out!Forget(p)
      BY <1>2, <3>1, <3>2 DEF Out!Forget, Out!Count, Gone
    <3> QED
      BY <1>1, <3>3 DEF Out!Next, Out!Pairs, Pairs
  <2>4. CASE pc[t] # "sending" /\ ~HoldsSuccess(t)
    <3>1. PairState(p) = "open"
      BY <1>4, <2>4, HeldState
    <3>2. SameFor(p)
      <4>1. \A u \in Tasks : u # t /\ PairOf[u] = p => ~Holds(u)
        BY <1>4 DEF OutboxInv, SenderInv, OneSender
      <4> QED
        BY <2>4, <4>1 DEF SameFor, HoldsSuccess, Holds
    <3>3. UNCHANGED history
      BY <2>4 DEF Abandon, HoldsSuccess
    <3> QED
      BY <1>2, <1>3, <3>2, <3>3, OutboxStutter
  <2> QED
    BY <2>2, <2>3, <2>4
<1>5. CASE ~Holds(t)
  <2>1. SameFor(p)
    BY <1>5 DEF SameFor, HoldsSuccess, Holds
  <2>2. UNCHANGED history
    BY <1>5 DEF Abandon, Holds, HoldsSuccess
  <2> QED
    BY <1>2, <1>3, <2>1, <2>2, OutboxStutter
<1> QED
  BY <1>4, <1>5

\* Every step of deliver and its environment is a step of Outbox or changes nothing there.
LEMMA OutboxStep ==
  ASSUME LeaseCoversAttempt, OutboxInv, [Next]_vars
  PROVE  [Out!Next]_Out!vars
<1> USE DEF OutboxInv
<1>1. ASSUME NEW t \in Tasks, Enqueue(t) \/ ReadClock(t) PROVE [Out!Next]_Out!vars
  <2>1. \A p \in Pairs : SameFor(p)
    BY <1>1 DEF Enqueue, ReadClock, Goto, SameFor, HoldsSuccess, TypeInv, TypeOK
  <2> QED
    BY <1>1, <2>1, OutboxStutter DEF Enqueue, ReadClock, Gone
<1>2. ASSUME NEW t \in Tasks, Load(t) PROVE [Out!Next]_Out!vars
  <2>1. \A p \in Pairs : SameFor(p)
    <3>1. CASE End(t, "gone")
      BY <1>2, <3>1, OnlyOneMoves DEF Load, SameFor, HoldsSuccess
    <3>2. CASE Goto(t, "loaded")
      BY <1>2, <3>2 DEF Load, Goto, SameFor, HoldsSuccess, TypeInv, TypeOK
    <3> QED
      BY <1>2, <3>1, <3>2 DEF Load
  <2> QED
    BY <1>2, <2>1, OutboxStutter DEF Load, Gone
<1>3. ASSUME NEW t \in Tasks, Claim(t) PROVE [Out!Next]_Out!vars
  <2> DEFINE p == PairOf[t]
  <2>1. p \in Pairs
    BY DeliveryAssumption
  <2>2. pc[t] = "claiming" /\ UNCHANGED <<sub, history>> /\ Gone' = Gone
    BY <1>3 DEF Claim, Gone
  <2>3. CASE UNCHANGED log /\ \E why : End(t, why) \/ RetryOrGiveUp(t, why)
    <3>1. \A q \in Pairs : SameFor(q)
      BY <2>2, <2>3, OnlyOneMoves DEF SameFor, HoldsSuccess
    <3> QED
      BY <2>2, <3>1, OutboxStutter
  <2>4. CASE /\ sub[p[1]] # "deleted"
             /\ ~Delivered(p)
             /\ ~Leased(t)
             /\ log' = [log EXCEPT ![p] = [stored |-> TRUE, succeeded |-> @.succeeded,
                                           attempts |-> @.attempts, left |-> Lease - age[t]]]
             /\ pc' = [pc EXCEPT ![t] = "sending"]
             /\ age' = [age EXCEPT ![t] = 0]
             /\ UNCHANGED <<result, retries, wait, ran>>
    <3>1. ~(log[p].left > 0)
      <4>1. log[p].left \in Int /\ age[t] \in Nat
        BY <2>1, DeliveryAssumption DEF TypeInv, TypeOK, LogRows, NoLease
      <4> QED
        BY <2>4, <4>1 DEF Leased
    <3>2. \A u \in Tasks : Holds(u) => PairOf[u] # p
      BY <2>4, <3>1, HolderIsAhead
    <3>3. PairState(p) = "open"
      BY <2>1, <2>4, <3>2, UnheldState DEF Delivered
    <3>4. PairState(p)' = "sending"
      <4>1. ~log'[p].succeeded /\ pc'[t] = "sending"
        BY <2>1, <2>4 DEF Delivered, TypeInv, TypeOK
      <4> QED
        BY <4>1 DEF PairState
    <3>5. \A q \in Pairs : q # p => SameFor(q)
      <4>1. \A q \in Pairs : q # p => log'[q] = log[q]
        BY <2>4 DEF TypeInv, TypeOK
      <4>2. \A u \in Tasks : u # t => pc'[u] = pc[u] /\ result'[u] = result[u]
        BY <2>4 DEF TypeInv, TypeOK
      <4> QED
        BY <4>1, <4>2, OthersSame
    <3>6. Out!Move(p, "open", "sending")
      BY <2>1, <3>3, <3>4, <3>5, OutboxMove
    <3>7. Out!Begin(p)
      BY <2>2, <2>4, <3>6 DEF Out!Begin, Gone, history
    <3> QED
      BY <2>1, <3>7 DEF Out!Next, Out!Pairs, Pairs
  <2> QED
    BY <1>3, <2>3, <2>4 DEF Claim
<1>4. ASSUME NEW t \in Tasks, Send(t) PROVE [Out!Next]_Out!vars
  <2> DEFINE p == PairOf[t]
  <2>1. p \in Pairs /\ Holds(t) /\ ~log[p].succeeded
    BY <1>4, HolderIsOpen DEF Send, Holds
  <2>2. UNCHANGED <<sub, log>> /\ Gone' = Gone
    BY <1>4 DEF Send, Gone
  <2>3. PairState(p) = "sending"
    BY <1>4, <2>1, HeldState DEF Send
  <2>4. \A u \in Tasks : u # t => pc'[u] = pc[u] /\ result'[u] = result[u]
    BY <1>4 DEF Send, TypeInv, TypeOK
  <2>5. \A q \in Pairs : q # p => SameFor(q)
    BY <2>2, <2>4, OthersSame
  <2>6. \A u \in Tasks : u # t /\ PairOf[u] = p => ~Holds(u)
    BY <2>1 DEF SenderInv, OneSender
  <2>7. PICK answer \in Answers :
          \E took \in Took(answer) :
            /\ result' = [result EXCEPT ![t] = answer]
            /\ accepted' = IF took THEN [accepted EXCEPT ![p] = @ + 1] ELSE accepted
            /\ losses' = IF took /\ answer # "ok"
                         THEN [losses EXCEPT ![p] = @ + 1] ELSE losses
    BY <1>4 DEF Send
  <2>8. result'[t] = answer /\ pc'[t] = "recording"
    BY <1>4, <2>7 DEF Send, TypeInv, TypeOK
  <2>9. PairState(p)' = IF answer = "ok" THEN "arrived" ELSE "open"
    BY <2>1, <2>2, <2>4, <2>6, <2>8 DEF PairState, Holds
  <2>10. Out!Move(p, "sending", IF answer = "ok" THEN "arrived" ELSE "open")
    BY <2>1, <2>3, <2>5, <2>9, OutboxMove
  <2>11. CASE answer = "ok"
    <3>1. Took(answer) = {TRUE}
      BY <2>11 DEF Took
    <3>2. accepted' = [accepted EXCEPT ![p] = @ + 1] /\ losses' = losses
      BY <2>7, <2>11, <3>1
    <3>3. Out!Arrive(p)
      BY <2>2, <2>10, <2>11, <3>2 DEF Out!Arrive, Out!Count, Gone
    <3> QED
      BY <2>1, <3>3 DEF Out!Next, Out!Pairs, Pairs
  <2>12. CASE answer # "ok"
    <3>1. \/ accepted' = accepted /\ losses' = losses
          \/ /\ accepted' = [accepted EXCEPT ![p] = @ + 1]
             /\ losses' = [losses EXCEPT ![p] = @ + 1]
      BY <2>7, <2>12
    <3>2. Out!GiveUp(p) \/ Out!ArriveUnnoticed(p)
      BY <2>2, <2>10, <2>12, <3>1 DEF Out!GiveUp, Out!ArriveUnnoticed, Out!Count, Gone
    <3> QED
      BY <2>1, <3>2 DEF Out!Next, Out!Pairs, Pairs
  <2> QED
    BY <2>11, <2>12
<1>5. ASSUME NEW t \in Tasks, Record(t) PROVE [Out!Next]_Out!vars
  <2> DEFINE p == PairOf[t]
  <2>1. p \in Pairs /\ Holds(t) /\ pc[t] = "recording" /\ ~log[p].succeeded
    BY <1>5, HolderIsOpen DEF Record, Holds
  <2>2. UNCHANGED <<sub, history>> /\ Gone' = Gone
    BY <1>5 DEF Record, Gone
  <2>3. /\ \A u \in Tasks : u # t => pc'[u] = pc[u] /\ result'[u] = result[u]
        /\ pc'[t] \in {"queued", "done"}
    BY <1>5, OnlyOneMoves DEF Record
  <2>4. \A q \in Pairs : q # p => log'[q] = log[q]
    BY <1>5 DEF Record, TypeInv, TypeOK
  <2>5. \A q \in Pairs : q # p => SameFor(q)
    BY <2>3, <2>4, OthersSame
  <2>6. \A u \in Tasks : PairOf[u] = p => ~Holds(u)'
    BY <2>1, <2>3 DEF Holds, SenderInv, OneSender
  <2>7. CASE HoldsSuccess(t) /\ sub[p[1]] # "deleted"
    <3>1. Recordable(log[p])
      BY <2>1, <2>7, HolderIsAhead DEF Recordable
    <3>2. log'[p].succeeded
      BY <1>5, <2>1, <2>7, <3>1 DEF Record, HoldsSuccess, TypeInv, TypeOK
    <3>3. PairState(p) = "arrived" /\ PairState(p)' = "delivered"
      BY <2>1, <2>7, <3>2, HeldState DEF PairState
    <3>4. Out!Move(p, "arrived", "delivered")
      BY <2>1, <2>5, <3>3, OutboxMove
    <3>5. Out!Confirm(p)
      BY <2>2, <3>4 DEF Out!Confirm, Gone, history
    <3> QED
      BY <2>1, <3>5 DEF Out!Next, Out!Pairs, Pairs
  <2>8. CASE HoldsSuccess(t) /\ sub[p[1]] = "deleted"
    <3>1. log' = log
      BY <1>5, <2>1, <2>8 DEF Record, Recordable, RowInv
    <3>2. PairState(p) = "arrived" /\ PairState(p)' = "open"
      BY <2>1, <2>6, <2>8, <3>1, HeldState DEF PairState, Holds
    <3>3. Out!Move(p, "arrived", "open")
      BY <2>1, <2>5, <3>2, OutboxMove
    <3>4. p[1] \in Gone
      BY <2>1, <2>8 DEF Gone, Pairs
    <3>5. Out!Forget(p)
      BY <2>2, <3>3, <3>4 DEF Out!Forget, Gone, history
    <3> QED
      BY <2>1, <3>5 DEF Out!Next, Out!Pairs, Pairs
  <2>9. CASE ~HoldsSuccess(t)
    <3>1. ~log'[p].succeeded
      BY <1>5, <2>1, <2>9 DEF Record, HoldsSuccess, TypeInv, TypeOK
    <3>2. SameFor(p)
      BY <2>1, <2>3, <2>9, <3>1 DEF SameFor, HoldsSuccess
    <3> QED
      BY <2>2, <2>5, <3>2, OutboxStutter
  <2> QED
    BY <2>7, <2>8, <2>9
<1>6. ASSUME NEW t \in Tasks, Fail(t) \/ Kill(t) PROVE [Out!Next]_Out!vars
  BY <1>6, OnlyOneMoves, OutboxAbandon DEF Fail, Kill, Running, RunningPcs
<1>7. ASSUME NEW t \in Tasks, Crash(t) PROVE [Out!Next]_Out!vars
  <2>1. /\ \A u \in Tasks : u # t => pc'[u] = pc[u] /\ result'[u] = result[u]
        /\ pc'[t] = "queued"
    BY <1>7 DEF Crash, Leave, TypeInv, TypeOK
  <2> QED
    BY <1>7, <2>1, OutboxAbandon DEF Crash
<1>8. CASE Tick
  <2>1. \A p \in Pairs : SameFor(p)
    BY <1>8 DEF Tick, SameFor, HoldsSuccess
  <2> QED
    BY <1>8, <2>1, OutboxStutter DEF Tick, Gone
<1>9. ASSUME NEW s \in Subs, Pause(s) \/ Resume(s) PROVE [Out!Next]_Out!vars
  <2>1. \A p \in Pairs : SameFor(p)
    BY <1>9 DEF Pause, Resume, taskVars, SameFor, HoldsSuccess
  <2>2. Gone' = Gone
    BY <1>9 DEF Pause, Resume, Gone, TypeInv, TypeOK
  <2> QED
    BY <1>9, <2>1, <2>2, OutboxStutter DEF Pause, Resume
<1>10. ASSUME NEW s \in Subs, Delete(s) PROVE [Out!Next]_Out!vars
  <2>1. Gone' = Gone \union {s}
    BY <1>10 DEF Delete, Gone, TypeInv, TypeOK
  <2>2. UNCHANGED <<pc, result, history>>
    BY <1>10 DEF Delete, taskVars
  <2>3. ASSUME NEW p \in Pairs
        PROVE  PairState(p)' = IF p[1] = s /\ PairState(p) = "delivered"
                               THEN "open" ELSE PairState(p)
    <3>1. CASE p[1] # s
      <4>1. log'[p] = log[p]
        BY <1>10, <3>1 DEF Delete
      <4> QED
        BY <2>2, <3>1, <4>1 DEF PairState
    <3>2. CASE p[1] = s /\ ~log[p].succeeded
      <4>1. ~log'[p].succeeded
        BY <1>10, <3>2 DEF Delete, NoRow
      <4> QED
        BY <2>2, <3>2, <4>1 DEF PairState
    <3>3. CASE p[1] = s /\ log[p].succeeded
      <4>1. ~log'[p].succeeded
        BY <1>10, <3>3 DEF Delete, NoRow
      <4>2. \A t \in Tasks : Holds(t) => PairOf[t] # p
        BY <3>3, HolderIsOpen
      <4> QED
        BY <2>2, <3>3, <4>1, <4>2 DEF PairState, Holds
    <3> QED
      BY <3>1, <3>2, <3>3
  <2>4. PairStates' = [p \in Pairs |-> IF p[1] = s /\ PairStates[p] = "delivered"
                                       THEN "open" ELSE PairStates[p]]
    BY <2>3 DEF PairStates
  <2>5. Out!Cancel(s)
    BY <2>1, <2>2, <2>4 DEF Out!Cancel, Out!Pairs, Pairs, PairStates, Gone, history
  <2> QED
    BY <2>5 DEF Out!Next
<1>11. ASSUME NEW a \in Arts, Hide(a) PROVE [Out!Next]_Out!vars
  BY <1>11, OutboxStutter DEF Hide, taskVars, SameFor, HoldsSuccess, Gone
<1>12. CASE UNCHANGED vars
  BY <1>12, OutboxStutter DEF vars, taskVars, SameFor, HoldsSuccess, Gone
<1> QED
  BY <1>1, <1>2, <1>3, <1>4, <1>5, <1>6, <1>7, <1>8, <1>9, <1>10, <1>11, <1>12
  DEF Next, Step

\* When the hard time limit is below the lease, deliver implements Outbox: whatever
\* messages are queued, retried, redelivered or killed, the receiver of a pair sees
\* one sender that stops once a success is logged.
THEOREM Refinement == LeaseCoversAttempt => (Spec => ImplementsOutbox)
<1> SUFFICES ASSUME LeaseCoversAttempt PROVE Spec => ImplementsOutbox
  OBVIOUS
<1>1. Init => RowInv
  BY DEF Init, RowInv, NoRow
<1>2. TypeInv /\ RowInv /\ [Next]_vars => RowInv'
  BY RowStep
<1>3. Init => Out!Init
  <2> SUFFICES ASSUME Init PROVE Out!Init
    OBVIOUS
  <2>1. \A p \in Pairs : PairState(p) = "open"
    BY DeliveryAssumption DEF Init, PairState, NoRow
  <2>2. PairStates = [p \in Pairs |-> "open"] /\ Gone = {}
    BY <2>1 DEF PairStates, Gone, Init
  <2> QED
    BY <2>2 DEF Init, Out!Init, Out!Pairs, Pairs, PairStates, Gone
<1>4. TypeInv /\ SenderInv /\ RowInv /\ [Next]_vars => [Out!Next]_Out!vars
  BY OutboxStep DEF OutboxInv
<1> QED
  BY <1>1, <1>2, <1>3, <1>4, TypeInvariant, SenderInvariant, PTL DEF Spec, ImplementsOutbox, Out!Spec

(***************************************************************************)
(* The steps of a message.                                                 *)
(***************************************************************************)
\* What is left of a message never goes below zero.
LEMMA StepsLeftType ==
  ASSUME TypeOK, NEW t \in Tasks
  PROVE  /\ StepsOf[pc[t]] \in 0..6 /\ retries[t] \in 0..MaxRetries /\ crashes \in 0..MaxCrashes
         /\ MaxRetries \in Nat /\ MaxCrashes \in Nat
<1>1. pc[t] \in {"idle", "queued", "done", "loaded", "claiming", "sending", "recording"}
  BY DEF TypeOK, RunningPcs
<1>2. StepsOf[pc[t]] \in 0..6
  BY <1>1 DEF StepsOf
<1> QED
  BY <1>2, DeliveryAssumption DEF TypeOK

\* A message that moves on to a later statement, or ends.
Onward(t) ==
  /\ StepsOf[pc'[t]] < StepsOf[pc[t]]
  /\ retries'[t] = retries[t] /\ crashes' = crashes

\* A message that goes back to the queue, for a retry or after a crash.
Again(t) ==
  /\ StepsOf[pc[t]] >= 1 /\ StepsOf[pc'[t]] = 5
  /\ \/ retries'[t] = retries[t] + 1 /\ crashes' = crashes
     \/ retries'[t] = retries[t] /\ crashes' = crashes + 1

\* A message that another step leaves alone, but for a crash of another worker.
Rests(t) ==
  /\ pc'[t] = pc[t] /\ retries'[t] = retries[t]
  /\ crashes' \in {crashes, crashes + 1}

\* What any step does to a message.
RunsOut(t) == \/ StepsLeft(t)' \in 0..StepsLeft(t) - 1
              \/ pc'[t] = pc[t] /\ StepsLeft(t)' = StepsLeft(t)

\* Each of the three lets the steps of the message run out.
LEMMA RunsOutIf ==
  ASSUME TypeOK, TypeOK', NEW t \in Tasks, Onward(t) \/ Again(t) \/ Rests(t)
  PROVE  RunsOut(t)
<1> DEFINE a == StepsOf[pc[t]]
           b == StepsOf[pc'[t]]
           q == retries[t]
           r == retries'[t]
           c == crashes
           d == crashes'
<1>1. a \in 0..6 /\ q \in 0..MaxRetries /\ c \in 0..MaxCrashes /\ MaxRetries \in Nat /\ MaxCrashes \in Nat
  BY StepsLeftType
<1>2. b \in 0..6 /\ r \in 0..MaxRetries /\ d \in 0..MaxCrashes
  <2>1. pc'[t] \in {"idle", "queued", "done", "loaded", "claiming", "sending", "recording"}
    BY DEF TypeOK, RunningPcs
  <2>2. b \in 0..6
    BY <2>1 DEF StepsOf
  <2> QED
    BY <2>2 DEF TypeOK
<1>3. /\ StepsLeft(t) = a + 5 * (MaxRetries - q) + 5 * (MaxCrashes - c)
      /\ StepsLeft(t)' = b + 5 * (MaxRetries - r) + 5 * (MaxCrashes - d)
  BY DEF StepsLeft, StepsOf
<1>4. \/ b < a /\ r = q /\ d = c
      \/ a >= 1 /\ b = 5 /\ ((r = q + 1 /\ d = c) \/ (r = q /\ d = c + 1))
      \/ pc'[t] = pc[t] /\ b = a /\ r = q /\ d \in {c, c + 1}
  <2>1. CASE Onward(t)
    BY <2>1 DEF Onward
  <2>2. CASE Again(t)
    BY <2>2 DEF Again
  <2>3. CASE Rests(t)
    BY <2>3 DEF Rests
  <2> QED
    BY <2>1, <2>2, <2>3
<1> HIDE DEF a, b, q, r, c, d
<1> QED
  BY <1>1, <1>2, <1>3, <1>4 DEF RunsOut

\* Leaving a worker and ending, as far as the steps are concerned.
LEMMA EndIsOnward ==
  ASSUME TypeOK, NEW t \in Tasks, NEW why, End(t, why), pc[t] # "done", UNCHANGED crashes
  PROVE  Onward(t) /\ \A u \in Tasks \ {t} : Rests(u)
<1>1. pc[t] \in {"idle", "queued", "loaded", "claiming", "sending", "recording"}
  BY DEF TypeOK, RunningPcs
<1>2. pc' = [pc EXCEPT ![t] = "done"] /\ retries' = retries
  BY DEF End, Leave
<1>3. pc'[t] = "done" /\ \A u \in Tasks \ {t} : pc'[u] = pc[u]
  BY <1>2 DEF TypeOK
<1>4. StepsOf["done"] < StepsOf[pc[t]]
  BY <1>1 DEF StepsOf
<1> QED
  BY <1>2, <1>3, <1>4 DEF Onward, Rests

\* A retry is counted.
LEMMA RetryIsAgain ==
  ASSUME TypeOK, NEW t \in Tasks, NEW why, RetryOrGiveUp(t, why),
         pc[t] \in RunningPcs, UNCHANGED crashes
  PROVE  (Onward(t) \/ Again(t)) /\ \A u \in Tasks \ {t} : Rests(u)
<1>1. CASE End(t, why)
  <2>1. pc[t] # "done"
    BY DEF RunningPcs
  <2> QED
    BY <1>1, <2>1, EndIsOnward
<1>2. CASE Leave(t, "queued") /\ retries' = [retries EXCEPT ![t] = @ + 1]
  <2>1. /\ pc'[t] = "queued" /\ \A u \in Tasks \ {t} : pc'[u] = pc[u]
        /\ retries'[t] = retries[t] + 1 /\ \A u \in Tasks \ {t} : retries'[u] = retries[u]
    BY <1>2 DEF Leave, TypeOK
  <2>2. StepsOf[pc[t]] >= 1 /\ StepsOf["queued"] = 5
    BY DEF RunningPcs, StepsOf
  <2> QED
    BY <2>1, <2>2 DEF Again, Rests
<1> QED
  BY <1>1, <1>2 DEF RetryOrGiveUp

\* Going on to a later statement.
LEMMA MoveIsOnward ==
  ASSUME TypeOK, NEW t \in Tasks, NEW next, pc' = [pc EXCEPT ![t] = next],
         StepsOf[next] < StepsOf[pc[t]], UNCHANGED <<retries, crashes>>
  PROVE  Onward(t) /\ \A u \in Tasks \ {t} : Rests(u)
<1>1. pc'[t] = next /\ \A u \in Tasks \ {t} : pc'[u] = pc[u]
  BY DEF TypeOK
<1> QED
  BY <1>1 DEF Onward, Rests

\* Every step is one of the three for every message.
LEMMA StepRunsOut ==
  ASSUME TypeOK, Next
  PROVE  \A t \in Tasks : Onward(t) \/ Again(t) \/ Rests(t)
<1> DEFINE Goal == \A t \in Tasks : Onward(t) \/ Again(t) \/ Rests(t)
<1>a. ASSUME UNCHANGED <<pc, retries, crashes>> PROVE Goal
  BY <1>a DEF Rests
<1>b. ASSUME NEW t \in Tasks, (Onward(t) \/ Again(t)) /\ \A u \in Tasks \ {t} : Rests(u) PROVE Goal
  BY <1>b
<1> HIDE DEF Goal
<1>1. ASSUME NEW t \in Tasks, Enqueue(t) PROVE Goal
  <2>1. /\ pc' = [pc EXCEPT ![t] = "queued"] /\ StepsOf["queued"] < StepsOf[pc[t]]
        /\ UNCHANGED <<retries, crashes>>
    BY <1>1 DEF Enqueue, Goto, StepsOf
  <2> QED
    BY <1>b, <2>1, MoveIsOnward
<1>2. ASSUME NEW t \in Tasks, Load(t) PROVE Goal
  <2>1. CASE Goto(t, "loaded")
    <3>1. /\ pc' = [pc EXCEPT ![t] = "loaded"] /\ StepsOf["loaded"] < StepsOf[pc[t]]
          /\ UNCHANGED <<retries, crashes>>
      BY <1>2, <2>1 DEF Load, Goto, StepsOf
    <3> QED
      BY <1>b, <3>1, MoveIsOnward
  <2>2. CASE End(t, "gone")
    <3>1. pc[t] # "done" /\ UNCHANGED crashes
      BY <1>2 DEF Load
    <3> QED
      BY <1>b, <2>2, <3>1, EndIsOnward
  <2> QED
    BY <1>2, <2>1, <2>2 DEF Load
<1>3. ASSUME NEW t \in Tasks, ReadClock(t) PROVE Goal
  <2>1. /\ pc' = [pc EXCEPT ![t] = "claiming"] /\ StepsOf["claiming"] < StepsOf[pc[t]]
        /\ UNCHANGED <<retries, crashes>>
    BY <1>3 DEF ReadClock, StepsOf
  <2> QED
    BY <1>b, <2>1, MoveIsOnward
<1>4. ASSUME NEW t \in Tasks, Claim(t) PROVE Goal
  <2>1. pc[t] = "claiming" /\ pc[t] # "done" /\ pc[t] \in RunningPcs /\ UNCHANGED crashes
    BY <1>4 DEF Claim, RunningPcs
  <2>2. CASE End(t, "error") \/ End(t, "deduped")
    BY <1>b, <2>1, <2>2, EndIsOnward
  <2>3. CASE RetryOrGiveUp(t, "in flight")
    BY <1>b, <2>1, <2>3, RetryIsAgain
  <2>4. CASE pc' = [pc EXCEPT ![t] = "sending"] /\ UNCHANGED retries
    <3>1. StepsOf["sending"] < StepsOf[pc[t]]
      BY <2>1 DEF StepsOf
    <3> QED
      BY <1>b, <2>1, <2>4, <3>1, MoveIsOnward
  <2> QED
    BY <1>4, <2>2, <2>3, <2>4 DEF Claim
<1>5. ASSUME NEW t \in Tasks, Send(t) PROVE Goal
  <2>1. /\ pc' = [pc EXCEPT ![t] = "recording"] /\ StepsOf["recording"] < StepsOf[pc[t]]
        /\ UNCHANGED <<retries, crashes>>
    BY <1>5 DEF Send, StepsOf
  <2> QED
    BY <1>b, <2>1, MoveIsOnward
<1>6. ASSUME NEW t \in Tasks, Record(t) PROVE Goal
  <2>1. pc[t] # "done" /\ pc[t] \in RunningPcs /\ UNCHANGED crashes
    BY <1>6 DEF Record, RunningPcs
  <2>2. CASE RetryOrGiveUp(t, "exhausted")
    BY <1>b, <2>1, <2>2, RetryIsAgain
  <2>3. CASE End(t, result[t])
    BY <1>b, <2>1, <2>3, EndIsOnward
  <2> QED
    BY <1>6, <2>2, <2>3 DEF Record
<1>7. ASSUME NEW t \in Tasks, Fail(t) \/ Kill(t) PROVE Goal
  <2>1. pc[t] # "done" /\ UNCHANGED crashes /\ (End(t, "error") \/ End(t, "killed"))
    BY <1>7 DEF Fail, Kill, Running, RunningPcs
  <2> QED
    BY <1>b, <2>1, EndIsOnward
<1>8. ASSUME NEW t \in Tasks, Crash(t) PROVE Goal
  <2>1. /\ pc' = [pc EXCEPT ![t] = "queued"] /\ retries' = retries /\ crashes' = crashes + 1
        /\ pc[t] \in RunningPcs
    BY <1>8 DEF Crash, Leave, Running
  <2>2. pc'[t] = "queued" /\ \A u \in Tasks \ {t} : pc'[u] = pc[u]
    BY <2>1 DEF TypeOK
  <2>3. StepsOf[pc[t]] >= 1 /\ StepsOf["queued"] = 5
    BY <2>1 DEF RunningPcs, StepsOf
  <2>4. Again(t) /\ \A u \in Tasks \ {t} : Rests(u)
    BY <2>1, <2>2, <2>3 DEF Again, Rests
  <2> QED
    BY <1>b, <2>4
<1>9. ASSUME \/ Tick
             \/ \E s \in Subs : Pause(s) \/ Resume(s) \/ Delete(s)
             \/ \E x \in Arts : Hide(x)
      PROVE  Goal
  <2>1. UNCHANGED <<pc, retries, crashes>>
    BY <1>9 DEF Tick, Pause, Resume, Delete, Hide, taskVars
  <2> QED
    BY <1>a, <2>1
<1>10. Goal
  BY <1>1, <1>2, <1>3, <1>4, <1>5, <1>6, <1>7, <1>8, <1>9 DEF Next, Step
<1> QED
  BY <1>10 DEF Goal

\* deliver: a message has finitely many steps, for any number of messages, retries
\* and crashes: whatever moves it leaves it fewer, and nothing others do, such as
\* holding the lease of its pair, gives it more.
THEOREM AttemptsRunOutAlways == Spec => AttemptsRunOut
<1>1. TypeInv /\ TypeInv' /\ [Next]_vars => [\A t \in Tasks : RunsOut(t)]_vars
  <2> SUFFICES ASSUME TypeInv, TypeInv', Next PROVE \A t \in Tasks : RunsOut(t)
    OBVIOUS
  <2>1. TypeOK /\ TypeOK'
    BY DEF TypeInv
  <2> QED
    BY <2>1, StepRunsOut, RunsOutIf
<1>2. TypeInv /\ TypeInv' /\ [Next]_vars
        => [\A t \in Tasks : \/ StepsLeft(t)' \in 0..StepsLeft(t) - 1
                             \/ pc'[t] = pc[t] /\ StepsLeft(t)' = StepsLeft(t)]_vars
  BY <1>1 DEF RunsOut
<1> QED
  BY <1>2, TypeInvariant, PTL DEF Spec, AttemptsRunOut
=============================================================================
