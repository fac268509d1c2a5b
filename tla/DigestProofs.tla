---------------------------- MODULE DigestProofs ----------------------------
(***************************************************************************)
(* Proofs about module Digest, for any number of subscriptions, articles,  *)
(* digests and requests, and any bounds.                                   *)
(***************************************************************************)
EXTENDS Digest, TLAPS

-----------------------------------------------------------------------------
(* Types *)

\* last_notified_at never lies ahead of the clock.
Past(now) == (0..now) \union {Null}

ArticlesOK ==
  /\ clock \in Times
  /\ created \in [Arts -> 0..clock]
  /\ visible \in SUBSET Arts
  /\ fanned \in SUBSET visible
  /\ \A a \in visible : 0 < created[a]

RowsOK ==
  /\ state \in [Subs -> {"active", "paused", "deleted"}]
  /\ interval \in [Subs -> {"instant", "daily"}]
  /\ last \in [Subs -> Past(clock)]
  /\ reporting \in SUBSET Subs
  /\ origin \in [Subs -> -Day..MaxTime]

\* The lower end of the window a digest sends is the one its loaded row gives.
RunOK(r, now) ==
  /\ r.now <= now
  /\ \A s \in Subs : r.loaded[s] \in Past(now)
  /\ r.pc = "sending" =>
       /\ r.sub \in r.todo
       /\ r.since = IF r.loaded[r.sub] = Null THEN r.now - Day ELSE r.loaded[r.sub]

RunsOK == run \in [Runs -> RunStates] /\ \A d \in Runs : RunOK(run[d], clock)

PatchOK(p, now) == p.last \in Past(now) /\ (p.pc = "loaded" => p.sub \in Subs)

PatchesOK == patch \in [Requests -> PatchStates] /\ \A r \in Requests : PatchOK(patch[r], clock)

CountsOK ==
  /\ crashes \in 0..MaxCrashes
  /\ queued \in SUBSET Pairs
  /\ cut \in SUBSET Pairs
  /\ late \in SUBSET Pairs

TypeInv == ArticlesOK /\ RowsOK /\ RunsOK /\ PatchesOK /\ CountsOK

\* The clock goes on.
Later == clock' \in Times /\ clock <= clock'

\* What was in the past stays there.
LEMMA LaterPast ==
  ASSUME TypeInv, Later
  PROVE  /\ clock \in Nat /\ clock' \in Nat /\ 0..clock \subseteq 0..clock' /\ Past(clock) \subseteq Past(clock')
         /\ Past(clock') \subseteq LastValues
  BY DigestAssumption DEF TypeInv, ArticlesOK, Later, Past, Times, LastValues

\* A time just read is in the past from then on.
LEMMA LaterRead ==
  ASSUME TypeInv, ReadClock
  PROVE  Later /\ clock' = clock + 1 /\ clock' \in Past(clock') /\ clock' \in 0..clock'
  BY DigestAssumption DEF TypeInv, ArticlesOK, Later, ReadClock, Times, Past

\* A step that does not read the clock leaves it where it is.
LEMMA LaterSame ==
  ASSUME TypeInv, UNCHANGED clock
  PROVE  Later
  BY DigestAssumption DEF TypeInv, ArticlesOK, Later, Times

\* Articles, rows, digests and patches that a step leaves alone stay in their ranges, which grow
\* with the clock.
LEMMA ArticlesStay ==
  ASSUME TypeInv, Later, UNCHANGED <<created, visible, fanned>>
  PROVE  ArticlesOK'
  BY LaterPast DEF TypeInv, ArticlesOK, Later

\* The rows, if they do not change.
LEMMA RowsStay ==
  ASSUME TypeInv, Later, UNCHANGED <<state, interval, last, reporting, origin>>
  PROVE  RowsOK'
  BY LaterPast DEF TypeInv, RowsOK

\* The digests, if they do not change.
LEMMA RunsStay ==
  ASSUME TypeInv, Later, UNCHANGED run
  PROVE  RunsOK'
<1>1. \A d \in Runs : run[d].now \in Nat
  BY DigestAssumption DEF TypeInv, RunsOK, RunStates, Times
<1> QED
  BY <1>1, LaterPast DEF TypeInv, RunsOK, RunOK, Later

\* The requests, if they do not change.
LEMMA PatchesStay ==
  ASSUME TypeInv, Later, UNCHANGED patch
  PROVE  PatchesOK'
  BY LaterPast DEF TypeInv, PatchesOK, PatchOK

\* One digest changes, to a state it can be in.
LEMMA BecomeType ==
  ASSUME TypeInv, Later, NEW d \in Runs, NEW r \in RunStates, Become(d, r), RunOK(r, clock')
  PROVE  RunsOK'
<1>1. \A x \in Runs : run[x].now \in Nat
  BY DigestAssumption DEF TypeInv, RunsOK, RunStates, Times
<1>2. run' \in [Runs -> RunStates] /\ run'[d] = r /\ \A x \in Runs : x # d => run'[x] = run[x]
  BY DEF Become, TypeInv, RunsOK
<1>3. ASSUME NEW x \in Runs, x # d PROVE RunOK(run'[x], clock')
  BY <1>1, <1>2, <1>3, LaterPast DEF TypeInv, RunsOK, RunOK, Later
<1> QED
  BY <1>2, <1>3 DEF RunsOK

\* A digest that is not under way.
LEMMA IdleType ==
  ASSUME TypeInv, Later, NEW at \in {"idle", "queued", "loading", "done", "failed"},
         NEW now \in 0..clock'
  PROVE  /\ [Idle EXCEPT !.pc = at, !.now = now] \in RunStates
         /\ RunOK([Idle EXCEPT !.pc = at, !.now = now], clock')
<1>1. 0 \in -Day..MaxTime /\ now \in Times
  BY DigestAssumption DEF Later, Times
<1>2. [s \in Subs |-> Null] \in [Subs -> LastValues]
  BY DEF LastValues
<1>3. now <= clock'
  BY DigestAssumption DEF Later, Times
<1> QED
  BY <1>1, <1>2, <1>3 DEF Idle, RunStates, RunOK, Past

\* A digest that has not begun, or has ended.
LEMMA RestType ==
  ASSUME TypeInv, NEW at \in {"idle", "queued", "done", "failed"}
  PROVE  /\ [Idle EXCEPT !.pc = at] \in RunStates
         /\ RunOK([Idle EXCEPT !.pc = at], clock)
<1>1. 0 \in -Day..MaxTime /\ 0 \in Times /\ clock \in Nat
  BY DigestAssumption DEF Times, TypeInv, ArticlesOK
<1>2. [s \in Subs |-> Null] \in [Subs -> LastValues]
  BY DEF LastValues
<1> QED
  BY <1>1, <1>2 DEF Idle, RunStates, RunOK, Past

\* The lower end of a window is at most one day before the first reading of the clock.
LEMMA SinceType ==
  ASSUME TypeInv, NEW d \in Runs, NEW s \in Subs
  PROVE  Since(d, s) \in -Day..MaxTime
<1>1. run[d].now \in Times /\ run[d].loaded[s] \in LastValues
  BY DEF TypeInv, RunsOK, RunStates
<1> QED
  BY <1>1, DigestAssumption DEF Since, LastValues, Times

\* The steps of a digest.
LEMMA RunType ==
  ASSUME TypeInv, NEW d \in Runs,
         \/ Beat(d) \/ Start(d) \/ LoadSubs(d) \/ Match(d) \/ QueueOne(d)
         \/ Save(d) \/ Finish(d) \/ Fail(d) \/ Crash(d)
  PROVE  TypeInv'
<1>1. ArticlesOK /\ RowsOK /\ RunsOK /\ PatchesOK /\ CountsOK
  BY DEF TypeInv
<1>2. run[d] \in RunStates /\ RunOK(run[d], clock)
  BY <1>1 DEF RunsOK
<1>3. ASSUME UNCHANGED <<clock, articles, subRows, reporting, patch, origin>>
      PROVE  Later /\ ArticlesOK' /\ RowsOK' /\ PatchesOK'
  BY <1>3, LaterSame, ArticlesStay, RowsStay, PatchesStay DEF articles, subRows
<1>4. ASSUME UNCHANGED <<crashes, queued, cut, late>> PROVE CountsOK'
  BY <1>1, <1>4 DEF CountsOK
<1>5. CASE Beat(d)
  <2>1. UNCHANGED <<clock, articles, subRows, reporting, patch, origin, crashes, queued, cut, late>>
    BY <1>5 DEF Beat, history
  <2>2. RunsOK'
    BY <1>3, <1>5, <2>1, RestType, BecomeType DEF Beat
  <2> QED
    BY <1>3, <1>4, <2>1, <2>2 DEF TypeInv
<1>6. CASE Start(d)
  <2>1. /\ ReadClock /\ Become(d, [Idle EXCEPT !.pc = "loading", !.now = clock'])
        /\ UNCHANGED <<created, visible, fanned, state, interval, last, reporting, patch, origin,
                       crashes, queued, cut, late>>
    BY <1>6 DEF Start, articles, subRows, history
  <2>2. Later /\ clock' \in 0..clock'
    BY <2>1, LaterRead
  <2>3. RunsOK'
    BY <2>1, <2>2, IdleType, BecomeType
  <2> QED
    BY <1>4, <2>1, <2>2, <2>3, ArticlesStay, RowsStay, PatchesStay DEF TypeInv
<1>7. CASE LoadSubs(d)
  <2> DEFINE todo == {s \in Subs : state[s] = "active" /\ interval[s] = "daily"}
             r == [run[d] EXCEPT !.pc = "matching", !.loaded = last, !.todo = todo]
  <2>1. /\ UNCHANGED <<clock, articles, subRows, reporting, patch, origin, crashes, queued, cut, late>>
        /\ Become(d, r)
    BY <1>7 DEF LoadSubs, history
  <2>2. Later /\ last \in [Subs -> Past(clock)] /\ last \in [Subs -> LastValues] /\ clock' = clock
    BY <1>1, <1>3, <2>1, LaterPast DEF RowsOK, Past, LastValues, ArticlesOK, Times
  <2>3. r \in RunStates
    BY <1>2, <2>2 DEF RunStates
  <2>4. RunOK(r, clock')
    BY <1>2, <2>2 DEF RunStates, RunOK
  <2> HIDE DEF r
  <2>5. RunsOK'
    BY <2>1, <2>2, <2>3, <2>4, BecomeType
  <2> QED
    BY <1>3, <1>4, <2>1, <2>5 DEF TypeInv
<1>8. CASE Match(d)
  <2>1. PICK s \in run[d].todo, batch \in SUBSET visible :
          /\ run[d].pc = "matching" /\ batch \subseteq Window(d, s)
          /\ Become(d, [run[d] EXCEPT !.pc = "sending", !.sub = s,
                                      !.since = Since(d, s), !.batch = batch])
          /\ cut' = cut \union ({s} \X ((Window(d, s) \intersect visible) \ batch))
          /\ late' = late \union ({s} \X (Window(d, s) \ visible))
    BY <1>8 DEF Match
  <2>2. UNCHANGED <<clock, articles, subRows, reporting, patch, origin, crashes, queued>>
    BY <1>8 DEF Match
  <2>3. s \in Subs /\ batch \subseteq Arts /\ Window(d, s) \subseteq Arts
    BY <1>2, <2>1 DEF RunStates, Window
  <2> DEFINE r == [run[d] EXCEPT !.pc = "sending", !.sub = s, !.since = Since(d, s), !.batch = batch]
  <2>4. r \in RunStates
    BY <1>2, <2>3, SinceType DEF RunStates
  <2>5. RunOK(r, clock')
    BY <1>2, <2>1, <2>2 DEF RunStates, RunOK, Since
  <2> HIDE DEF r
  <2>6. RunsOK'
    BY <1>3, <2>1, <2>2, <2>4, <2>5, BecomeType DEF r
  <2>7. CountsOK'
    BY <1>1, <2>1, <2>2, <2>3 DEF CountsOK, Pairs
  <2> QED
    BY <1>3, <2>2, <2>6, <2>7 DEF TypeInv
<1>9. CASE QueueOne(d)
  <2>1. PICK a \in run[d].batch :
          /\ run[d].pc = "sending"
          /\ queued' = queued \union {<<run[d].sub, a>>}
          /\ Become(d, [run[d] EXCEPT !.batch = @ \ {a}])
    BY <1>9 DEF QueueOne
  <2>2. UNCHANGED <<clock, articles, subRows, reporting, patch, origin, crashes, cut, late>>
    BY <1>9 DEF QueueOne
  <2>3. run[d].sub \in Subs /\ a \in Arts
    BY <1>2, <2>1 DEF RunStates, RunOK
  <2> DEFINE r == [run[d] EXCEPT !.batch = @ \ {a}]
  <2>4. r \in RunStates
    BY <1>2 DEF RunStates
  <2>5. RunOK(r, clock')
    BY <1>2, <2>1, <2>2 DEF RunStates, RunOK
  <2> HIDE DEF r
  <2>6. RunsOK'
    BY <1>3, <2>1, <2>2, <2>4, <2>5, BecomeType DEF r
  <2>7. CountsOK'
    BY <1>1, <2>1, <2>2, <2>3 DEF CountsOK, Pairs
  <2> QED
    BY <1>3, <2>2, <2>6, <2>7 DEF TypeInv
<1>10. CASE Save(d)
  <2> DEFINE s == run[d].sub
             r == [run[d] EXCEPT !.pc = "matching", !.todo = @ \ {s}, !.sub = Null, !.since = 0]
  <2>1. UNCHANGED <<clock, articles, state, interval, reporting, patch, crashes, queued, cut, late>>
    BY <1>10 DEF Save
  <2>2. Later /\ ArticlesOK' /\ PatchesOK' /\ CountsOK'
    BY <1>4, <2>1, LaterSame, ArticlesStay, PatchesStay DEF articles
  <2>3. CASE /\ last' = [last EXCEPT ![s] = WindowEnd(d)]
             /\ origin' = [origin EXCEPT ![s] = IF run[d].loaded[s] = Null /\ run[d].since > @
                                                THEN run[d].since ELSE @]
             /\ Become(d, r)
    <3>1. r \in RunStates
      <4>1. 0 \in -Day..MaxTime
        BY DigestAssumption
      <4> QED
        BY <1>2, <4>1 DEF RunStates
    <3>2. RunOK(r, clock')
      BY <1>2, <2>1 DEF RunStates, RunOK
    <3> HIDE DEF r
    <3>3. RunsOK'
      BY <2>2, <2>3, <3>1, <3>2, BecomeType
    <3>4. WindowEnd(d) \in Past(clock) /\ run[d].since \in -Day..MaxTime
      BY <1>2, DigestAssumption DEF WindowEnd, RunStates, RunOK, Past, Times
    <3>5. RowsOK'
      <4>1. last' \in [Subs -> Past(clock)]
        BY <1>1, <2>3, <3>4 DEF RowsOK
      <4>2. origin' \in [Subs -> -Day..MaxTime]
        <5> DEFINE o == IF run[d].loaded[s] = Null /\ run[d].since > origin[s]
                        THEN run[d].since ELSE origin[s]
        <5>1. origin' = [origin EXCEPT ![s] = o]
          BY <2>3
        <5>2. s \in Subs => o \in -Day..MaxTime
          BY <1>1, <3>4 DEF RowsOK
        <5> HIDE DEF o, s
        <5> QED
          BY <1>1, <5>1, <5>2 DEF RowsOK
      <4> QED
        BY <1>1, <2>1, <4>1, <4>2 DEF RowsOK
    <3> QED
      BY <2>2, <3>3, <3>5 DEF TypeInv
  <2>4. CASE UNCHANGED <<last, origin>> /\ Become(d, [Idle EXCEPT !.pc = "failed"])
    <3>1. RunsOK'
      BY <2>1, <2>2, <2>4, RestType, BecomeType
    <3>2. RowsOK'
      BY <2>1, <2>2, <2>4, RowsStay
    <3> QED
      BY <2>2, <3>1, <3>2 DEF TypeInv
  <2> QED
    BY <1>10, <2>3, <2>4 DEF Save
<1>11. CASE Finish(d) \/ Fail(d)
  <2>1. UNCHANGED <<clock, articles, subRows, reporting, patch, origin, crashes, queued, cut, late>>
    BY <1>11 DEF Finish, Fail, history
  <2>2. PICK at \in {"done", "failed"} : Become(d, [Idle EXCEPT !.pc = at])
    BY <1>11 DEF Finish, Fail
  <2>3. RunsOK'
    BY <1>3, <2>1, <2>2, RestType, BecomeType
  <2> QED
    BY <1>3, <1>4, <2>1, <2>3 DEF TypeInv
<1>12. CASE Crash(d)
  <2>1. /\ UNCHANGED <<clock, articles, subRows, reporting, patch, origin, queued, cut, late>>
        /\ crashes < MaxCrashes /\ crashes' = crashes + 1 /\ Become(d, [Idle EXCEPT !.pc = "queued"])
    BY <1>12 DEF Crash, history
  <2>2. RunsOK'
    BY <1>3, <2>1, RestType, BecomeType
  <2>3. CountsOK'
    BY <1>1, <2>1, DigestAssumption DEF CountsOK
  <2> QED
    BY <1>3, <2>1, <2>2, <2>3 DEF TypeInv
<1> QED
  BY <1>5, <1>6, <1>7, <1>8, <1>9, <1>10, <1>11, <1>12

\* The steps of articles, of deliver and of owners.
LEMMA OtherType ==
  ASSUME TypeInv,
         \/ \E a \in Arts : Store(a) \/ Commit(a) \/ Fanout(a)
         \/ \E s \in Subs : Sent(s) \/ Report(s) \/ Delete(s)
         \/ \E r \in Requests : PatchLoad(r) \/ PatchSave(r)
  PROVE  TypeInv'
<1>1. ArticlesOK /\ RowsOK /\ RunsOK /\ PatchesOK /\ CountsOK
  BY DEF TypeInv
<1>2. ASSUME UNCHANGED <<crashes, queued, cut, late>> PROVE CountsOK'
  BY <1>1, <1>2 DEF CountsOK
<1>3. ASSUME NEW a \in Arts, Store(a) PROVE TypeInv'
  <2>1. /\ created[a] = 0 /\ ReadClock /\ created' = [created EXCEPT ![a] = clock']
        /\ UNCHANGED <<visible, fanned, state, interval, last, reporting, run, patch, crashes,
                       queued, cut, late, origin>>
    BY <1>3 DEF Store, subRows, history
  <2>2. Later /\ clock' \in 0..clock' /\ 0..clock \subseteq 0..clock'
    BY <2>1, LaterRead, LaterPast
  <2>3. a \notin visible
    BY <1>1, <2>1 DEF ArticlesOK
  <2>4. ArticlesOK'
    BY <1>1, <2>1, <2>2, <2>3 DEF ArticlesOK, Later
  <2> QED
    BY <1>2, <2>1, <2>2, <2>4, RowsStay, RunsStay, PatchesStay DEF TypeInv
<1>4. ASSUME NEW a \in Arts, Commit(a) \/ Fanout(a) PROVE TypeInv'
  <2>1. /\ UNCHANGED <<clock, created, state, interval, last, reporting, run, patch, crashes,
                       cut, late, origin>>
        /\ visible' = visible \union {a} \/ visible' = visible
        /\ 0 < created[a]
        /\ fanned' \subseteq visible'
    BY <1>1, <1>4 DEF Commit, Fanout, subRows, history, ArticlesOK
  <2>2. Later
    BY <2>1, LaterSame
  <2>3. ArticlesOK'
    BY <1>1, <2>1 DEF ArticlesOK
  <2>4. queued' \subseteq Pairs
    BY <1>1, <1>4 DEF Commit, Fanout, history, CountsOK
  <2>5. CountsOK'
    BY <1>1, <2>1, <2>4 DEF CountsOK
  <2> QED
    BY <2>1, <2>2, <2>3, <2>5, RowsStay, RunsStay, PatchesStay DEF TypeInv
<1>5. ASSUME NEW s \in Subs, Sent(s) PROVE TypeInv'
  <2>1. /\ UNCHANGED <<clock, created, visible, fanned, state, interval, last, run, patch, crashes,
                       queued, cut, late, origin>>
        /\ reporting' = reporting \union {s}
    BY <1>5 DEF Sent, articles, subRows, history
  <2>2. Later
    BY <2>1, LaterSame
  <2>3. RowsOK'
    BY <1>1, <2>1 DEF RowsOK
  <2> QED
    BY <1>2, <2>1, <2>2, <2>3, ArticlesStay, RunsStay, PatchesStay DEF TypeInv
<1>6. ASSUME NEW s \in Subs, Report(s) PROVE TypeInv'
  <2>1. /\ ReadClock /\ reporting' \subseteq reporting
        /\ last' = [last EXCEPT ![s] = clock'] \/ last' = last
        /\ UNCHANGED <<created, visible, fanned, state, interval, run, patch, crashes,
                       queued, cut, late, origin>>
    BY <1>6 DEF Report, articles, history
  <2>2. Later /\ clock' \in Past(clock') /\ Past(clock) \subseteq Past(clock')
    BY <2>1, LaterRead, LaterPast
  <2>3. RowsOK'
    BY <1>1, <2>1, <2>2 DEF RowsOK
  <2> QED
    BY <1>2, <2>1, <2>2, <2>3, ArticlesStay, RunsStay, PatchesStay DEF TypeInv
<1>7. ASSUME NEW s \in Subs, Delete(s) PROVE TypeInv'
  <2>1. /\ UNCHANGED <<clock, created, visible, fanned, interval, last, reporting, run, patch, crashes,
                       queued, cut, late, origin>>
        /\ state' = [state EXCEPT ![s] = "deleted"]
    BY <1>7 DEF Delete, articles, history
  <2>2. Later
    BY <2>1, LaterSame
  <2>3. RowsOK'
    BY <1>1, <2>1 DEF RowsOK
  <2> QED
    BY <1>2, <2>1, <2>2, <2>3, ArticlesStay, RunsStay, PatchesStay DEF TypeInv
<1>8. ASSUME NEW r \in Requests, PatchLoad(r) PROVE TypeInv'
  <2>1. PICK s \in Subs :
          /\ state[s] # "deleted"
          /\ patch' = [patch EXCEPT ![r] = [pc |-> "loaded", sub |-> s, state |-> state[s],
                                            interval |-> interval[s], last |-> last[s]]]
    BY <1>8 DEF PatchLoad
  <2>2. UNCHANGED <<clock, created, visible, fanned, state, interval, last, reporting, run, crashes,
                    queued, cut, late, origin>>
    BY <1>8 DEF PatchLoad, articles, subRows, history
  <2>3. Later
    BY <2>2, LaterSame
  <2>4. /\ last[s] \in Past(clock) /\ last[s] \in LastValues /\ state[s] \in {"active", "paused"}
        /\ interval[s] \in {"instant", "daily"}
    BY <1>1, <2>1, <2>2, <2>3, LaterPast DEF RowsOK
  <2> DEFINE p == [pc |-> "loaded", sub |-> s, state |-> state[s], interval |-> interval[s],
                   last |-> last[s]]
  <2>5. p \in PatchStates /\ PatchOK(p, clock)
    BY <2>4 DEF PatchStates, PatchOK
  <2> HIDE DEF p
  <2>6. patch' = [patch EXCEPT ![r] = p]
    BY <2>1 DEF p
  <2>7. PatchesOK'
    BY <1>1, <2>2, <2>5, <2>6 DEF PatchesOK
  <2> QED
    BY <1>2, <2>2, <2>3, <2>7, ArticlesStay, RunsStay, RowsStay DEF TypeInv
<1>9. ASSUME NEW r \in Requests, PatchSave(r) PROVE TypeInv'
  <2> DEFINE s == patch[r].sub
             old == patch[r].last
             o == IF patch[r].interval = "instant" /\ old # Null
                  THEN IF old > origin[s] THEN old ELSE origin[s]
                  ELSE origin[s]
  <2>1. PICK newState \in {"active", "paused"}, newInterval \in {"instant", "daily"} :
          /\ state' = [state EXCEPT ![s] = newState]
          /\ interval' = [interval EXCEPT ![s] = newInterval]
          /\ last' = [last EXCEPT ![s] = old]
    BY <1>9 DEF PatchSave
  <2>2. /\ patch[r].pc = "loaded" /\ origin' = [origin EXCEPT ![s] = o]
        /\ patch' = [patch EXCEPT ![r] = [NoPatch EXCEPT !.pc = "done"]]
        /\ UNCHANGED <<clock, created, visible, fanned, reporting, run, crashes, queued, cut, late>>
    BY <1>9 DEF PatchSave, articles
  <2>3. Later /\ s \in Subs /\ old \in Past(clock) /\ old \in LastValues
    BY <1>1, <2>2, LaterSame DEF PatchesOK, PatchOK, PatchStates
  <2>4. o \in -Day..MaxTime
    BY <1>1, <2>3, DigestAssumption DEF RowsOK, LastValues, Times
  <2> HIDE DEF s, old, o
  <2>5. RowsOK'
    BY <1>1, <2>1, <2>2, <2>3, <2>4 DEF RowsOK
  <2>6. [NoPatch EXCEPT !.pc = "done"] \in PatchStates /\ PatchOK([NoPatch EXCEPT !.pc = "done"], clock)
    BY DEF NoPatch, PatchStates, PatchOK, Past, LastValues
  <2>7. PatchesOK'
    BY <1>1, <2>2, <2>6 DEF PatchesOK
  <2> QED
    BY <1>2, <2>2, <2>3, <2>5, <2>7, ArticlesStay, RunsStay DEF TypeInv
<1> QED
  BY <1>3, <1>4, <1>5, <1>6, <1>7, <1>8, <1>9

\* Every step keeps the types.
LEMMA TypeStep ==
  ASSUME TypeInv, [Next]_vars
  PROVE  TypeInv'
<1>1. ASSUME UNCHANGED vars PROVE TypeInv'
  <2>1. UNCHANGED <<clock, created, visible, fanned, state, interval, last, reporting, run, patch,
                    crashes, queued, cut, late, origin>>
    BY <1>1 DEF vars, articles, subRows, history
  <2>2. Later
    BY <2>1, LaterSame
  <2>3. CountsOK'
    BY <2>1 DEF TypeInv, CountsOK
  <2> QED
    BY <2>1, <2>2, <2>3, ArticlesStay, RowsStay, RunsStay, PatchesStay DEF TypeInv
<1> QED
  BY <1>1, RunType, OtherType DEF Next

\* The types hold at first.
LEMMA TypeInit ==
  ASSUME Init
  PROVE  TypeInv
<1>1. 0 \in Times /\ 0 \in 0..MaxCrashes /\ -Day \in -Day..MaxTime /\ 0 \in -Day..MaxTime
  BY DigestAssumption DEF Times
<1>2. ArticlesOK /\ RowsOK /\ CountsOK
  BY <1>1 DEF Init, ArticlesOK, RowsOK, CountsOK, Past
<1>3. NoPatch \in PatchStates /\ PatchOK(NoPatch, clock)
  BY DEF NoPatch, PatchStates, PatchOK, Past, LastValues
<1>4. Idle \in RunStates /\ RunOK(Idle, clock)
  <2>1. [s \in Subs |-> Null] \in [Subs -> LastValues]
    BY DEF LastValues
  <2> QED
    BY <1>1, <2>1 DEF Idle, RunStates, RunOK, Past, Init
<1> QED
  BY <1>2, <1>3, <1>4 DEF TypeInv, RunsOK, PatchesOK, Init

\* The types hold always.
LEMMA TypeInvariant == Spec => []TypeInv
<1>1. Init => TypeInv
  BY TypeInit
<1>2. TypeInv /\ [Next]_vars => TypeInv'
  BY TypeStep
<1> QED
  BY <1>1, <1>2, PTL DEF Spec

\* Subscriptions, digests and requests stay in their ranges, and fanout_instant runs for
\* articles that have committed.
THEOREM DigestTypeCorrect == Spec => []TypeOK
<1>1. TypeInv => TypeOK
  <2> SUFFICES ASSUME TypeInv PROVE TypeOK
    OBVIOUS
  <2>1. 0..clock \subseteq Times /\ Past(clock) \subseteq LastValues
    BY DigestAssumption DEF TypeInv, ArticlesOK, Times, Past, LastValues
  <2> QED
    BY <2>1 DEF TypeInv, ArticlesOK, RowsOK, RunsOK, PatchesOK, CountsOK, TypeOK
<1> QED
  BY <1>1, TypeInvariant, PTL

-----------------------------------------------------------------------------
(* No article falls between two windows *)

Dealt == queued \union cut \union late

\* Every article stored after s turned daily and not after time hi was dealt with.
Covered(s, hi) ==
  \A a \in Arts : /\ 0 < created[a] /\ origin[s] < created[a] /\ created[a] <= hi
                  => <<s, a>> \in Dealt

\* The row, its copy in a request and its copy in a digest are covered up to their
\* last_notified_at, if they were daily when they were read.
RowCovered(s) == interval[s] = "daily" /\ last[s] # Null => Covered(s, last[s])

PatchCovered(r) ==
  patch[r].pc = "loaded" /\ patch[r].interval = "daily" /\ patch[r].last # Null
    => Covered(patch[r].sub, patch[r].last)

\* A digest that is sending has dealt with the whole window but for its batch.
RunCovered(d) ==
  /\ \A s \in Subs :
       run[d].pc \in {"matching", "sending"} /\ s \in run[d].todo /\ run[d].loaded[s] # Null
         => Covered(s, run[d].loaded[s])
  /\ run[d].pc = "sending" =>
       \A a \in Window(d, run[d].sub) : <<run[d].sub, a>> \in Dealt \/ a \in run[d].batch

CoverInv ==
  /\ \A s \in Subs : RowCovered(s)
  /\ \A r \in Requests : PatchCovered(r)
  /\ \A d \in Runs : RunCovered(d)

\* What every step does: created_at of a new article is later than any time read so far,
\* nothing dealt with is forgotten, and origin does not move back.
Onward ==
  /\ \A a \in Arts : created'[a] = created[a] \/ clock < created'[a]
  /\ Dealt \subseteq Dealt'
  /\ \A s \in Subs : origin[s] <= origin'[s]

\* What is covered up to a time that has passed stays covered.
LEMMA StaysCovered ==
  ASSUME TypeInv, TypeInv', Onward, NEW s \in Subs, NEW hi \in 0..clock, Covered(s, hi)
  PROVE  Covered(s, hi)'
<1>1. clock \in Nat /\ origin[s] \in Int /\ origin'[s] \in Int
  BY DigestAssumption DEF TypeInv, ArticlesOK, RowsOK, Times
<1>2. \A a \in Arts : created[a] \in Nat /\ created'[a] \in Nat
  BY DigestAssumption DEF TypeInv, ArticlesOK, Times
<1> QED
  BY <1>1, <1>2 DEF Covered, Onward

\* A row stays covered as long as its interval and last_notified_at do not change.
LEMMA RowStays ==
  ASSUME TypeInv, TypeInv', Onward, NEW s \in Subs, RowCovered(s),
         interval'[s] = interval[s], last'[s] = last[s]
  PROVE  RowCovered(s)'
<1> SUFFICES ASSUME interval[s] = "daily", last[s] # Null PROVE RowCovered(s)'
  BY DEF RowCovered
<1>1. PICK hi \in 0..clock : hi = last[s]
  BY DEF TypeInv, RowsOK, Past
<1>2. Covered(s, hi)'
  BY <1>1, StaysCovered DEF RowCovered
<1> QED
  BY <1>1, <1>2 DEF RowCovered, Covered

\* So does the copy a PATCH has loaded.
LEMMA PatchStays ==
  ASSUME TypeInv, TypeInv', Onward, NEW r \in Requests, PatchCovered(r), patch'[r] = patch[r]
  PROVE  PatchCovered(r)'
<1> SUFFICES ASSUME patch[r].pc = "loaded", patch[r].interval = "daily", patch[r].last # Null
             PROVE  PatchCovered(r)'
  BY DEF PatchCovered
<1>1. PICK s \in Subs, hi \in 0..clock : s = patch[r].sub /\ hi = patch[r].last
  BY DEF TypeInv, PatchesOK, PatchOK, Past
<1>2. Covered(s, hi)'
  BY <1>1, StaysCovered DEF PatchCovered
<1> QED
  BY <1>1, <1>2 DEF PatchCovered, Covered

\* Also of a digest whose window goes on with the articles it has not dealt with.
LEMMA LoadedStay ==
  ASSUME TypeInv, TypeInv', Onward, NEW d \in Runs, RunCovered(d), NEW s \in Subs,
         run[d].pc \in {"matching", "sending"}, s \in run[d].todo, run[d].loaded[s] # Null,
         run'[d].loaded = run[d].loaded
  PROVE  Covered(s, run[d].loaded[s])'
<1>1. PICK hi \in 0..clock : hi = run[d].loaded[s]
  BY DEF TypeInv, RunsOK, RunOK, Past
<1>2. Covered(s, hi)'
  BY <1>1, StaysCovered DEF RunCovered
<1> QED
  BY <1>1, <1>2 DEF Covered

\* An article stored after the digest started is not in its window.
LEMMA WindowStays ==
  ASSUME TypeInv, TypeInv', Onward, NEW d \in Runs, NEW s \in Subs,
         run'[d].now = run[d].now, run'[d].loaded = run[d].loaded
  PROVE  Window(d, s)' \subseteq Window(d, s)
<1>1. /\ run[d].now \in Nat /\ run[d].now <= clock /\ clock \in Nat
      /\ \A a \in Arts : created[a] \in Nat /\ created'[a] \in Nat
  BY DigestAssumption DEF TypeInv, ArticlesOK, RunsOK, RunOK, RunStates, Times
<1>2. Since(d, s)' = Since(d, s)
  BY DEF Since
<1> QED
  BY <1>1, <1>2 DEF Window, Onward

\* So do the copies a digest has loaded, and the window it is sending.
LEMMA RunStays ==
  ASSUME TypeInv, TypeInv', Onward, NEW d \in Runs, RunCovered(d), run'[d] = run[d]
  PROVE  RunCovered(d)'
<1>1. ASSUME NEW s \in Subs, run[d].pc \in {"matching", "sending"}, s \in run[d].todo,
             run[d].loaded[s] # Null
      PROVE  Covered(s, run[d].loaded[s])'
  BY <1>1, LoadedStay
<1>2. ASSUME run[d].pc = "sending"
      PROVE  \A a \in Window(d, run[d].sub)' : <<run[d].sub, a>> \in Dealt' \/ a \in run[d].batch
  <2>1. PICK s \in Subs : s = run[d].sub
    BY <1>2 DEF TypeInv, RunsOK, RunOK, RunStates
  <2>2. Window(d, s)' \subseteq Window(d, s)
    BY WindowStays
  <2>3. Window(d, run[d].sub)' = Window(d, s)'
    BY <2>1 DEF Window, Since
  <2> QED
    BY <1>2, <2>1, <2>2, <2>3 DEF RunCovered, Onward
<1> QED
  BY <1>1, <1>2 DEF RunCovered

\* It is enough to look at the rows, requests and digests that a step changes.
LEMMA CoverFrame ==
  ASSUME TypeInv, TypeInv', CoverInv, Onward,
         \A s \in Subs : (interval'[s] = interval[s] /\ last'[s] = last[s]) \/ RowCovered(s)',
         \A r \in Requests : patch'[r] = patch[r] \/ PatchCovered(r)',
         \A d \in Runs : run'[d] = run[d] \/ RunCovered(d)'
  PROVE  CoverInv'
  BY RowStays, PatchStays, RunStays DEF CoverInv

\* A step that stores no article and moves no origin goes onward.
LEMMA OnwardQuiet ==
  ASSUME TypeInv, UNCHANGED <<created, origin>>,
         queued \subseteq queued', cut \subseteq cut', late \subseteq late'
  PROVE  Onward
<1>1. \A s \in Subs : origin[s] \in Int
  BY DigestAssumption DEF TypeInv, RowsOK
<1> QED
  BY <1>1 DEF Onward, Dealt

\* The steps of a digest.
LEMMA RunCover ==
  ASSUME TypeInv, TypeInv', CoverInv, NEW d \in Runs,
         \/ Beat(d) \/ Start(d) \/ LoadSubs(d) \/ Match(d) \/ QueueOne(d)
         \/ Save(d) \/ Finish(d) \/ Fail(d) \/ Crash(d)
  PROVE  CoverInv'
<1>1. ArticlesOK /\ RowsOK /\ RunsOK /\ PatchesOK /\ CountsOK
  BY DEF TypeInv
<1>2. run[d] \in RunStates /\ RunOK(run[d], clock) /\ RunCovered(d)
  BY <1>1 DEF RunsOK, CoverInv
<1>3. ASSUME NEW r, Become(d, r) PROVE run'[d] = r /\ \A x \in Runs : x # d => run'[x] = run[x]
  BY <1>1, <1>3 DEF Become, RunsOK
<1>4. ASSUME UNCHANGED <<created, interval, last, patch, origin>>,
             queued \subseteq queued', cut \subseteq cut', late \subseteq late',
             \A x \in Runs : x # d => run'[x] = run[x], RunCovered(d)'
      PROVE  CoverInv'
  BY <1>4, OnwardQuiet, CoverFrame
<1>5. CASE Beat(d) \/ Start(d) \/ Finish(d) \/ Fail(d) \/ Crash(d)
  <2>1. UNCHANGED <<created, interval, last, patch, origin, queued, cut, late>>
    BY <1>5 DEF Beat, Start, Finish, Fail, Crash, articles, subRows, history
  <2>2. /\ run'[d].pc \notin {"matching", "sending"}
        /\ \A x \in Runs : x # d => run'[x] = run[x]
    BY <1>1, <1>5 DEF Beat, Start, Finish, Fail, Crash, Become, RunsOK, Idle
  <2>3. RunCovered(d)'
    BY <2>2 DEF RunCovered
  <2> QED
    BY <1>4, <2>1, <2>2, <2>3
<1>6. CASE LoadSubs(d)
  <2> DEFINE todo == {s \in Subs : state[s] = "active" /\ interval[s] = "daily"}
             r == [run[d] EXCEPT !.pc = "matching", !.loaded = last, !.todo = todo]
  <2>1. UNCHANGED <<created, interval, last, patch, origin, queued, cut, late>> /\ Become(d, r)
    BY <1>6 DEF LoadSubs, articles, subRows, history
  <2>2. r.pc = "matching" /\ r.loaded = last /\ r.todo = todo
    BY <1>2 DEF RunStates
  <2>3. run'[d] = r /\ \A x \in Runs : x # d => run'[x] = run[x]
    BY <1>3, <2>1
  <2> HIDE DEF r
  <2>4. RunCovered(d)'
    <3>1. \A s \in todo : RowCovered(s) /\ interval[s] = "daily"
      BY DEF CoverInv
    <3> QED
      BY <2>1, <2>2, <2>3, <3>1 DEF RunCovered, RowCovered, Covered, Dealt
  <2> QED
    BY <1>4, <2>1, <2>3, <2>4
<1>7. CASE Match(d)
  <2>1. PICK s \in run[d].todo, batch \in SUBSET visible :
          /\ run[d].pc = "matching" /\ batch \subseteq Window(d, s)
          /\ Become(d, [run[d] EXCEPT !.pc = "sending", !.sub = s,
                                      !.since = Since(d, s), !.batch = batch])
          /\ cut' = cut \union ({s} \X ((Window(d, s) \intersect visible) \ batch))
          /\ late' = late \union ({s} \X (Window(d, s) \ visible))
    BY <1>7 DEF Match
  <2>2. UNCHANGED <<created, interval, last, patch, origin, queued>>
    BY <1>7 DEF Match, articles, subRows
  <2> DEFINE r == [run[d] EXCEPT !.pc = "sending", !.sub = s, !.since = Since(d, s), !.batch = batch]
  <2>3. /\ r.pc = "sending" /\ r.sub = s /\ r.batch = batch /\ r.now = run[d].now
        /\ r.loaded = run[d].loaded /\ r.todo = run[d].todo /\ s \in Subs
    BY <1>2 DEF RunStates
  <2>4. run'[d] = r /\ \A x \in Runs : x # d => run'[x] = run[x]
    BY <1>3, <2>1
  <2> HIDE DEF r
  <2>5. Onward
    BY <2>1, <2>2, OnwardQuiet
  <2>6. Window(d, s)' = Window(d, s)
    BY <2>2, <2>3, <2>4 DEF Window, Since
  <2>7. \A a \in Window(d, s) : <<s, a>> \in Dealt' \/ a \in batch
    BY <2>1 DEF Dealt
  <2>8. \A x \in Subs : x \in run[d].todo /\ run[d].loaded[x] # Null => Covered(x, run[d].loaded[x])'
    BY <1>2, <2>1, <2>3, <2>4, <2>5, LoadedStay
  <2>9. Window(d, run[d].sub)' = Window(d, s)'
    BY <2>3, <2>4 DEF Window, Since
  <2>10. RunCovered(d)'
    BY <2>3, <2>4, <2>6, <2>7, <2>8, <2>9 DEF RunCovered
  <2> QED
    BY <1>4, <2>1, <2>2, <2>4, <2>10
<1>8. CASE QueueOne(d)
  <2>1. PICK a \in run[d].batch :
          /\ run[d].pc = "sending"
          /\ queued' = queued \union {<<run[d].sub, a>>}
          /\ Become(d, [run[d] EXCEPT !.batch = @ \ {a}])
    BY <1>8 DEF QueueOne
  <2>2. UNCHANGED <<created, interval, last, patch, origin, cut, late>>
    BY <1>8 DEF QueueOne, articles, subRows
  <2> DEFINE r == [run[d] EXCEPT !.batch = @ \ {a}]
  <2>3. /\ r.pc = "sending" /\ r.sub = run[d].sub /\ r.batch = run[d].batch \ {a}
        /\ r.now = run[d].now /\ r.loaded = run[d].loaded /\ r.todo = run[d].todo
    BY <1>2, <2>1 DEF RunStates
  <2>4. run'[d] = r /\ \A x \in Runs : x # d => run'[x] = run[x]
    BY <1>3, <2>1
  <2> HIDE DEF r
  <2>5. Onward
    BY <2>1, <2>2, OnwardQuiet
  <2>6. Window(d, run[d].sub)' = Window(d, run[d].sub)
    BY <2>2, <2>3, <2>4 DEF Window, Since
  <2>7. \A x \in Window(d, run[d].sub) : <<run[d].sub, x>> \in Dealt' \/ x \in run[d].batch \ {a}
    BY <1>2, <2>1, <2>2 DEF Dealt, RunCovered
  <2>8. \A x \in Subs : x \in run[d].todo /\ run[d].loaded[x] # Null => Covered(x, run[d].loaded[x])'
    BY <1>2, <2>1, <2>3, <2>4, <2>5, LoadedStay
  <2>9. RunCovered(d)'
    BY <2>3, <2>4, <2>6, <2>7, <2>8 DEF RunCovered
  <2> QED
    BY <1>4, <2>1, <2>2, <2>4, <2>9
<1>9. CASE Save(d)
  <2>1. PICK s : s = run[d].sub
    OBVIOUS
  <2> DEFINE r == [run[d] EXCEPT !.pc = "matching", !.todo = @ \ {s}, !.sub = Null, !.since = 0]
             o == IF run[d].loaded[s] = Null /\ run[d].since > origin[s]
                  THEN run[d].since ELSE origin[s]
  <2>2. /\ run[d].pc = "sending" /\ run[d].batch = {}
        /\ UNCHANGED <<clock, created, interval, patch, queued, cut, late>>
    BY <1>9 DEF Save, articles
  <2>3. /\ s \in Subs /\ s \in run[d].todo /\ run[d].now \in Nat /\ run[d].since = Since(d, s)
        /\ run[d].since \in Int /\ origin[s] \in Int
    BY <1>1, <1>2, <2>1, <2>2, DigestAssumption DEF RunOK, RunStates, Times, Since, RowsOK
  <2>4. CASE last' = [last EXCEPT ![s] = WindowEnd(d)] /\ origin' = [origin EXCEPT ![s] = o] /\ Become(d, r)
    <3>1. /\ r.pc = "matching" /\ r.loaded = run[d].loaded /\ r.todo \subseteq run[d].todo
      BY <1>2 DEF RunStates
    <3>2. run'[d] = r /\ \A x \in Runs : x # d => run'[x] = run[x]
      BY <1>3, <2>4
    <3>3. o \in Int /\ origin[s] <= o /\ (run[d].loaded[s] = Null => run[d].since <= o)
      BY <2>3
    <3> HIDE DEF r, o
    <3>4. origin'[s] = o /\ \A x \in Subs : x # s => origin'[x] = origin[x] /\ origin[x] \in Int
      BY <1>1, <2>3, <2>4, DigestAssumption DEF RowsOK
    <3>5. Onward
      BY <2>2, <3>3, <3>4 DEF Onward, Dealt
    <3>6. RunCovered(d)'
      <4>1. \A x \in Subs : x \in run[d].todo /\ run[d].loaded[x] # Null => Covered(x, run[d].loaded[x])'
        BY <1>2, <2>2, <3>1, <3>2, <3>5, LoadedStay
      <4> QED
        BY <3>1, <3>2, <4>1 DEF RunCovered
    <3>7. last'[s] = run[d].now /\ \A x \in Subs : x # s => last'[x] = last[x]
      BY <1>1, <2>3, <2>4 DEF RowsOK, WindowEnd
    <3>8. RowCovered(s)'
      <4>1. ASSUME NEW a \in Arts, 0 < created[a], o < created[a], created[a] <= run[d].now
            PROVE  <<s, a>> \in Dealt
        <5>1. CASE a \in Window(d, s)
          BY <1>2, <2>1, <2>2, <5>1 DEF RunCovered
        <5>2. CASE a \notin Window(d, s)
          <6>1. created[a] \in Nat
            BY <1>1, DigestAssumption DEF ArticlesOK, Times
          <6>2. ~(Since(d, s) < created[a])
            BY <4>1, <5>2 DEF Window
          <6>3. run[d].loaded[s] # Null
            BY <2>3, <3>3, <4>1, <6>1, <6>2
          <6>4. Covered(s, run[d].loaded[s]) /\ Since(d, s) = run[d].loaded[s]
            BY <1>2, <2>2, <2>3, <6>3 DEF RunCovered, Since
          <6>5. created[a] <= run[d].loaded[s] /\ origin[s] < created[a]
            BY <2>3, <3>3, <4>1, <6>1, <6>2, <6>4
          <6> QED
            BY <4>1, <6>4, <6>5 DEF Covered
        <5> QED
          BY <5>1, <5>2
      <4>2. Dealt' = Dealt
        BY <2>2 DEF Dealt
      <4> QED
        BY <2>2, <3>4, <3>7, <4>1, <4>2 DEF RowCovered, Covered
    <3> QED
      BY <2>2, <3>2, <3>5, <3>6, <3>7, <3>8, CoverFrame
  <2>5. CASE UNCHANGED <<last, origin>> /\ Become(d, [Idle EXCEPT !.pc = "failed"])
    <3>1. PICK x : Become(d, x) /\ x.pc \notin {"matching", "sending"}
      BY <2>5 DEF Idle
    <3>2. RunCovered(d)'
      BY <1>3, <3>1 DEF RunCovered
    <3> QED
      BY <1>3, <1>4, <2>2, <2>5, <3>1, <3>2
  <2> QED
    BY <1>9, <2>1, <2>4, <2>5 DEF Save
<1> QED
  BY <1>5, <1>6, <1>7, <1>8, <1>9

\* The steps of articles, of deliver and of owners.
LEMMA OtherCover ==
  ASSUME TypeInv, TypeInv', CoverInv,
         \/ \E a \in Arts : Store(a) \/ Commit(a) \/ Fanout(a)
         \/ \E s \in Subs : Sent(s) \/ Report(s) \/ Delete(s)
         \/ \E r \in Requests : PatchLoad(r) \/ PatchSave(r)
  PROVE  CoverInv'
<1>1. ArticlesOK /\ RowsOK /\ RunsOK /\ PatchesOK /\ CountsOK
  BY DEF TypeInv
<1>2. \A s \in Subs : origin[s] \in Int
  BY <1>1, DigestAssumption DEF RowsOK
<1>3. ASSUME NEW a \in Arts, Store(a) PROVE CoverInv'
  <2>1. /\ ReadClock /\ created' = [created EXCEPT ![a] = clock']
        /\ UNCHANGED <<interval, last, run, patch, queued, cut, late, origin>>
    BY <1>3 DEF Store, subRows, history
  <2>2. clock \in Nat /\ clock < clock'
    BY <1>1, <2>1, DigestAssumption DEF ReadClock, ArticlesOK, Times
  <2>3. Onward
    BY <1>1, <1>2, <2>1, <2>2 DEF Onward, Dealt, ArticlesOK
  <2> QED
    BY <2>1, <2>3, CoverFrame
<1>4. ASSUME NEW a \in Arts, Commit(a) \/ Fanout(a) PROVE CoverInv'
  <2>1. UNCHANGED <<created, interval, last, run, patch, cut, late, origin>> /\ queued \subseteq queued'
    BY <1>4 DEF Commit, Fanout, subRows, history
  <2> QED
    BY <2>1, OnwardQuiet, CoverFrame
<1>5. ASSUME NEW s \in Subs, Sent(s) \/ Delete(s) PROVE CoverInv'
  <2>1. UNCHANGED <<created, interval, last, run, patch, queued, cut, late, origin>>
    BY <1>5 DEF Sent, Delete, articles, subRows, history
  <2> QED
    BY <2>1, OnwardQuiet, CoverFrame
<1>6. ASSUME NEW s \in Subs, Report(s) PROVE CoverInv'
  <2>1. /\ UNCHANGED <<created, interval, run, patch, queued, cut, late, origin>>
        /\ last' = last \/ (interval[s] = "instant" /\ last' = [last EXCEPT ![s] = clock'])
    BY <1>6 DEF Report, ReportsTo, articles, history
  <2>2. \A x \in Subs : (interval'[x] = interval[x] /\ last'[x] = last[x]) \/ RowCovered(x)'
    BY <1>1, <2>1 DEF RowsOK, RowCovered
  <2> QED
    BY <2>1, <2>2, OnwardQuiet, CoverFrame
<1>7. ASSUME NEW r \in Requests, PatchLoad(r) PROVE CoverInv'
  <2>1. PICK s \in Subs :
          patch' = [patch EXCEPT ![r] = [pc |-> "loaded", sub |-> s, state |-> state[s],
                                         interval |-> interval[s], last |-> last[s]]]
    BY <1>7 DEF PatchLoad
  <2>2. UNCHANGED <<created, interval, last, run, queued, cut, late, origin>>
    BY <1>7 DEF PatchLoad, articles, subRows, history
  <2>3. /\ \A x \in Requests : x # r => patch'[x] = patch[x]
        /\ patch'[r].sub = s /\ patch'[r].interval = interval[s] /\ patch'[r].last = last[s]
    BY <1>1, <2>1 DEF PatchesOK
  <2>4. PatchCovered(r)'
    <3>1. RowCovered(s)
      BY DEF CoverInv
    <3> QED
      BY <2>2, <2>3, <3>1 DEF PatchCovered, RowCovered, Covered, Dealt
  <2> QED
    BY <2>2, <2>3, <2>4, OnwardQuiet, CoverFrame
<1>8. ASSUME NEW r \in Requests, PatchSave(r) PROVE CoverInv'
  <2>1. PICK s, old : s = patch[r].sub /\ old = patch[r].last
    OBVIOUS
  <2> DEFINE o == IF patch[r].interval = "instant" /\ old # Null
                  THEN IF old > origin[s] THEN old ELSE origin[s]
                  ELSE origin[s]
  <2>2. PICK newInterval \in {"instant", "daily"} :
          interval' = [interval EXCEPT ![s] = newInterval] /\ last' = [last EXCEPT ![s] = old]
    BY <1>8, <2>1 DEF PatchSave
  <2>3. /\ patch[r].pc = "loaded" /\ origin' = [origin EXCEPT ![s] = o]
        /\ patch' = [patch EXCEPT ![r] = [NoPatch EXCEPT !.pc = "done"]]
        /\ UNCHANGED <<clock, created, run, queued, cut, late>>
    BY <1>8, <2>1 DEF PatchSave, articles
  <2>4. s \in Subs /\ old \in (0..clock) \union {Null} /\ clock \in Nat /\ PatchCovered(r)
    BY <1>1, <2>1, <2>3, DigestAssumption DEF PatchesOK, PatchOK, Past, CoverInv, ArticlesOK, Times
  <2>5. patch[r].interval \in {"instant", "daily"}
    BY <1>1 DEF PatchesOK, PatchStates
  <2>6. /\ o \in Int /\ origin[s] <= o /\ origin[s] \in Int
        /\ patch[r].interval = "instant" /\ old # Null => old <= o
    BY <1>2, <2>4
  <2> HIDE DEF o
  <2>7. origin'[s] = o /\ \A x \in Subs : x # s => origin'[x] = origin[x]
    BY <1>1, <2>3, <2>4 DEF RowsOK
  <2>8. Onward
    BY <1>2, <2>3, <2>6, <2>7 DEF Onward, Dealt
  <2>9. /\ last'[s] = old
        /\ \A x \in Subs : x # s => interval'[x] = interval[x] /\ last'[x] = last[x]
    BY <1>1, <2>2, <2>4 DEF RowsOK
  <2>10. RowCovered(s)'
    <3> SUFFICES ASSUME old # Null PROVE Covered(s, old)'
      BY <2>9 DEF RowCovered, Covered
    <3>1. CASE patch[r].interval = "daily"
      <4>1. Covered(s, old)
        BY <2>1, <2>3, <2>4, <3>1 DEF PatchCovered
      <4> QED
        BY <2>4, <2>8, <4>1, StaysCovered
    <3>2. CASE patch[r].interval = "instant"
      <4>1. \A a \in Arts : created'[a] \in Int
        BY DigestAssumption DEF TypeInv, ArticlesOK, Times
      <4>2. old <= o /\ old \in Int
        BY <2>4, <2>6, <3>2
      <4> QED
        BY <2>6, <2>7, <4>1, <4>2 DEF Covered
    <3> QED
      BY <2>5, <3>1, <3>2
  <2>11. PatchCovered(r)' /\ \A x \in Requests : x # r => patch'[x] = patch[x]
    BY <1>1, <2>3 DEF PatchesOK, PatchCovered, NoPatch
  <2> QED
    BY <2>3, <2>8, <2>9, <2>10, <2>11, CoverFrame
<1> QED
  BY <1>3, <1>4, <1>5, <1>6, <1>7, <1>8

\* Whatever the window of a daily subscription has passed over was queued, cut from a full
\* digest or committed late: for any number of digests that overlap, fail or are repeated.
THEOREM MissedOnlyIfLateAlways == Spec => []MissedOnlyIfLate
<1>1. Init => CoverInv
  BY DEF Init, CoverInv, RowCovered, PatchCovered, RunCovered, Idle, NoPatch
<1>2. TypeInv /\ CoverInv /\ [Next]_vars => CoverInv'
  <2> SUFFICES ASSUME TypeInv, CoverInv, [Next]_vars PROVE CoverInv'
    OBVIOUS
  <2>1. TypeInv'
    BY TypeStep
  <2>2. CASE UNCHANGED vars
    <3>1. UNCHANGED <<created, interval, last, run, patch, queued, cut, late, origin>>
      BY <2>2 DEF vars, articles, subRows, history
    <3> QED
      BY <2>1, <3>1, OnwardQuiet, CoverFrame
  <2> QED
    BY <2>1, <2>2, RunCover, OtherCover DEF Next
<1>3. TypeInv /\ CoverInv => MissedOnlyIfLate
  BY DEF TypeInv, ArticlesOK, CoverInv, RowCovered, Covered, Dealt, MissedOnlyIfLate, Passed
<1> QED
  BY <1>1, <1>2, <1>3, TypeInvariant, PTL DEF Spec
=============================================================================
