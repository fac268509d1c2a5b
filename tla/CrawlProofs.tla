----------------------------- MODULE CrawlProofs ----------------------------
(***************************************************************************)
(* Proofs about module Crawl, for any number of feeds, messages, rounds    *)
(* and staff requests, and any intervals, gaps and limits.                 *)
(***************************************************************************)
EXTENDS Crawl, FiniteSetTheorems, TLAPS

-----------------------------------------------------------------------------
(* Arithmetic *)

\* The larger and the smaller of two numbers.
LEMMA MaxOfTwo ==
  ASSUME NEW a \in Int, NEW b \in Int
  PROVE  Max({a, b}) = IF a >= b THEN a ELSE b
<1> DEFINE m == IF a >= b THEN a ELSE b
<1>1. m \in {a, b} /\ \A y \in {a, b} : m >= y
  OBVIOUS
<1>2. \A x \in {a, b} : (\A y \in {a, b} : x >= y) => x = m
  OBVIOUS
<1> QED
  BY <1>1, <1>2 DEF Max

\* The smaller of two numbers is one of them and at most either.
LEMMA MinOfTwo ==
  ASSUME NEW a \in Int, NEW b \in Int
  PROVE  Min({a, b}) = IF a <= b THEN a ELSE b
<1> DEFINE m == IF a <= b THEN a ELSE b
<1>1. m \in {a, b} /\ \A y \in {a, b} : m <= y
  OBVIOUS
<1>2. \A x \in {a, b} : (\A y \in {a, b} : x <= y) => x = m
  OBVIOUS
<1> QED
  BY <1>1, <1>2 DEF Min

\* The longest time a feed may have to wait.
LEMMA LongestBounds ==
  /\ Longest \in Nat
  /\ \A i \in Intervals : i <= Longest
  /\ Pause <= Longest
  /\ 2 * MinGap <= Longest
<1> DEFINE S == Intervals \union {Pause, 2 * MinGap}
<1>1. PICK l \in Intervals : \A i \in Intervals : i <= l
  BY CrawlAssumption
<1>2. S \subseteq Nat
  BY CrawlAssumption
<1>3. \E m \in S : \A y \in S : m >= y
  <2>1. l \in Nat /\ Pause \in Nat /\ 2 * MinGap \in Nat
    BY <1>2
  <2>2. CASE l >= Pause /\ l >= 2 * MinGap
    BY <1>1, <1>2, <2>1, <2>2
  <2>3. CASE Pause >= l /\ Pause >= 2 * MinGap
    <3>1. \A y \in Intervals : Pause >= y
      BY <1>1, <1>2, <2>1, <2>3
    <3> QED
      BY <2>1, <2>3, <3>1
  <2>4. CASE 2 * MinGap >= l /\ 2 * MinGap >= Pause
    <3>1. \A y \in Intervals : 2 * MinGap >= y
      BY <1>1, <1>2, <2>1, <2>4
    <3> QED
      BY <2>1, <2>4, <3>1
  <2> QED
    BY <2>1, <2>2, <2>3, <2>4
<1>4. Longest \in S /\ \A y \in S : Longest >= y
  BY <1>3 DEF Longest, Max
<1> QED
  BY <1>2, <1>4

\* No interval is longer than the longest.
LEMMA IntervalRange == \A i \in Intervals \union {0} : i \in 0..Longest
<1>1. Intervals \subseteq Nat
  BY CrawlAssumption
<1> QED
  BY <1>1, LongestBounds

\* Zero, the value most columns are reset to.
LEMMA ZeroInRange ==
  /\ 0 \in 0..Longest /\ 0 \in 0..MaxErrors /\ 0 \in 0..Pause /\ 0 \in 0..MaxEntries
  /\ 0 \in Versions
  /\ Unseen \in [Validators -> Versions]
  BY CrawlAssumption, LongestBounds DEF Versions, Unseen

\* A fetch takes no more entries than the limit, and no more than there are.
LEMMA TakenRange ==
  ASSUME NEW v \in 1..MaxVersion
  PROVE  Taken(v) \in 0..MaxEntries
<1>1. SizeOf[v] \in Nat /\ MaxEntries \in Nat
  BY CrawlAssumption
<1>2. Taken(v) = IF SizeOf[v] <= MaxEntries THEN SizeOf[v] ELSE MaxEntries
  BY <1>1, MinOfTwo DEF Taken
<1> QED
  BY <1>1, <1>2

\* A power of two counts the subsets of a set.
LEMMA PowerOfTwo ==
  ASSUME NEW n \in Nat
  PROVE  2^n \in Nat
<1>1. IsFiniteSet(1..n) /\ Cardinality(1..n) = n
  BY FS_Interval
<1>2. IsFiniteSet(SUBSET (1..n)) /\ Cardinality(SUBSET (1..n)) = 2^n
  BY <1>1, FS_SUBSET
<1> QED
  BY <1>2, FS_CardinalityType

\* next_attempt_at: the delay is capped.
LEMMA NextAttemptRange ==
  ASSUME NEW base \in Intervals, NEW errors \in Nat, NEW delay \in NextAttempt(base, errors)
  PROVE  delay \in 0..Longest
<1> DEFINE full == base * 2^errors
           cap == Max({base, Pause})
<1>1. base \in Nat /\ Pause \in Nat /\ 2^errors \in Nat
  BY CrawlAssumption, PowerOfTwo
<1>2. full \in Nat
  BY <1>1
<1>3. cap \in Nat /\ cap <= Longest
  BY <1>1, MaxOfTwo, LongestBounds
<1>4. PICK d \in (full \div 2)..((3 * full) \div 2) : delay = Min({d, cap})
  BY DEF NextAttempt
<1> HIDE DEF full, cap
<1>5. d \in Nat
  BY <1>2, <1>4
<1>6. delay = IF d <= cap THEN d ELSE cap
  BY <1>3, <1>4, <1>5, MinOfTwo
<1> QED
  BY <1>3, <1>5, <1>6, LongestBounds

\* Counting errors and letting time pass stay within any bound.
LEMMA CountRange ==
  ASSUME NEW n \in 0..MaxErrors
  PROVE  Count(n) \in 0..MaxErrors
<1>1. n + 1 \in Int /\ MaxErrors \in Int /\ MaxErrors \in Nat
  BY CrawlAssumption
<1>2. Count(n) = IF n + 1 <= MaxErrors THEN n + 1 ELSE MaxErrors
  BY <1>1, MinOfTwo DEF Count
<1> QED
  BY <1>1, <1>2

\* A wait that was cut down stays in its range.
LEMMA DownRange ==
  ASSUME NEW bound \in Nat, NEW n \in 0..bound
  PROVE  Down(n) \in 0..bound
<1>1. n - 1 \in Int
  OBVIOUS
<1>2. Down(n) = IF n - 1 >= 0 THEN n - 1 ELSE 0
  BY <1>1, MaxOfTwo DEF Down
<1> QED
  BY <1>2

-----------------------------------------------------------------------------
(* Types *)

Messages == [at : States, feed : Feeds \union {NoFeed}, ttl : 0..Longest, ran : 0..TimeLimit]

Answers == [url : Urls \union {NoUrl}, moved : Urls \union {NoUrl}, ver : Versions,
            seen : [Validators -> Versions], sent : 0..MaxEntries]

Entries == Urls \X Versions \X (1..MaxEntries)

Edits == [id : Feeds \union {NoFeed}, row : Rows]

RowsOK == row \in [Feeds -> Rows]

\* A document that is being queued has a URL and a version.
DocumentOK(t) ==
  task[t].at = "ok" => /\ answer[t].url \in Urls
                       /\ answer[t].ver \in 1..MaxVersion
                       /\ answer[t].sent <= Taken(answer[t].ver)

\* A message is about a feed, and a document comes from a URL.
FetchingOK ==
  /\ task \in [Tasks -> Messages]
  /\ copy \in [Tasks -> Rows]
  /\ answer \in [Tasks -> Answers]
  /\ \A t \in Tasks : task[t].at # "idle" => task[t].feed \in Feeds
  /\ \A t \in Tasks : DocumentOK(t)

\* A request that is about to save a row knows which.
StaffOK ==
  /\ request \in [Requests -> {"idle", "insert", "save", "answered"}]
  /\ edit \in [Requests -> Edits]
  /\ \A q \in Requests : request[q] = "save" => edit[q].id \in Feeds

RestOK ==
  /\ version \in [Urls -> 1..MaxVersion]
  /\ batch \in [Rounds -> [Feeds -> Intervals \union {0}]]
  /\ cooldown \in [Hosts -> 0..MinGap]
  /\ crashes \in 0..MaxCrashes
  /\ queued \in [Feeds -> SUBSET Entries]

TypeInv == RowsOK /\ FetchingOK /\ StaffOK /\ RestOK

\* A new feed, and the value of a copy before a row is loaded.
LEMMA NewFeedType ==
  /\ \A u \in Urls, i \in Intervals : NewFeed(u, i) \in Rows
  /\ NoRow \in Rows
<1>1. \A u \in Urls, i \in Intervals : NewFeed(u, i) \in Rows
  BY ZeroInRange DEF NewFeed, Rows
<1>2. (CHOOSE u \in Urls : TRUE) \in Urls /\ (CHOOSE i \in Intervals : TRUE) \in Intervals
  BY CrawlAssumption
<1>3. NewFeed(CHOOSE u \in Urls : TRUE, CHOOSE i \in Intervals : TRUE) \in Rows
  BY <1>1, <1>2
<1> QED
  BY <1>1, <1>3 DEF NoRow, Rows

\* A message that is not under way is one of the messages.
LEMMA IdleType == Idle \in Messages /\ Idle.at = "idle"
  BY CrawlAssumption, LongestBounds DEF Idle, Message, Messages, States

\* No answer yet is one of the answers.
LEMMA NoAnswerType == NoAnswer \in Answers
  BY ZeroInRange DEF NoAnswer, Answers

\* No edit under way is one of the edits.
LEMMA NoEditType == NoEdit \in Edits
  BY NewFeedType DEF NoEdit, Edits

\* Time makes a row older.
LEMMA OlderType ==
  ASSUME NEW r \in Rows
  PROVE  /\ Older(r) \in Rows
         /\ \A c \in {"stored", "url", "seen", "interval", "active", "deleted"} : Older(r)[c] = r[c]
<1>1. r.nextIn \in 0..Longest /\ r.paused \in 0..Pause /\ Pause \in Nat
  BY CrawlAssumption DEF Rows
<1>2. Down(r.nextIn) \in 0..Longest /\ Down(r.paused) \in 0..Pause
  BY <1>1, DownRange, LongestBounds
<1>3. Older(r) = [[r EXCEPT !.nextIn = Down(r.nextIn)] EXCEPT !.paused = Down(r.paused)]
  BY DEF Older, Rows
<1> QED
  BY <1>2, <1>3 DEF Rows

\* The end of a task frees its slot.
LEMMA FinishType ==
  ASSUME FetchingOK, NEW t \in Tasks, Finish(t)
  PROVE  FetchingOK'
<1>1. /\ task' = [task EXCEPT ![t] = Idle]
      /\ copy' = [copy EXCEPT ![t] = NoRow]
      /\ answer' = [answer EXCEPT ![t] = NoAnswer]
  BY DEF Finish
<1>2. task' \in [Tasks -> Messages] /\ copy' \in [Tasks -> Rows] /\ answer' \in [Tasks -> Answers]
  BY <1>1, IdleType, NewFeedType, NoAnswerType DEF FetchingOK
<1>3. /\ task'[t].at = "idle"
      /\ \A s \in Tasks : s # t => task'[s] = task[s] /\ answer'[s] = answer[s]
  BY <1>1, IdleType DEF FetchingOK
<1> QED
  BY <1>2, <1>3 DEF FetchingOK, DocumentOK

\* A task that goes on keeps its feed.
LEMMA GotoType ==
  ASSUME FetchingOK, NEW t \in Tasks, NEW at \in States \ {"idle"}, task[t].at # "idle",
         Goto(t, at)
  PROVE  /\ task' \in [Tasks -> Messages]
         /\ task'[t].at = at
         /\ task'[t].feed = task[t].feed
         /\ \A s \in Tasks : s # t => task'[s] = task[s]
         /\ \A s \in Tasks : task'[s].at # "idle" => task'[s].feed \in Feeds
<1>1. task \in [Tasks -> Messages] /\ task[t] \in Messages
  BY DEF FetchingOK
<1>2. task' = [task EXCEPT ![t] = [task[t] EXCEPT !.at = at]]
  BY <1>1 DEF Goto
<1>3. [task[t] EXCEPT !.at = at] \in Messages
  BY <1>1 DEF Messages
<1>4. /\ task'[t] = [task[t] EXCEPT !.at = at]
      /\ \A s \in Tasks : s # t => task'[s] = task[s]
  BY <1>1, <1>2
<1>5. task'[t].at = at /\ task'[t].feed = task[t].feed
  BY <1>1, <1>4 DEF Messages
<1>6. task' \in [Tasks -> Messages]
  BY <1>1, <1>2, <1>3
<1> QED
  BY <1>4, <1>5, <1>6 DEF FetchingOK

\* An answered request.
LEMMA AnsweredType ==
  ASSUME StaffOK, NEW q \in Requests, Answered(q)
  PROVE  StaffOK'
<1>1. /\ request' \in [Requests -> {"idle", "insert", "save", "answered"}]
      /\ edit' \in [Requests -> Edits]
  BY NoEditType DEF Answered, StaffOK
<1>2. /\ request'[q] = "answered"
      /\ \A p \in Requests : p # q => request'[p] = request[p] /\ edit'[p] = edit[p]
  BY DEF Answered, StaffOK
<1> QED
  BY <1>1, <1>2 DEF StaffOK

\* A row with some columns saved is a row.
LEMMA SavedRow ==
  ASSUME RowsOK, NEW f \in Feeds, NEW r \in Rows, row' = [row EXCEPT ![f] = r]
  PROVE  RowsOK'
  BY DEF RowsOK

\* The steps of the scheduler.
LEMMA SchedulerType ==
  ASSUME TypeInv, NEW r \in Rounds,
         EnqueueDue(r) \/ LoseRound(r) \/ \E f \in Feeds, t \in Tasks : Queue(r, f, t)
  PROVE  TypeInv'
<1>1. CASE EnqueueDue(r)
  <2>1. PICK due \in SUBSET Feeds :
          /\ row' = [f \in Feeds |->
                       IF f \in due THEN [row[f] EXCEPT !.nextIn = row[f].interval] ELSE row[f]]
          /\ batch' = [batch EXCEPT ![r] =
                         [f \in Feeds |-> IF f \in due THEN row[f].interval ELSE 0]]
    BY <1>1 DEF EnqueueDue
  <2>2. ASSUME NEW f \in Feeds
        PROVE  /\ row[f] \in Rows /\ row[f].interval \in Intervals
               /\ [row[f] EXCEPT !.nextIn = row[f].interval] \in Rows
    <3>1. row[f] \in Rows /\ row[f].interval \in Intervals
      BY DEF TypeInv, RowsOK, Rows
    <3>2. row[f].interval \in 0..Longest
      BY <3>1, IntervalRange
    <3> QED
      BY <3>1, <3>2 DEF Rows
  <2>3. RowsOK'
    BY <2>1, <2>2 DEF RowsOK
  <2>4. batch' \in [Rounds -> [Feeds -> Intervals \union {0}]]
    BY <2>1, <2>2 DEF TypeInv, RestOK
  <2>5. FetchingOK' /\ StaffOK'
    BY <1>1 DEF EnqueueDue, TypeInv, FetchingOK, DocumentOK, StaffOK, fetching, staff
  <2> QED
    BY <1>1, <2>3, <2>4, <2>5 DEF EnqueueDue, TypeInv, RestOK
<1>2. CASE LoseRound(r)
  <2>1. crashes' \in 0..MaxCrashes
    BY <1>2, CrawlAssumption DEF LoseRound, TypeInv, RestOK
  <2>2. batch' \in [Rounds -> [Feeds -> Intervals \union {0}]]
    BY <1>2 DEF LoseRound, TypeInv, RestOK
  <2>3. RowsOK' /\ FetchingOK' /\ StaffOK'
    BY <1>2 DEF LoseRound, TypeInv, RowsOK, FetchingOK, DocumentOK, StaffOK, fetching, staff
  <2> QED
    BY <1>2, <2>1, <2>2, <2>3 DEF LoseRound, TypeInv, RestOK
<1>3. ASSUME NEW f \in Feeds, NEW t \in Tasks, Queue(r, f, t) PROVE TypeInv'
  <2>1. batch[r][f] \in 0..Longest
    <3>1. batch[r][f] \in Intervals \union {0}
      BY DEF TypeInv, RestOK
    <3> QED
      BY <3>1, IntervalRange
  <2>2. Message("queued", f, batch[r][f]) \in Messages
    BY <2>1, CrawlAssumption DEF Message, Messages, States
  <2>3. task' = [task EXCEPT ![t] = Message("queued", f, batch[r][f])]
    BY <1>3 DEF Queue
  <2>4. task' \in [Tasks -> Messages]
    BY <2>2, <2>3 DEF TypeInv, FetchingOK
  <2>5. /\ task'[t].at = "queued" /\ task'[t].feed = f
        /\ \A s \in Tasks : s # t => task'[s] = task[s]
    BY <2>3 DEF TypeInv, FetchingOK, Message
  <2>6. FetchingOK'
    BY <1>3, <2>4, <2>5 DEF Queue, TypeInv, FetchingOK, DocumentOK
  <2>7. batch' \in [Rounds -> [Feeds -> Intervals \union {0}]]
    BY <1>3 DEF Queue, TypeInv, RestOK
  <2>8. RowsOK' /\ StaffOK'
    BY <1>3 DEF Queue, TypeInv, RowsOK, StaffOK, staff
  <2> QED
    BY <1>3, <2>6, <2>7, <2>8 DEF Queue, TypeInv, RestOK
<1> QED
  BY <1>1, <1>2, <1>3

\* Time passes.
LEMMA TickType ==
  ASSUME TypeInv, Tick
  PROVE  TypeInv'
<1>1. RowsOK'
  BY OlderType DEF Tick, TypeInv, RowsOK
<1>2. ASSUME NEW t \in Tasks
      PROVE  /\ task'[t] \in Messages
             /\ task'[t].at = task[t].at /\ task'[t].feed = task[t].feed
  <2>1. task[t] \in Messages
    BY DEF TypeInv, FetchingOK
  <2>2. Down(task[t].ttl) \in 0..Longest
    BY <2>1, DownRange, LongestBounds DEF Messages
  <2> DEFINE n == IF Running(t) THEN task[t].ran + 1 ELSE task[t].ran
  <2>3. n \in 0..TimeLimit
    <3>1. task[t].ran \in 0..TimeLimit /\ TimeLimit \in Nat
      BY <2>1, CrawlAssumption DEF Messages
    <3>2. Running(t) => task[t].ran < TimeLimit
      BY DEF Tick, WithinLimit
    <3> QED
      BY <3>1, <3>2
  <2>4. task'[t] = [[task[t] EXCEPT !.ttl = Down(task[t].ttl)] EXCEPT !.ran = n]
    BY <2>1 DEF Tick, Messages
  <2> HIDE DEF n
  <2> QED
    BY <2>1, <2>2, <2>3, <2>4 DEF Messages
<1>3. task' \in [Tasks -> Messages]
  <2>1. task' = [t \in Tasks |-> task'[t]]
    BY DEF Tick
  <2> QED
    BY <1>2, <2>1
<1>4. copy' \in [Tasks -> Rows]
  BY OlderType DEF Tick, TypeInv, FetchingOK
<1>5. FetchingOK'
  BY <1>2, <1>3, <1>4 DEF Tick, TypeInv, FetchingOK, DocumentOK
<1>6. ASSUME NEW q \in Requests
      PROVE  edit'[q] \in Edits /\ edit'[q].id = edit[q].id
  <2>1. edit[q] \in Edits /\ edit[q].row \in Rows
    BY DEF TypeInv, StaffOK, Edits
  <2>2. edit'[q] = [edit[q] EXCEPT !.row = Older(edit[q].row)]
    BY DEF Tick
  <2> QED
    BY <2>1, <2>2, OlderType DEF Edits
<1>7. StaffOK'
  <2>1. edit' = [q \in Requests |-> edit'[q]]
    BY DEF Tick
  <2> QED
    BY <1>6, <2>1 DEF Tick, TypeInv, StaffOK
<1>8. cooldown' \in [Hosts -> 0..MinGap]
  <2>1. \A h \in Hosts : Down(cooldown[h]) \in 0..MinGap
    BY DownRange, CrawlAssumption DEF TypeInv, RestOK
  <2> QED
    BY <2>1 DEF Tick
<1> QED
  BY <1>1, <1>5, <1>7, <1>8 DEF Tick, TypeInv, RestOK

\* The steps of fetch_feed.
LEMMA FetchType ==
  ASSUME TypeInv, NEW t \in Tasks, FetchStep(t) \/ Fail(t) \/ Crash(t)
  PROVE  TypeInv'
<1> DEFINE f == task[t].feed
<1>1. /\ task[t] \in Messages /\ copy[t] \in Rows /\ answer[t] \in Answers
      /\ task[t].at # "idle" => f \in Feeds /\ row[f] \in Rows
  BY DEF TypeInv, FetchingOK, RowsOK
<1>2. FetchingOK /\ StaffOK /\ RowsOK /\ RestOK
  BY DEF TypeInv
<1> HIDE DEF f
<1>3. UNCHANGED <<version, batch, staff>>
  BY DEF FetchStep, Load, CheckRobots, Acquire, Request, QueueEntries, Follow, Save,
         RecordFailure, Fail, Crash
<1>4. StaffOK'
  BY <1>2, <1>3 DEF StaffOK, staff
<1>5. CASE Load(t)
  <2>1. task[t].at = "queued" /\ UNCHANGED <<row, cooldown, crashes, queued>>
    BY <1>5 DEF Load
  <2>2. CASE Finish(t)
    BY <1>2, <1>3, <1>4, <2>1, <2>2, FinishType DEF TypeInv, RowsOK, RestOK
  <2>3. CASE /\ Goto(t, "robots")
             /\ copy' = [copy EXCEPT ![t] = [row[f] EXCEPT !.nextIn = 0]]
             /\ UNCHANGED answer
    <3>1. [row[f] EXCEPT !.nextIn = 0] \in Rows
      BY <1>1, <2>1, IntervalRange DEF Rows
    <3>2. copy' \in [Tasks -> Rows]
      BY <1>2, <2>3, <3>1 DEF FetchingOK
    <3>3. FetchingOK'
      BY <1>2, <2>1, <2>3, <3>2, GotoType DEF FetchingOK, DocumentOK, States
    <3> QED
      BY <1>2, <1>3, <1>4, <2>1, <3>3 DEF TypeInv, RowsOK, RestOK
  <2> QED
    BY <1>5, <2>2, <2>3 DEF Load, f
<1>6. CASE CheckRobots(t)
  <2>1. task[t].at = "robots" /\ UNCHANGED <<row, cooldown, crashes, queued>>
    BY <1>6 DEF CheckRobots
  <2>2. FetchingOK'
    <3>1. CASE Finish(t)
      BY <1>2, <3>1, FinishType
    <3>2. CASE Goto(t, "acquire") /\ UNCHANGED <<copy, answer>>
      BY <1>2, <2>1, <3>2, GotoType DEF FetchingOK, DocumentOK, States
    <3> QED
      BY <1>6, <3>1, <3>2 DEF CheckRobots
  <2> QED
    BY <1>2, <1>3, <1>4, <2>1, <2>2 DEF TypeInv, RowsOK, RestOK
<1>7. CASE Acquire(t)
  <2>1. task[t].at = "acquire" /\ f \in Feeds /\ row[f] \in Rows /\ UNCHANGED <<crashes, queued>>
    BY <1>1, <1>7 DEF Acquire
  <2>2. CASE /\ cooldown' = [cooldown EXCEPT ![HostOf[copy[t].url]] = MinGap]
             /\ Goto(t, "request")
             /\ UNCHANGED <<row, copy, answer>>
    <3>1. FetchingOK'
      BY <1>2, <2>1, <2>2, GotoType DEF FetchingOK, DocumentOK, States
    <3>2. MinGap \in 0..MinGap
      BY CrawlAssumption
    <3>3. cooldown' \in [Hosts -> 0..MinGap]
      BY <1>2, <2>2, <3>2 DEF RestOK
    <3> QED
      BY <1>2, <1>3, <1>4, <2>1, <2>2, <3>1, <3>3 DEF TypeInv, RowsOK, RestOK
  <2>3. ASSUME NEW delay \in MinGap..(2 * MinGap), row' = [row EXCEPT ![f].nextIn = delay],
               Finish(t), UNCHANGED cooldown
        PROVE  TypeInv'
    <3>1. delay \in 0..Longest
      BY CrawlAssumption, LongestBounds
    <3>2. [row[f] EXCEPT !.nextIn = delay] \in Rows
      BY <2>1, <3>1 DEF Rows
    <3>3. row' = [row EXCEPT ![f] = [row[f] EXCEPT !.nextIn = delay]]
      BY <1>2, <2>1, <2>3 DEF RowsOK
    <3>4. RowsOK'
      BY <1>2, <2>1, <3>2, <3>3, SavedRow
    <3> QED
      BY <1>2, <1>3, <1>4, <2>1, <2>3, <3>4, FinishType DEF TypeInv, RestOK
  <2> QED
    BY <1>7, <2>2, <2>3 DEF Acquire, f
<1>8. CASE Request(t)
  <2>1. task[t].at = "request" /\ UNCHANGED <<row, copy, cooldown, crashes, queued>>
    BY <1>8 DEF Request
  <2>2. CASE Goto(t, "failed") /\ UNCHANGED answer
    <3>1. FetchingOK'
      BY <1>2, <2>1, <2>2, GotoType DEF FetchingOK, DocumentOK, States
    <3> QED
      BY <1>2, <1>3, <1>4, <2>1, <3>1 DEF TypeInv, RowsOK, RestOK
  <2>3. ASSUME NEW u \in {copy[t].url, MovedTo[copy[t].url]}, NEW with \in SUBSET Validators,
               NEW at \in {"not_modified", "ok"}, Goto(t, at),
               answer' = [answer EXCEPT ![t] =
                            [url |-> u, moved |-> IF u = copy[t].url THEN NoUrl ELSE u,
                             ver |-> version[u],
                             seen |-> [h \in Validators |-> IF h \in with THEN version[u] ELSE 0],
                             sent |-> 0]]
        PROVE  TypeInv'
    <3>1. u \in Urls /\ version[u] \in 1..MaxVersion
      <4>1. copy[t].url \in Urls
        BY <1>1 DEF Rows
      <4>2. u \in Urls
        BY <4>1, CrawlAssumption
      <4> QED
        BY <1>2, <4>2 DEF RestOK
    <3> DEFINE seen == [h \in Validators |-> IF h \in with THEN version[u] ELSE 0]
    <3>2. version[u] \in Versions /\ seen \in [Validators -> Versions]
      <4>1. version[u] \in Versions
        BY <3>1, CrawlAssumption DEF Versions
      <4> QED
        BY <4>1, ZeroInRange
    <3> HIDE DEF seen
    <3> DEFINE a == [url |-> u, moved |-> IF u = copy[t].url THEN NoUrl ELSE u,
                     ver |-> version[u], seen |-> seen, sent |-> 0]
    <3>3. a \in Answers /\ a.url \in Urls /\ a.ver = version[u] /\ a.sent = 0
      BY <3>1, <3>2, ZeroInRange DEF Answers
    <3>4. answer' = [answer EXCEPT ![t] = a]
      BY <2>3 DEF seen
    <3> HIDE DEF a
    <3>5. answer' \in [Tasks -> Answers] /\ answer'[t] = a /\ \A s \in Tasks : s # t => answer'[s] = answer[s]
      BY <1>2, <3>3, <3>4 DEF FetchingOK
    <3>6. 0 <= Taken(version[u])
      BY <3>1, TakenRange
    <3>7. DocumentOK(t)'
      BY <3>1, <3>3, <3>5, <3>6 DEF DocumentOK
    <3>8. FetchingOK'
      BY <1>2, <2>1, <2>3, <3>5, <3>7, GotoType DEF FetchingOK, DocumentOK, States
    <3> QED
      BY <1>2, <1>3, <1>4, <2>1, <3>8 DEF TypeInv, RowsOK, RestOK
  <2> QED
    BY <1>8, <2>2, <2>3 DEF Request
<1>9. CASE QueueEntries(t)
  <2> DEFINE a == answer[t]
             e == <<a.url, a.ver, a.sent + 1>>
  <2>1. /\ task[t].at = "ok" /\ f \in Feeds /\ UNCHANGED <<row, copy, cooldown, crashes>>
        /\ DocumentOK(t)
    BY <1>1, <1>2, <1>9 DEF QueueEntries, FetchingOK
  <2>2. a.url \in Urls /\ a.ver \in 1..MaxVersion /\ a.sent \in 0..MaxEntries
    BY <1>1, <2>1 DEF DocumentOK, Answers
  <2>3. CASE /\ a.sent < Taken(a.ver) /\ UNCHANGED task
             /\ queued' = [queued EXCEPT ![f] = @ \union {e}]
             /\ answer' = [answer EXCEPT ![t].sent = a.sent + 1]
    <3>1. Taken(a.ver) \in 0..MaxEntries /\ MaxEntries \in Nat
      BY <2>2, TakenRange, CrawlAssumption
    <3>2. a.sent + 1 \in 1..MaxEntries /\ a.sent + 1 <= Taken(a.ver)
      BY <2>2, <2>3, <3>1
    <3>3. e \in Entries
      BY <1>1, <2>2, <3>2 DEF Entries, Answers
    <3>4. queued' \in [Feeds -> SUBSET Entries]
      BY <1>2, <2>1, <2>3, <3>3 DEF RestOK
    <3> DEFINE b == [answer[t] EXCEPT !.sent = a.sent + 1]
    <3>5. b \in Answers /\ b.url = a.url /\ b.ver = a.ver /\ b.sent = a.sent + 1
      BY <1>1, <3>2 DEF Answers
    <3>6. answer' = [answer EXCEPT ![t] = b]
      BY <1>2, <2>3 DEF FetchingOK
    <3> HIDE DEF b
    <3>7. answer' \in [Tasks -> Answers] /\ answer'[t] = b /\ \A s \in Tasks : s # t => answer'[s] = answer[s]
      BY <1>2, <3>5, <3>6 DEF FetchingOK
    <3>8. DocumentOK(t)'
      BY <2>2, <3>2, <3>5, <3>7 DEF DocumentOK
    <3>9. FetchingOK'
      BY <1>2, <2>1, <2>3, <3>7, <3>8 DEF FetchingOK, DocumentOK
    <3> QED
      BY <1>2, <1>3, <1>4, <2>1, <3>4, <3>9 DEF TypeInv, RowsOK, RestOK
  <2>4. CASE Goto(t, "follow_ok") /\ UNCHANGED <<answer, queued>>
    <3>1. FetchingOK'
      BY <1>2, <2>1, <2>4, GotoType DEF FetchingOK, DocumentOK, States
    <3> QED
      BY <1>2, <1>3, <1>4, <2>1, <2>4, <3>1 DEF TypeInv, RowsOK, RestOK
  <2> QED
    BY <1>9, <2>3, <2>4 DEF QueueEntries, f
<1>10. CASE Follow(t)
  <2>1. /\ task[t].at \in {"follow_ok", "not_modified"}
        /\ UNCHANGED <<row, copy, cooldown, crashes, queued>>
    BY <1>10 DEF Follow
  <2>2. PICK at \in {"save_ok", "save_not_modified"} : Goto(t, at)
    BY <1>10 DEF Follow
  <2>3. PICK m \in Urls \union {NoUrl} : answer' = [answer EXCEPT ![t].moved = m]
    BY <1>1, <1>10 DEF Follow, Answers
  <2>4. [answer[t] EXCEPT !.moved = m] \in Answers
    BY <1>1 DEF Answers
  <2>5. answer' = [answer EXCEPT ![t] = [answer[t] EXCEPT !.moved = m]]
    BY <1>2, <2>3 DEF FetchingOK
  <2>6. answer' \in [Tasks -> Answers] /\ \A s \in Tasks : s # t => answer'[s] = answer[s]
    BY <1>2, <2>4, <2>5 DEF FetchingOK
  <2>7. FetchingOK'
    BY <1>2, <2>1, <2>2, <2>6, GotoType DEF FetchingOK, DocumentOK, States
  <2> QED
    BY <1>2, <1>3, <1>4, <2>1, <2>7 DEF TypeInv, RowsOK, RestOK
<1>11. CASE Save(t)
  <2>1. f \in Feeds /\ row[f] \in Rows /\ Finish(t) /\ UNCHANGED <<cooldown, crashes, queued>>
    BY <1>1, <1>11 DEF Save
  <2>2. NewUrl(t, f) \in Urls
    BY <1>1, <2>1 DEF NewUrl, Rows, Answers
  <2>3. SavedSeen(t, f) \in [Validators -> Versions]
    BY <1>1, <2>1 DEF SavedSeen, Rows, Answers
  <2> DEFINE r == [row[f] EXCEPT !.url = NewUrl(t, f), !.seen = SavedSeen(t, f),
                                 !.errors = 0, !.paused = 0]
  <2>4. r \in Rows
    BY <2>1, <2>2, <2>3, ZeroInRange DEF Rows
  <2>5. row' = [row EXCEPT ![f] = r]
    BY <1>2, <1>11, <2>1 DEF Save, RowsOK, f
  <2> HIDE DEF r
  <2>6. RowsOK'
    BY <1>2, <2>1, <2>4, <2>5, SavedRow
  <2> QED
    BY <1>2, <1>3, <1>4, <2>1, <2>6, FinishType DEF TypeInv, RestOK
<1>12. CASE RecordFailure(t)
  <2> DEFINE errors == Count(copy[t].errors)
  <2>1. f \in Feeds /\ row[f] \in Rows /\ Finish(t) /\ UNCHANGED <<cooldown, crashes, queued>>
    BY <1>1, <1>12 DEF RecordFailure
  <2>2. errors \in 0..MaxErrors
    BY <1>1, CountRange DEF Rows
  <2>3. PICK delay \in NextAttempt(copy[t].interval, errors) :
          row' = [row EXCEPT ![f] = [@ EXCEPT !.errors = errors, !.nextIn = delay,
                                              !.paused = PausedFor(t, errors)]]
    BY <1>12 DEF RecordFailure, f
  <2> HIDE DEF errors
  <2>4. delay \in 0..Longest
    BY <1>1, <2>2, NextAttemptRange DEF Rows
  <2>5. PausedFor(t, errors) \in 0..Pause
    BY <1>1, CrawlAssumption DEF PausedFor, Rows
  <2> DEFINE r == [row[f] EXCEPT !.errors = errors, !.nextIn = delay,
                                 !.paused = PausedFor(t, errors)]
  <2>6. r \in Rows
    BY <2>1, <2>2, <2>4, <2>5 DEF Rows
  <2>7. row' = [row EXCEPT ![f] = r]
    BY <1>2, <2>1, <2>3 DEF RowsOK
  <2> HIDE DEF r
  <2>8. RowsOK'
    BY <1>2, <2>1, <2>6, <2>7, SavedRow
  <2> QED
    BY <1>2, <1>3, <1>4, <2>1, <2>8, FinishType DEF TypeInv, RestOK
<1>13. CASE Fail(t)
  BY <1>2, <1>3, <1>4, <1>13, FinishType DEF Fail, TypeInv, RowsOK, RestOK
<1>14. CASE Crash(t)
  <2>1. f \in Feeds /\ UNCHANGED <<row, cooldown, queued>> /\ crashes' \in 0..MaxCrashes
    BY <1>1, <1>2, <1>14, CrawlAssumption DEF Crash, Running, RestOK
  <2>2. Message("queued", f, task[t].ttl) \in Messages
    BY <1>1, <2>1, CrawlAssumption DEF Message, Messages, States
  <2>3. task' = [task EXCEPT ![t] = Message("queued", f, task[t].ttl)]
    BY <1>2, <1>14 DEF Crash, FetchingOK, f
  <2>4. /\ task' \in [Tasks -> Messages] /\ task'[t] = Message("queued", f, task[t].ttl)
        /\ \A s \in Tasks : s # t => task'[s] = task[s]
    BY <1>2, <2>2, <2>3 DEF FetchingOK
  <2>5. task'[t].at = "queued" /\ task'[t].feed = f
    BY <2>4 DEF Message
  <2>6. copy' \in [Tasks -> Rows] /\ answer' \in [Tasks -> Answers]
        /\ \A s \in Tasks : s # t => answer'[s] = answer[s]
    BY <1>2, <1>14, NewFeedType, NoAnswerType DEF Crash, FetchingOK
  <2>7. FetchingOK'
    BY <1>2, <2>1, <2>4, <2>5, <2>6 DEF FetchingOK, DocumentOK
  <2> QED
    BY <1>2, <1>3, <1>4, <2>1, <2>7 DEF TypeInv, RowsOK, RestOK
<1> QED
  BY <1>5, <1>6, <1>7, <1>8, <1>9, <1>10, <1>11, <1>12, <1>13, <1>14 DEF FetchStep

\* The steps of staff requests.
LEMMA StaffType ==
  ASSUME TypeInv, NEW q \in Requests, StaffStep(q)
  PROVE  TypeInv'
<1>1. FetchingOK /\ StaffOK /\ RowsOK /\ RestOK
  BY DEF TypeInv
<1>2. FetchingOK' /\ RestOK'
  BY <1>1 DEF StaffStep, FindUrl, Insert, PatchLoad, SaveRow, Refresh, Destroy, FetchingOK,
              DocumentOK, RestOK, fetching
<1>3. \A f \in Feeds : row[f] \in Rows
  BY <1>1 DEF RowsOK
<1>4. ASSUME NEW at \in {"save", "insert"}, request' = [request EXCEPT ![q] = at],
             NEW id \in Feeds \union {NoFeed}, at = "save" => id \in Feeds,
             NEW r \in Rows, edit' = [edit EXCEPT ![q] = [id |-> id, row |-> r]]
      PROVE  StaffOK'
  <2>1. [id |-> id, row |-> r] \in Edits
    BY DEF Edits
  <2>2. /\ request' \in [Requests -> {"idle", "insert", "save", "answered"}]
        /\ edit' \in [Requests -> Edits]
    BY <1>1, <1>4, <2>1 DEF StaffOK
  <2>3. request'[q] = at /\ edit'[q].id = id
    BY <1>1, <1>4 DEF StaffOK
  <2>4. \A p \in Requests : p # q => request'[p] = request[p] /\ edit'[p] = edit[p]
    BY <1>1, <1>4 DEF StaffOK
  <2> QED
    BY <1>1, <1>4, <2>2, <2>3, <2>4 DEF StaffOK
<1>5. ASSUME NEW r \in Rows PROVE Reset(r) \in Rows
  BY ZeroInRange DEF Reset, Rows
<1>6. CASE FindUrl(q)
  <2>1. RowsOK'
    BY <1>1, <1>6 DEF FindUrl, RowsOK
  <2>2. PICK u \in Urls, i \in Intervals, a \in BOOLEAN :
          \/ Answered(q)
          \/ \E f \in Feeds :
               /\ request' = [request EXCEPT ![q] = "save"]
               /\ edit' = [edit EXCEPT ![q] =
                    [id |-> f, row |-> [Reset(row[f]) EXCEPT !.interval = i, !.active = a,
                                                            !.deleted = FALSE]]]
          \/ /\ request' = [request EXCEPT ![q] = "insert"]
             /\ edit' = [edit EXCEPT ![q] =
                           [id |-> NoFeed, row |-> [NewFeed(u, i) EXCEPT !.active = a]]]
    BY <1>6 DEF FindUrl, Holder
  <2>3. ASSUME NEW f \in Feeds
        PROVE  [Reset(row[f]) EXCEPT !.interval = i, !.active = a, !.deleted = FALSE] \in Rows
    <3>1. Reset(row[f]) \in Rows
      BY <1>3, <1>5
    <3> QED
      BY <3>1 DEF Rows
  <2>4. [NewFeed(u, i) EXCEPT !.active = a] \in Rows
    <3>1. NewFeed(u, i) \in Rows
      BY NewFeedType
    <3> QED
      BY <3>1 DEF Rows
  <2>5. StaffOK'
    BY <1>1, <1>4, <2>2, <2>3, <2>4, AnsweredType
  <2> QED
    BY <1>2, <2>1, <2>5 DEF TypeInv
<1>7. CASE Insert(q)
  <2>1. edit[q].row \in Rows
    BY <1>1 DEF StaffOK, Edits
  <2>2. RowsOK'
    BY <1>1, <1>7, <2>1 DEF Insert, RowsOK
  <2> QED
    BY <1>1, <1>2, <1>7, <2>2, AnsweredType DEF Insert, TypeInv
<1>8. CASE PatchLoad(q)
  <2>1. RowsOK'
    BY <1>1, <1>8 DEF PatchLoad, RowsOK
  <2>2. PICK f \in Feeds, u \in Urls, i \in Intervals, a \in BOOLEAN :
          \E old \in {row[f], Reset(row[f])} :
            edit' = [edit EXCEPT ![q] =
              [id |-> f, row |-> [old EXCEPT !.url = u, !.interval = i, !.active = a]]]
    <3>1. \A f \in Feeds : NewUrls \union {row[f].url} \subseteq Urls
      BY <1>3, CrawlAssumption DEF Rows
    <3>2. PICK f \in Feeds : \E u \in NewUrls \union {row[f].url}, i \in Intervals, a \in BOOLEAN :
            edit' = [edit EXCEPT ![q] =
              [id |-> f, row |-> [IF u = row[f].url THEN row[f] ELSE Reset(row[f])
                                  EXCEPT !.url = u, !.interval = i, !.active = a]]]
      BY <1>8 DEF PatchLoad
    <3>3. PICK u \in NewUrls \union {row[f].url}, i \in Intervals, a \in BOOLEAN :
            edit' = [edit EXCEPT ![q] =
              [id |-> f, row |-> [IF u = row[f].url THEN row[f] ELSE Reset(row[f])
                                  EXCEPT !.url = u, !.interval = i, !.active = a]]]
      BY <3>2
    <3> DEFINE old == IF u = row[f].url THEN row[f] ELSE Reset(row[f])
    <3>4. old \in {row[f], Reset(row[f])}
      OBVIOUS
    <3> QED
      BY <3>1, <3>3, <3>4
  <2>3. \A old \in {row[f], Reset(row[f])} :
          [old EXCEPT !.url = u, !.interval = i, !.active = a] \in Rows
    <3> TAKE old \in {row[f], Reset(row[f])}
    <3>1. old \in Rows
      BY <1>3, <1>5
    <3> QED
      BY <3>1 DEF Rows
  <2>4. request' = [request EXCEPT ![q] = "save"]
    BY <1>8 DEF PatchLoad
  <2>5. StaffOK'
    BY <1>4, <2>2, <2>3, <2>4
  <2> QED
    BY <1>2, <2>1, <2>5 DEF TypeInv
<1>9. CASE SaveRow(q)
  <2>1. edit[q].row \in Rows
    BY <1>1 DEF StaffOK, Edits
  <2>2. RowsOK'
    BY <1>1, <1>9, <2>1 DEF SaveRow, RowsOK
  <2> QED
    BY <1>1, <1>2, <1>9, <2>2, AnsweredType DEF SaveRow, TypeInv
<1>10. ASSUME NEW f \in Feeds, Refresh(q, f) \/ Destroy(q, f) PROVE TypeInv'
  <2>1. /\ [row[f] EXCEPT !.nextIn = 0, !.paused = 0] \in Rows
        /\ [row[f] EXCEPT !.deleted = TRUE, !.active = FALSE] \in Rows
    BY <1>3, ZeroInRange DEF Rows
  <2>2. \/ row' = [row EXCEPT ![f] = [row[f] EXCEPT !.nextIn = 0, !.paused = 0]]
        \/ row' = [row EXCEPT ![f] = [row[f] EXCEPT !.deleted = TRUE, !.active = FALSE]]
    BY <1>1, <1>10 DEF Refresh, Destroy, RowsOK
  <2>3. RowsOK'
    BY <1>1, <2>1, <2>2, SavedRow
  <2> QED
    BY <1>1, <1>2, <1>10, <2>3, AnsweredType DEF Refresh, Destroy, TypeInv
<1> QED
  BY <1>6, <1>7, <1>8, <1>9, <1>10 DEF StaffStep

\* Every step keeps the types.
LEMMA TypeStep ==
  ASSUME TypeInv, [Next]_vars
  PROVE  TypeInv'
<1>1. ASSUME NEW u \in Urls, Publish(u) PROVE TypeInv'
  <2>1. version' \in [Urls -> 1..MaxVersion]
    BY <1>1, CrawlAssumption DEF Publish, TypeInv, RestOK
  <2> QED
    BY <1>1, <2>1 DEF Publish, TypeInv, RowsOK, FetchingOK, DocumentOK, StaffOK, RestOK, fetching, staff
<1>2. CASE UNCHANGED vars
  BY <1>2 DEF vars, TypeInv, RowsOK, FetchingOK, DocumentOK, StaffOK, RestOK, fetching, staff
<1> QED
  BY <1>1, <1>2, SchedulerType, FetchType, StaffType, TickType DEF Next

\* The type invariant holds in every reachable state.
LEMMA TypeInvariant == Spec => []TypeInv
<1>1. Init => TypeInv
  <2> SUFFICES ASSUME Init PROVE TypeInv
    OBVIOUS
  <2>1. RowsOK
    BY NewFeedType DEF Init, RowsOK
  <2>2. FetchingOK
    BY NewFeedType, IdleType, NoAnswerType DEF Init, FetchingOK, DocumentOK
  <2>3. StaffOK
    BY NoEditType DEF Init, StaffOK
  <2>4. RestOK
    BY CrawlAssumption DEF Init, RestOK
  <2> QED
    BY <2>1, <2>2, <2>3, <2>4 DEF TypeInv
<1>2. TypeInv /\ [Next]_vars => TypeInv'
  BY TypeStep
<1> QED
  BY <1>1, <1>2, PTL DEF Spec

\* Type correctness: every wait of a feed, its pause, its errors and the delay that
\* next_attempt_at computes stay within their limits.
THEOREM CrawlTypeCorrect == Spec => []TypeOK
<1>1. TypeInv => TypeOK
  BY DEF TypeInv, TypeOK, RowsOK, FetchingOK, StaffOK, RestOK, Messages, Answers, Edits, Entries
<1> QED
  BY <1>1, TypeInvariant, PTL

-----------------------------------------------------------------------------
(* What a step may change in a row *)

\* The columns staff decides about.
Kept(f) ==
  /\ row'[f].stored = row[f].stored
  /\ row'[f].active = row[f].active
  /\ row'[f].deleted = row[f].deleted
  /\ row'[f].interval = row[f].interval

\* The row still stands for the same document.
Same(f) == Kept(f) /\ row'[f].url = row[f].url /\ row'[f].seen = row[f].seen

StaffRequest == \E q \in Requests : StaffStep(q)

\* No step but a staff request changes what staff decides, and no other step but the end of
\* a fetch changes the URL or the validators of a feed.
LEMMA SystemStep ==
  ASSUME TypeInv, [Next]_vars
  PROVE  \/ StaffRequest
         \/ \A f \in Feeds : Same(f)
         \/ \E t \in Tasks : /\ Save(t)
                             /\ \A f \in Feeds : Kept(f) /\ (f # task[t].feed => Same(f))
<1>1. row \in [Feeds -> Rows]
  BY DEF TypeInv, RowsOK
<1>2. ASSUME UNCHANGED row PROVE \A f \in Feeds : Same(f)
  BY <1>2 DEF Same, Kept
<1>3. ASSUME NEW r \in Rounds,
             EnqueueDue(r) \/ LoseRound(r) \/ \E f \in Feeds, t \in Tasks : Queue(r, f, t)
      PROVE  \A f \in Feeds : Same(f)
  <2>1. CASE EnqueueDue(r)
    <3> SUFFICES ASSUME NEW f \in Feeds PROVE Same(f)
      OBVIOUS
    <3>1. row'[f] \in {row[f], [row[f] EXCEPT !.nextIn = row[f].interval]}
      BY <2>1 DEF EnqueueDue
    <3> QED
      BY <1>1, <3>1 DEF Same, Kept, Rows
  <2> QED
    BY <1>2, <1>3, <2>1 DEF LoseRound, Queue
<1>4. CASE Tick
  <2> SUFFICES ASSUME NEW f \in Feeds PROVE Same(f)
    OBVIOUS
  <2>1. row'[f] = Older(row[f]) /\ row[f] \in Rows
    BY <1>1, <1>4 DEF Tick
  <2> QED
    BY <2>1, OlderType DEF Same, Kept
<1>5. ASSUME NEW t \in Tasks, FetchStep(t) \/ Fail(t) \/ Crash(t)
      PROVE  \/ \A f \in Feeds : Same(f)
             \/ /\ Save(t)
                /\ \A f \in Feeds : Kept(f) /\ (f # task[t].feed => Same(f))
  <2>1. CASE Acquire(t) /\ ~UNCHANGED row
    <3>1. PICK delay \in MinGap..(2 * MinGap) : row' = [row EXCEPT ![task[t].feed].nextIn = delay]
      BY <2>1 DEF Acquire
    <3> QED
      BY <1>1, <3>1 DEF Same, Kept, Rows
  <2>2. CASE RecordFailure(t)
    <3>1. PICK errors, delay :
            row' = [row EXCEPT ![task[t].feed] = [@ EXCEPT !.errors = errors, !.nextIn = delay,
                                                           !.paused = PausedFor(t, errors)]]
      BY <2>2 DEF RecordFailure
    <3> QED
      BY <1>1, <3>1 DEF Same, Kept, Rows
  <2>3. CASE Save(t)
    <3>1. PICK url, seen :
            row' = [row EXCEPT ![task[t].feed] = [@ EXCEPT !.url = url, !.seen = seen,
                                                           !.errors = 0, !.paused = 0]]
      BY <2>3 DEF Save
    <3> QED
      BY <1>1, <2>3, <3>1 DEF Same, Kept, Rows
  <2> QED
    BY <1>2, <1>5, <2>1, <2>2, <2>3
    DEF FetchStep, Load, CheckRobots, Acquire, Request, QueueEntries, Follow, Fail, Crash
<1> QED
  BY <1>2, <1>3, <1>4, <1>5 DEF Next, StaffRequest, Publish, vars

\* fetch_feed and enqueue_due_feeds never undo what staff decided: is_active, is_deleted and
\* interval_seconds change only in a step that answers a request, whatever copy of the row a
\* task saves.
THEOREM StaffDecidesAlways == Spec => StaffDecides
<1>1. ASSUME TypeInv, [Next]_vars, NEW f \in Feeds
      PROVE  \/ /\ row'[f].active = row[f].active
                /\ row'[f].deleted = row[f].deleted
                /\ row'[f].interval = row[f].interval
             \/ \E q \in Requests : request[q] # "answered" /\ request'[q] = "answered"
  <2>1. CASE \A g \in Feeds : Kept(g)
    BY <2>1 DEF Kept
  <2>2. ASSUME NEW q \in Requests, StaffStep(q)
        PROVE  UNCHANGED row \/ (request[q] # "answered" /\ request'[q] = "answered")
    <3>1. request \in [Requests -> {"idle", "insert", "save", "answered"}]
      BY <1>1 DEF TypeInv, StaffOK
    <3> QED
      BY <2>2, <3>1 DEF StaffStep, FindUrl, Insert, PatchLoad, SaveRow, Refresh, Destroy, Answered
  <2> QED
    BY <1>1, <2>1, <2>2, SystemStep DEF Same, StaffRequest
<1>2. TypeInv /\ [Next]_vars
        => [\A f \in Feeds :
              \/ /\ row'[f].active = row[f].active
                 /\ row'[f].deleted = row[f].deleted
                 /\ row'[f].interval = row[f].interval
              \/ \E q \in Requests : request[q] # "answered" /\ request'[q] = "answered"]_vars
  BY <1>1
<1> QED
  BY <1>2, TypeInvariant, PTL DEF Spec, StaffDecides

-----------------------------------------------------------------------------
(* The validators *)

\* The entries that a fetch takes from version v at URL u are among these.
Holds(entries, u, v) == \A k \in 1..Taken(v) : <<u, v, k>> \in entries

\* Each of these validators is of a document all of whose entries are among these.
Covers(entries, seen) ==
  \A h \in Validators : seen[h] # 0 => \E u \in Urls : Holds(entries, u, seen[h])

\* What a running fetch_feed carries: validators that are covered, and a document of which
\* all entries up to the last one sent, and in the end all entries taken, have been queued.
TaskCovered(t) ==
  LET f == task[t].feed
      a == answer[t] IN
  /\ Running(t) => Covers(queued[f], copy[t].seen)
  /\ task[t].at \in {"ok", "follow_ok", "save_ok"}
       => a.url \in Urls /\ \A h \in Validators : a.seen[h] \in {0, a.ver}
  /\ task[t].at = "ok" => \A k \in 1..a.sent : <<a.url, a.ver, k>> \in queued[f]
  /\ task[t].at \in {"follow_ok", "save_ok"} => Holds(queued[f], a.url, a.ver)

\* What a request is about to save: the row it loaded, which may be old, or a new feed.
EditCovered(q) ==
  /\ request[q] = "save" => Covers(queued[edit[q].id], edit[q].row.seen)
  /\ request[q] = "insert" => edit[q].row.seen = Unseen

CoverInv ==
  /\ ValidatorIsQueued
  /\ \A t \in Tasks : TaskCovered(t)
  /\ \A q \in Requests : EditCovered(q)

\* Queued entries stay queued.
Lasting == \A f \in Feeds : queued[f] \subseteq queued'[f]

\* Validators that are covered stay so as entries are added.
LEMMA CoversMore ==
  ASSUME NEW entries, NEW more, entries \subseteq more, NEW seen, Covers(entries, seen)
  PROVE  Covers(more, seen)
  BY DEF Covers, Holds

\* No validator needs any entry.
LEMMA CoversNone ==
  ASSUME NEW entries
  PROVE  Covers(entries, Unseen)
  BY DEF Covers, Unseen

\* The property in terms of what the entries cover.
LEMMA ValidatorsCovered ==
  ValidatorIsQueued <=> \A f \in Feeds : row[f].stored => Covers(queued[f], row[f].seen)
  BY DEF ValidatorIsQueued, Queued, Covers, Holds

\* Entries are only added to those that have been queued.
LEMMA QueuedGrows ==
  ASSUME TypeInv, [Next]_vars
  PROVE  Lasting
<1>1. ASSUME NEW t \in Tasks, QueueEntries(t) PROVE Lasting
  <2>1. queued \in [Feeds -> SUBSET Entries]
    BY DEF TypeInv, RestOK
  <2>2. \/ UNCHANGED queued
        \/ \E e : queued' = [queued EXCEPT ![task[t].feed] = @ \union {e}]
    BY <1>1 DEF QueueEntries
  <2> QED
    BY <2>1, <2>2 DEF Lasting
<1>2. (\E t \in Tasks : QueueEntries(t)) \/ UNCHANGED queued
  BY DEF Next, EnqueueDue, LoseRound, Queue, FetchStep, Load, CheckRobots, Acquire, Request,
         Follow, Save, RecordFailure, Fail, Crash, StaffStep, FindUrl, Insert, PatchLoad,
         SaveRow, Refresh, Destroy, Publish, Tick, vars
<1> QED
  BY <1>1, <1>2 DEF Lasting

\* The rows, after any step.
LEMMA RowsCovered ==
  ASSUME TypeInv, CoverInv, Lasting, [Next]_vars
  PROVE  ValidatorIsQueued'
<1>1. row \in [Feeds -> Rows] /\ \A f \in Feeds : queued[f] \subseteq queued'[f]
  BY DEF TypeInv, RowsOK, Lasting
<1>2. ASSUME \A f \in Feeds : row'[f].stored => Covers(queued'[f], row'[f].seen)
      PROVE  ValidatorIsQueued'
  BY <1>2 DEF ValidatorIsQueued, Queued, Covers, Holds
<1>3. ASSUME NEW f \in Feeds, row'[f].stored = row[f].stored, row'[f].seen = row[f].seen
      PROVE  row'[f].stored => Covers(queued'[f], row'[f].seen)
  <2>1. row[f].stored => Covers(queued[f], row[f].seen)
    BY ValidatorsCovered DEF CoverInv
  <2> QED
    BY <1>1, <1>3, <2>1, CoversMore
<1>4. CASE \A f \in Feeds : Same(f)
  BY <1>2, <1>3, <1>4 DEF Same, Kept
<1>5. ASSUME NEW t \in Tasks, Save(t), \A g \in Feeds : Kept(g) /\ (g # task[t].feed => Same(g))
      PROVE  ValidatorIsQueued'
  <2> DEFINE f == task[t].feed
  <2>1. /\ task[t].at \in {"save_ok", "save_not_modified"} /\ Running(t)
        /\ f \in Feeds /\ TaskCovered(t)
    BY <1>5 DEF Save, Running, TypeInv, FetchingOK, CoverInv
  <2>2. row'[f].seen = SavedSeen(t, f)
    BY <1>1, <1>5, <2>1 DEF Save, Rows
  <2>3. CASE task[t].at = "save_not_modified"
    <3>1. row'[f].seen = row[f].seen /\ row'[f].stored = row[f].stored
      BY <1>5, <2>1, <2>2, <2>3 DEF SavedSeen, Kept
    <3> QED
      BY <1>2, <1>3, <1>5, <3>1 DEF Same, Kept
  <2>4. CASE task[t].at = "save_ok"
    <3>1. /\ Covers(queued[f], copy[t].seen) /\ Holds(queued[f], answer[t].url, answer[t].ver)
          /\ answer[t].url \in Urls
          /\ \A h \in Validators : answer[t].seen[h] \in {0, answer[t].ver}
      BY <2>1, <2>4 DEF TaskCovered
    <3>2. \A h \in Validators : row'[f].seen[h] \in {copy[t].seen[h], answer[t].ver}
      BY <2>2, <2>4, <3>1 DEF SavedSeen
    <3>3. Covers(queued[f], row'[f].seen)
      BY <3>1, <3>2 DEF Covers
    <3>4. Covers(queued'[f], row'[f].seen)
      BY <1>1, <2>1, <3>3, CoversMore
    <3> QED
      BY <1>2, <1>3, <1>5, <3>4 DEF Same, Kept
  <2> QED
    BY <2>1, <2>3, <2>4
<1>6. ASSUME NEW q \in Requests, StaffStep(q)
      PROVE  ValidatorIsQueued'
  <2>1. CASE UNCHANGED row
    BY <1>2, <1>3, <2>1
  <2>2. ASSUME NEW f \in Feeds, Refresh(q, f) \/ Destroy(q, f)
        PROVE  ValidatorIsQueued'
    <3>1. \/ row' = [row EXCEPT ![f] = [row[f] EXCEPT !.nextIn = 0, !.paused = 0]]
          \/ row' = [row EXCEPT ![f] = [row[f] EXCEPT !.deleted = TRUE, !.active = FALSE]]
      BY <1>1, <2>2 DEF Refresh, Destroy
    <3>2. row'[f].stored = row[f].stored /\ row'[f].seen = row[f].seen
      BY <1>1, <3>1 DEF Rows
    <3>3. \A g \in Feeds : g # f => row'[g] = row[g]
      BY <1>1, <3>1
    <3> QED
      BY <1>2, <1>3, <3>2, <3>3
  <2>3. ASSUME NEW f \in Feeds, row' = [row EXCEPT ![f] = edit[q].row],
               Covers(queued[f], edit[q].row.seen)
        PROVE  ValidatorIsQueued'
    <3>1. row'[f] = edit[q].row /\ \A g \in Feeds : g # f => row'[g] = row[g]
      BY <1>1, <2>3
    <3>2. Covers(queued'[f], row'[f].seen)
      BY <1>1, <2>3, <3>1, CoversMore
    <3> QED
      BY <1>2, <1>3, <3>1, <3>2
  <2>4. CASE Insert(q) /\ ~UNCHANGED row
    <3>1. PICK f \in Feeds : row' = [row EXCEPT ![f] = edit[q].row]
      BY <2>4 DEF Insert
    <3>2. edit[q].row.seen = Unseen
      BY <2>4 DEF Insert, CoverInv, EditCovered
    <3> QED
      BY <2>3, <3>1, <3>2, CoversNone
  <2>5. CASE SaveRow(q) /\ ~UNCHANGED row
    <3>1. edit[q].id \in Feeds /\ row' = [row EXCEPT ![edit[q].id] = edit[q].row]
      BY <2>5 DEF SaveRow, TypeInv, StaffOK
    <3>2. Covers(queued[edit[q].id], edit[q].row.seen)
      BY <2>5 DEF SaveRow, CoverInv, EditCovered
    <3> QED
      BY <2>3, <3>1, <3>2
  <2> QED
    BY <1>6, <2>1, <2>2, <2>4, <2>5 DEF StaffStep, FindUrl, PatchLoad
<1> QED
  BY <1>4, <1>5, <1>6, SystemStep DEF StaffRequest

\* A task that stays where it is, or goes on with the validators it loaded.
LEMMA TaskGoesOn ==
  ASSUME TypeInv, CoverInv, Lasting, NEW t \in Tasks, Running(t),
         task'[t].feed = task[t].feed, copy'[t].seen = copy[t].seen
  PROVE  /\ task[t].feed \in Feeds /\ queued[task[t].feed] \subseteq queued'[task[t].feed]
         /\ Running(t)' => Covers(queued'[task'[t].feed], copy'[t].seen)
<1>1. TaskCovered(t) /\ task[t].feed \in Feeds
  BY DEF CoverInv, TypeInv, FetchingOK, Running
<1>2. Covers(queued[task[t].feed], copy[t].seen)
  BY <1>1 DEF TaskCovered
<1> QED
  BY <1>1, <1>2, CoversMore DEF Lasting

\* A task that is over, or has not begun.
LEMMA TaskRests ==
  ASSUME NEW t \in Tasks, task'[t].at \in {"idle", "queued"}
  PROVE  TaskCovered(t)'
  BY DEF TaskCovered, Running

\* A task that stays where it is.
LEMMA TaskStays ==
  ASSUME TypeInv, CoverInv, Lasting, NEW t \in Tasks,
         task'[t].at = task[t].at, task'[t].feed = task[t].feed,
         copy'[t].seen = copy[t].seen, answer'[t] = answer[t]
  PROVE  TaskCovered(t)'
<1>1. CASE ~Running(t)
  BY <1>1, TaskRests DEF Running
<1>2. CASE Running(t)
  <2>1. TaskCovered(t)
    BY DEF CoverInv
  <2>2. /\ queued[task[t].feed] \subseteq queued'[task[t].feed]
        /\ Running(t)' => Covers(queued'[task'[t].feed], copy'[t].seen)
    BY <1>2, TaskGoesOn
  <2> QED
    BY <2>1, <2>2 DEF TaskCovered, Holds
<1> QED
  BY <1>1, <1>2

\* The tasks, after a step of fetch_feed.
LEMMA FetchCovered ==
  ASSUME TypeInv, CoverInv, Lasting, NEW t \in Tasks, FetchStep(t) \/ Fail(t) \/ Crash(t)
  PROVE  \A s \in Tasks : TaskCovered(s)'
<1> DEFINE f == task[t].feed
<1>1. FetchingOK /\ TaskCovered(t) /\ copy[t] \in Rows /\ answer[t] \in Answers
  BY DEF TypeInv, CoverInv, FetchingOK
<1>2. ASSUME NEW s \in Tasks, s # t PROVE TaskCovered(s)'
  <2>1. task'[s] = task[s] /\ copy'[s] = copy[s] /\ answer'[s] = answer[s]
    BY <1>1, <1>2 DEF FetchStep, Load, CheckRobots, Acquire, Request, QueueEntries, Follow,
         Save, RecordFailure, Fail, Crash, Goto, Finish, FetchingOK
  <2> QED
    BY <2>1, TaskStays
<1>3. CASE Finish(t) \/ Crash(t)
  <2>1. task'[t].at \in {"idle", "queued"}
    BY <1>1, <1>3 DEF Finish, Crash, Message, Idle, FetchingOK
  <2> QED
    BY <1>2, <2>1, TaskRests
<1>4. ASSUME NEW at \in States \ {"idle"}, task[t].at # "idle", Goto(t, at)
      PROVE  task'[t].at = at /\ task'[t].feed = f
  BY <1>1, <1>4, GotoType
<1>5. CASE Load(t) /\ ~Finish(t)
  <2>1. /\ Live(f) /\ Goto(t, "robots") /\ task[t].at = "queued"
        /\ copy' = [copy EXCEPT ![t] = [row[f] EXCEPT !.nextIn = 0]]
    BY <1>5 DEF Load
  <2>2. f \in Feeds /\ row[f] \in Rows
    BY <2>1 DEF TypeInv, FetchingOK, RowsOK
  <2>3. copy'[t].seen = row[f].seen
    BY <1>1, <2>1, <2>2 DEF FetchingOK, Rows
  <2>4. task'[t].at = "robots" /\ task'[t].feed = f
    BY <1>4, <2>1 DEF States
  <2>5. Covers(queued[f], row[f].seen)
    BY <2>1, <2>2, ValidatorsCovered DEF Live, CoverInv
  <2>6. Covers(queued'[f], copy'[t].seen)
    BY <2>2, <2>3, <2>5, CoversMore DEF Lasting
  <2>7. TaskCovered(t)'
    BY <2>4, <2>6 DEF TaskCovered
  <2> QED
    BY <1>2, <2>7
<1>6. CASE ~Finish(t) /\ (CheckRobots(t) \/ Acquire(t))
  <2>1. /\ Running(t) /\ task[t].at # "idle" /\ UNCHANGED copy
        /\ Goto(t, "acquire") \/ Goto(t, "request")
    BY <1>6 DEF CheckRobots, Acquire, Running
  <2>2. task'[t].feed = f /\ task'[t].at \in {"acquire", "request"}
    BY <1>4, <2>1 DEF States
  <2>3. Running(t)' => Covers(queued'[task'[t].feed], copy'[t].seen)
    BY <2>1, <2>2, TaskGoesOn
  <2>4. TaskCovered(t)'
    BY <2>2, <2>3 DEF TaskCovered
  <2> QED
    BY <1>2, <2>4
<1>7. CASE Request(t)
  <2>1. Running(t) /\ task[t].at # "idle" /\ UNCHANGED copy
    BY <1>7 DEF Request, Running
  <2>2. CASE Goto(t, "failed")
    <3>1. task'[t].feed = f /\ task'[t].at = "failed"
      BY <1>4, <2>1, <2>2 DEF States
    <3>2. Running(t)' => Covers(queued'[task'[t].feed], copy'[t].seen)
      BY <2>1, <3>1, TaskGoesOn
    <3>3. TaskCovered(t)'
      BY <3>1, <3>2 DEF TaskCovered
    <3> QED
      BY <1>2, <3>3
  <2>3. CASE ~Goto(t, "failed")
    <3>1. PICK u \in {copy[t].url, MovedTo[copy[t].url]}, with \in SUBSET Validators :
            /\ Goto(t, "not_modified") \/ Goto(t, "ok")
            /\ answer' = [answer EXCEPT ![t] =
                 [url |-> u, moved |-> IF u = copy[t].url THEN NoUrl ELSE u, ver |-> version[u],
                  seen |-> [h \in Validators |-> IF h \in with THEN version[u] ELSE 0],
                  sent |-> 0]]
      BY <1>7, <2>3 DEF Request
    <3>2. u \in Urls
      <4>1. copy[t].url \in Urls
        BY <1>1 DEF Rows
      <4> QED
        BY <4>1, CrawlAssumption
    <3>3. /\ answer'[t].url = u /\ answer'[t].ver = version[u] /\ answer'[t].sent = 0
          /\ answer'[t].seen = [h \in Validators |-> IF h \in with THEN version[u] ELSE 0]
      BY <1>1, <3>1 DEF FetchingOK
    <3>4. \A h \in Validators : answer'[t].seen[h] \in {0, answer'[t].ver}
      BY <3>3
    <3>5. task'[t].feed = f /\ task'[t].at \in {"ok", "not_modified"}
      BY <1>4, <2>1, <3>1 DEF States
    <3>6. Running(t)' => Covers(queued'[task'[t].feed], copy'[t].seen)
      BY <2>1, <3>5, TaskGoesOn
    <3>7. \A k \in 1..answer'[t].sent : <<answer'[t].url, answer'[t].ver, k>> \in queued'[f]
      BY <3>3
    <3>8. TaskCovered(t)'
      BY <3>2, <3>3, <3>4, <3>5, <3>6, <3>7 DEF TaskCovered
    <3> QED
      BY <1>2, <3>8
  <2> QED
    BY <2>2, <2>3
<1>8. CASE QueueEntries(t)
  <2> DEFINE a == answer[t]
             e == <<a.url, a.ver, a.sent + 1>>
  <2>1. Running(t) /\ task[t].at = "ok" /\ UNCHANGED copy
    BY <1>8 DEF QueueEntries, Running
  <2>2. /\ f \in Feeds /\ queued \in [Feeds -> SUBSET Entries] /\ queued[f] \subseteq queued'[f]
        /\ a.sent \in Nat
    BY <1>1, <2>1 DEF TypeInv, FetchingOK, RestOK, Lasting, Answers
  <2>3. /\ a.url \in Urls /\ \A h \in Validators : a.seen[h] \in {0, a.ver}
        /\ \A k \in 1..a.sent : <<a.url, a.ver, k>> \in queued[f]
    BY <1>1, <2>1 DEF TaskCovered
  <2>4. CASE /\ UNCHANGED task
             /\ queued' = [queued EXCEPT ![f] = @ \union {e}]
             /\ answer' = [answer EXCEPT ![t].sent = a.sent + 1]
    <3>1. e \in queued'[f]
      BY <2>2, <2>4
    <3>2. /\ answer'[t].url = a.url /\ answer'[t].ver = a.ver /\ answer'[t].seen = a.seen
          /\ answer'[t].sent = a.sent + 1
      BY <1>1, <2>4 DEF FetchingOK, Answers
    <3>3. \A k \in 1..(a.sent + 1) : k \in 1..a.sent \/ k = a.sent + 1
      BY <2>2
    <3>4. \A k \in 1..answer'[t].sent : <<answer'[t].url, answer'[t].ver, k>> \in queued'[f]
      BY <2>2, <2>3, <3>1, <3>2, <3>3
    <3>5. Running(t)' => Covers(queued'[task'[t].feed], copy'[t].seen)
      BY <2>1, <2>4, TaskGoesOn
    <3>6. TaskCovered(t)'
      BY <2>1, <2>3, <2>4, <3>2, <3>4, <3>5 DEF TaskCovered
    <3> QED
      BY <1>2, <3>6
  <2>5. CASE a.sent = Taken(a.ver) /\ Goto(t, "follow_ok") /\ UNCHANGED <<answer, queued>>
    <3>1. task'[t].feed = f /\ task'[t].at = "follow_ok"
      BY <1>4, <2>1, <2>5 DEF States
    <3>2. Running(t)' => Covers(queued'[task'[t].feed], copy'[t].seen)
      BY <2>1, <3>1, TaskGoesOn
    <3>3. Holds(queued'[f], a.url, a.ver)
      BY <2>2, <2>3, <2>5 DEF Holds
    <3>4. TaskCovered(t)'
      BY <2>3, <2>5, <3>1, <3>2, <3>3 DEF TaskCovered
    <3> QED
      BY <1>2, <3>4
  <2> QED
    BY <1>8, <2>4, <2>5 DEF QueueEntries
<1>9. CASE Follow(t)
  <2>1. /\ Running(t) /\ UNCHANGED <<copy, queued>>
        /\ task[t].at \in {"follow_ok", "not_modified"}
        /\ Goto(t, IF task[t].at = "follow_ok" THEN "save_ok" ELSE "save_not_modified")
    BY <1>9 DEF Follow, Running
  <2>2. /\ answer'[t].url = answer[t].url /\ answer'[t].ver = answer[t].ver
        /\ answer'[t].seen = answer[t].seen
    BY <1>1, <1>9 DEF Follow, FetchingOK, Answers
  <2>3. /\ task'[t].feed = f
        /\ task'[t].at = IF task[t].at = "follow_ok" THEN "save_ok" ELSE "save_not_modified"
    BY <1>4, <2>1 DEF States
  <2>4. task'[t].at = "save_ok" => /\ answer[t].url \in Urls
                                   /\ \A h \in Validators : answer[t].seen[h] \in {0, answer[t].ver}
                                   /\ Holds(queued[f], answer[t].url, answer[t].ver)
    BY <1>1, <2>1, <2>3 DEF TaskCovered
  <2>5. task'[t].at \in {"save_ok", "save_not_modified"}
    BY <2>3
  <2>6. Running(t)' => Covers(queued'[task'[t].feed], copy'[t].seen)
    BY <2>1, <2>3, TaskGoesOn
  <2>7. TaskCovered(t)'
    BY <2>1, <2>2, <2>3, <2>4, <2>5, <2>6 DEF TaskCovered
  <2> QED
    BY <1>2, <2>7
<1> QED
  BY <1>3, <1>5, <1>6, <1>7, <1>8, <1>9 DEF FetchStep, Save, RecordFailure, Fail

\* The tasks, after any step.
LEMMA TasksCovered ==
  ASSUME TypeInv, CoverInv, Lasting, [Next]_vars
  PROVE  \A t \in Tasks : TaskCovered(t)'
<1>1. CASE UNCHANGED fetching
  BY <1>1, TaskStays DEF fetching
<1>2. ASSUME NEW r \in Rounds, NEW f \in Feeds, NEW t \in Tasks, Queue(r, f, t)
      PROVE  \A s \in Tasks : TaskCovered(s)'
  <2>1. task' = [task EXCEPT ![t] = Message("queued", f, batch[r][f])] /\ UNCHANGED <<copy, answer>>
    BY <1>2 DEF Queue
  <2>2. /\ task'[t].at = "queued"
        /\ \A s \in Tasks : s # t => task'[s] = task[s]
    BY <2>1 DEF TypeInv, FetchingOK, Message
  <2> QED
    BY <2>1, <2>2, TaskStays, TaskRests
<1>3. CASE Tick
  <2> SUFFICES ASSUME NEW t \in Tasks PROVE TaskCovered(t)'
    OBVIOUS
  <2>1. task[t] \in Messages /\ copy[t] \in Rows
    BY DEF TypeInv, FetchingOK
  <2>2. task'[t].at = task[t].at /\ task'[t].feed = task[t].feed
    BY <1>3, <2>1 DEF Tick, Messages
  <2>3. copy'[t] = Older(copy[t]) /\ answer'[t] = answer[t]
    BY <1>3 DEF Tick
  <2>4. copy'[t].seen = copy[t].seen
    BY <2>1, <2>3, OlderType
  <2> QED
    BY <2>2, <2>3, <2>4, TaskStays
<1> QED
  BY <1>1, <1>2, <1>3, FetchCovered
  DEF Next, EnqueueDue, LoseRound, Publish, StaffStep, FindUrl, Insert, PatchLoad, SaveRow,
      Refresh, Destroy, vars

\* A request that stays where it is.
LEMMA EditStays ==
  ASSUME TypeInv, CoverInv, Lasting, NEW q \in Requests,
         request'[q] = request[q], edit'[q].id = edit[q].id,
         edit'[q].row.seen = edit[q].row.seen
  PROVE  EditCovered(q)'
<1>1. EditCovered(q) /\ (request[q] = "save" => edit[q].id \in Feeds)
  BY DEF CoverInv, TypeInv, StaffOK
<1> QED
  BY <1>1, CoversMore DEF EditCovered, Lasting

\* The requests, after any step.
LEMMA EditsCovered ==
  ASSUME TypeInv, CoverInv, Lasting, [Next]_vars
  PROVE  \A q \in Requests : EditCovered(q)'
<1>1. CASE UNCHANGED staff
  BY <1>1, EditStays DEF staff
<1>2. CASE Tick
  <2> SUFFICES ASSUME NEW q \in Requests PROVE EditCovered(q)'
    OBVIOUS
  <2>1. edit[q] \in Edits /\ edit[q].row \in Rows
    BY DEF TypeInv, StaffOK, Edits
  <2>2. request'[q] = request[q] /\ edit'[q] = [edit[q] EXCEPT !.row = Older(edit[q].row)]
    BY <1>2 DEF Tick
  <2>3. edit'[q].id = edit[q].id /\ edit'[q].row = Older(edit[q].row)
    BY <2>1, <2>2 DEF Edits
  <2> QED
    BY <2>1, <2>2, <2>3, OlderType, EditStays
<1>3. ASSUME NEW q \in Requests, StaffStep(q)
      PROVE  \A p \in Requests : EditCovered(p)'
  <2>1. StaffOK /\ row \in [Feeds -> Rows]
    BY DEF TypeInv, RowsOK
  <2>2. ASSUME NEW p \in Requests, p # q PROVE EditCovered(p)'
    <3>1. request'[p] = request[p] /\ edit'[p] = edit[p]
      BY <1>3, <2>1, <2>2
      DEF StaffStep, FindUrl, Insert, PatchLoad, SaveRow, Refresh, Destroy, Answered, StaffOK
    <3> QED
      BY <3>1, EditStays
  <2>3. CASE Answered(q)
    <3>1. request'[q] = "answered"
      BY <2>1, <2>3 DEF Answered, StaffOK
    <3>2. EditCovered(q)'
      BY <3>1 DEF EditCovered
    <3> QED
      BY <2>2, <3>2
  <2>4. ASSUME NEW f \in Feeds, row[f].stored, NEW r \in Rows, r.seen \in {Unseen, row[f].seen},
               request' = [request EXCEPT ![q] = "save"],
               edit' = [edit EXCEPT ![q] = [id |-> f, row |-> r]]
        PROVE  EditCovered(q)'
    <3>1. request'[q] = "save" /\ edit'[q].id = f /\ edit'[q].row = r
      BY <2>1, <2>4 DEF StaffOK
    <3>2. Covers(queued[f], row[f].seen)
      BY <2>4, ValidatorsCovered DEF CoverInv
    <3>3. Covers(queued[f], r.seen)
      BY <2>4, <3>2, CoversNone
    <3>4. Covers(queued'[f], r.seen)
      BY <2>4, <3>3, CoversMore DEF Lasting
    <3> QED
      BY <3>1, <3>4 DEF EditCovered
  <2>5. ASSUME NEW f \in Feeds
        PROVE  row[f] \in Rows /\ Reset(row[f]) \in Rows /\ Reset(row[f]).seen = Unseen
    BY <2>1, ZeroInRange DEF Reset, Rows
  <2>6. CASE FindUrl(q)
    <3>1. PICK u \in Urls, i \in Intervals, a \in BOOLEAN :
            \/ Answered(q)
            \/ \E f \in Feeds :
                 /\ row[f].stored
                 /\ request' = [request EXCEPT ![q] = "save"]
                 /\ edit' = [edit EXCEPT ![q] =
                      [id |-> f, row |-> [Reset(row[f]) EXCEPT !.interval = i, !.active = a,
                                                              !.deleted = FALSE]]]
            \/ /\ request' = [request EXCEPT ![q] = "insert"]
               /\ edit' = [edit EXCEPT ![q] =
                             [id |-> NoFeed, row |-> [NewFeed(u, i) EXCEPT !.active = a]]]
      BY <2>6 DEF FindUrl, Holder
    <3>2. CASE /\ request' = [request EXCEPT ![q] = "insert"]
               /\ edit' = [edit EXCEPT ![q] =
                             [id |-> NoFeed, row |-> [NewFeed(u, i) EXCEPT !.active = a]]]
      <4>1. request'[q] = "insert" /\ edit'[q].row = [NewFeed(u, i) EXCEPT !.active = a]
        BY <2>1, <3>2 DEF StaffOK
      <4>2. [NewFeed(u, i) EXCEPT !.active = a].seen = Unseen
        BY DEF NewFeed
      <4>3. EditCovered(q)'
        BY <4>1, <4>2 DEF EditCovered
      <4> QED
        BY <2>2, <4>3
    <3>3. ASSUME NEW f \in Feeds, row[f].stored,
                 request' = [request EXCEPT ![q] = "save"],
                 edit' = [edit EXCEPT ![q] =
                   [id |-> f, row |-> [Reset(row[f]) EXCEPT !.interval = i, !.active = a,
                                                           !.deleted = FALSE]]]
          PROVE  \A p \in Requests : EditCovered(p)'
      <4> DEFINE r == [Reset(row[f]) EXCEPT !.interval = i, !.active = a, !.deleted = FALSE]
      <4>1. f \in Feeds /\ row[f].stored
        BY <3>3
      <4>2. Reset(row[f]) \in Rows
        BY <2>5, <4>1
      <4>3. r \in Rows /\ r.seen = Reset(row[f]).seen
        BY <4>2 DEF Rows
      <4>4. r.seen = Unseen
        BY <2>5, <4>1, <4>3
      <4> HIDE DEF r
      <4>5. edit' = [edit EXCEPT ![q] = [id |-> f, row |-> r]]
        BY <3>3 DEF r
      <4> QED
        BY <2>2, <2>4, <3>3, <4>1, <4>3, <4>4, <4>5
    <3> QED
      BY <2>3, <3>1, <3>2, <3>3
  <2>7. CASE PatchLoad(q)
    <3>1. PICK f \in Feeds :
            /\ row[f].stored
            /\ \E u \in NewUrls \union {row[f].url}, i \in Intervals, a \in BOOLEAN :
                 edit' = [edit EXCEPT ![q] =
                   [id |-> f, row |-> [IF u = row[f].url THEN row[f] ELSE Reset(row[f])
                                       EXCEPT !.url = u, !.interval = i, !.active = a]]]
      BY <2>7 DEF PatchLoad
    <3>2. PICK old \in {row[f], Reset(row[f])}, u \in Urls, i \in Intervals, a \in BOOLEAN :
            edit' = [edit EXCEPT ![q] =
              [id |-> f, row |-> [old EXCEPT !.url = u, !.interval = i, !.active = a]]]
      <4>1. NewUrls \union {row[f].url} \subseteq Urls
        BY <2>1, CrawlAssumption DEF Rows
      <4>2. PICK u \in NewUrls \union {row[f].url}, i \in Intervals, a \in BOOLEAN :
              edit' = [edit EXCEPT ![q] =
                [id |-> f, row |-> [IF u = row[f].url THEN row[f] ELSE Reset(row[f])
                                    EXCEPT !.url = u, !.interval = i, !.active = a]]]
        BY <3>1
      <4> DEFINE old == IF u = row[f].url THEN row[f] ELSE Reset(row[f])
      <4>3. old \in {row[f], Reset(row[f])}
        OBVIOUS
      <4> QED
        BY <4>1, <4>2, <4>3
    <3> DEFINE r == [old EXCEPT !.url = u, !.interval = i, !.active = a]
    <3>3. r \in Rows /\ r.seen \in {Unseen, row[f].seen}
      <4>1. old \in Rows /\ old.seen \in {Unseen, row[f].seen}
        BY <2>5
      <4> QED
        BY <4>1 DEF Rows
    <3>4. request' = [request EXCEPT ![q] = "save"]
      BY <2>7 DEF PatchLoad
    <3> HIDE DEF r
    <3>5. edit' = [edit EXCEPT ![q] = [id |-> f, row |-> r]]
      BY <3>2 DEF r
    <3> QED
      BY <2>2, <2>4, <3>1, <3>3, <3>4, <3>5
  <2> QED
    BY <1>3, <2>3, <2>6, <2>7 DEF StaffStep, Insert, SaveRow, Refresh, Destroy
<1> QED
  BY <1>1, <1>2, <1>3
  DEF Next, EnqueueDue, LoseRound, Queue, FetchStep, Load, CheckRobots, Acquire, Request,
      QueueEntries, Follow, Save, RecordFailure, Fail, Crash, Publish, vars, staff

\* A validator is stored only for a document whose entries, as many as a fetch takes, have all
\* been queued for the feed, however many fetches of one feed, crashes, permanent redirects
\* and whole-row PATCHes with old copies interleave.
THEOREM ValidatorIsQueuedAlways == Spec => []ValidatorIsQueued
<1>1. ASSUME Init PROVE CoverInv
  <2>1. ValidatorIsQueued
    <3> SUFFICES ASSUME NEW f \in Feeds PROVE row[f].seen = Unseen
      BY ValidatorsCovered, CoversNone
    <3>1. row[f] = NoRow \/ \E u \in Urls, i \in Intervals : row[f] = NewFeed(u, i)
      BY <1>1 DEF Init
    <3>2. \A u, i : NewFeed(u, i).seen = Unseen
      BY DEF NewFeed
    <3>3. NoRow.seen = Unseen
      <4>1. \A u, i : [NewFeed(u, i) EXCEPT !.stored = FALSE].seen = Unseen
        BY DEF NewFeed
      <4> QED
        BY <4>1 DEF NoRow
    <3> QED
      BY <3>1, <3>2, <3>3
  <2>2. \A t \in Tasks : TaskCovered(t)
    BY <1>1 DEF Init, TaskCovered, Running, Idle, Message
  <2>3. \A q \in Requests : EditCovered(q)
    BY <1>1 DEF Init, EditCovered
  <2> QED
    BY <2>1, <2>2, <2>3 DEF CoverInv
<1>2. ASSUME TypeInv, CoverInv, [Next]_vars PROVE CoverInv'
  <2>1. Lasting /\ ValidatorIsQueued'
    BY <1>2, QueuedGrows, RowsCovered
  <2>2. \A t \in Tasks : TaskCovered(t)'
    BY <1>2, <2>1, TasksCovered
  <2>3. \A q \in Requests : EditCovered(q)'
    BY <1>2, <2>1, EditsCovered
  <2> QED
    BY <2>1, <2>2, <2>3 DEF CoverInv
<1>3. CoverInv => ValidatorIsQueued
  BY DEF CoverInv
<1> QED
  BY <1>1, <1>2, <1>3, TypeInvariant, PTL DEF Spec
=============================================================================
