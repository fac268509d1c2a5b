------------------------------ MODULE Articles ------------------------------
(***************************************************************************)
(* The process_article task (tasks/articles.py) and the upsert it calls    *)
(* (apps/articles/services.py): entries of one feed are stored once, and   *)
(* each stored article is handed to tagging and fan-out once.              *)
(*                                                                         *)
(* Both unique keys are per feed, so feeds do not meet and the module has  *)
(* one.  An entry is what normalize_entry makes of it: a guid, which may   *)
(* be empty, and a content hash.  Every SQL statement is a step of its     *)
(* own, as each one commits by itself, so the tasks of entries that share  *)
(* a key interleave between statements.                                    *)
(***************************************************************************)
EXTENDS Integers

CONSTANTS
  Guids,      \* guids other than ''
  NoGuid,     \* ''
  Hashes,     \* content hashes
  Ids,        \* article ids the table can hand out
  Tasks,      \* process_article messages, one element per message ever queued
  BadEntry,   \* an entry normalize_entry refuses, such as one without a usable link
  NoArticle,  \* a task that has not found its article
  MaxCrashes  \* bound: how many crashes of a worker host happen

Entries == [guid : Guids \union {NoGuid}, hash : Hashes]

ASSUME ArticlesAssumption ==
  /\ NoGuid \notin Guids
  /\ NoArticle \notin Ids
  /\ BadEntry \notin Entries
  /\ MaxCrashes \in Nat

VARIABLES
  stored,     \* ids of the rows of articles_article
  guid, hash, \* their unique keys
  moved,      \* history: content hashes that an edit replaced by others
  processed,  \* ids whose processed_at is set
  pc,         \* where each message is
  entry,      \* the entry it carries
  article,    \* the article its task found or made
  crashes,    \* worker hosts lost so far
  announced,  \* history: how often tagging and fan-out were queued for an id
  doubtful,   \* history: how often they were although the publisher saw an error
  orphaned    \* history: ids whose claimer stopped before it could queue or release

rows == <<stored, guid, hash, moved>>
history == <<announced, doubtful, orphaned>>
vars == <<rows, processed, pc, entry, article, crashes, history>>

RunningPcs == {"insert", "edit", "touch", "claim", "announce", "release"}

Ends == {"done", "skipped", "failed", "conflict lost", "killed"}

\* Rows, messages and histories stay in their ranges, and processed_at is set on
\* stored articles only.
TypeOK ==
  /\ stored \in SUBSET Ids
  /\ guid \in [Ids -> Guids \union {NoGuid}]
  /\ hash \in [Ids -> Hashes]
  /\ moved \in SUBSET Hashes
  /\ processed \in SUBSET stored
  /\ pc \in [Tasks -> {"idle", "queued"} \union RunningPcs \union Ends]
  /\ entry \in [Tasks -> Entries \union {BadEntry}]
  /\ article \in [Tasks -> Ids \union {NoArticle}]
  /\ crashes \in 0..MaxCrashes
  /\ announced \in [Ids -> Nat]
  /\ doubtful \in [Ids -> Nat]
  /\ orphaned \in SUBSET Ids

Init ==
  /\ stored = {}
  /\ guid \in [Ids -> {NoGuid}]
  /\ \E h \in Hashes : hash = [i \in Ids |-> h]   \* no row yet: the value is not read
  /\ moved = {}
  /\ processed = {}
  /\ pc = [t \in Tasks |-> "idle"]
  /\ entry \in [Tasks -> Entries \union {BadEntry}]
  /\ article = [t \in Tasks |-> NoArticle]
  /\ crashes = 0
  /\ announced = [i \in Ids |-> 0]
  /\ doubtful = [i \in Ids |-> 0]
  /\ orphaned = {}

Running(t) == pc[t] \in RunningPcs

Goto(t, next) == pc' = [pc EXCEPT ![t] = next] /\ UNCHANGED <<entry, article>>

\* The upsert returns article i; the task goes on to claim it.
Found(t, i) ==
  /\ pc' = [pc EXCEPT ![t] = "claim"]
  /\ article' = [article EXCEPT ![t] = i]
  /\ UNCHANGED entry

SameGuid(i, e) == e.guid # NoGuid /\ guid[i] = e.guid

(***************************************************************************)
(* fetch_feed queues one message per entry, and queues the same entry or a *)
(* newer version of it again on later fetches.                             *)
(***************************************************************************)
Enqueue(t) ==
  /\ pc[t] = "idle"
  /\ Goto(t, "queued")
  /\ UNCHANGED <<rows, processed, crashes, history>>

(***************************************************************************)
(* process_article.                                                        *)
(***************************************************************************)
\* normalize_entry, and the early return for an entry it refuses.
Normalize(t) ==
  /\ pc[t] = "queued"
  /\ Goto(t, IF entry[t] = BadEntry THEN "skipped" ELSE "insert")
  /\ UNCHANGED <<rows, processed, crashes, history>>

\* The unique indexes of the table, as an insert meets them.
Conflict(e) == \E i \in stored : SameGuid(i, e) \/ hash[i] = e.hash

NewRow(i, e) ==
  /\ stored' = stored \union {i}
  /\ guid' = [guid EXCEPT ![i] = e.guid]
  /\ hash' = [hash EXCEPT ![i] = e.hash]
  /\ UNCHANGED moved

\* _INSERT
Insert(t) ==
  LET e == entry[t]
  IN /\ pc[t] = "insert"
     /\ \/ /\ ~Conflict(e)
           /\ \E i \in Ids \ stored : NewRow(i, e) /\ Found(t, i)
        \/ /\ Conflict(e)
           /\ Goto(t, "edit")
           /\ UNCHANGED rows
     /\ UNCHANGED <<processed, crashes, history>>

\* The row _UPDATE_EDITED changes: same guid, new content that no row has.
Editable(i, e) ==
  /\ SameGuid(i, e)
  /\ hash[i] # e.hash
  /\ \A j \in stored : hash[j] # e.hash

\* _UPDATE_EDITED.  A row that gets this content while the statement runs makes
\* the unique index raise; the handler goes on to touch, as for no row.
Edit(t) ==
  LET e == entry[t]
  IN /\ pc[t] = "edit"
     /\ \/ \E i \in stored :
             /\ Editable(i, e)
             /\ hash' = [hash EXCEPT ![i] = e.hash]
             /\ moved' = moved \union {hash[i]}
             /\ Found(t, i)
        \/ /\ \A i \in stored : ~Editable(i, e)
           /\ Goto(t, "touch")
           /\ UNCHANGED <<hash, moved>>
     /\ UNCHANGED <<stored, guid, processed, crashes, history>>

\* Mutant: the touch looks for the guid alone when the entry has one.
Touchable_GuidFirst(i, e) ==
  IF e.guid # NoGuid THEN SameGuid(i, e) ELSE hash[i] = e.hash

\* _TOUCH_EXISTING prefers the row with the entry's guid to one with its hash.
Touchable(i, e) ==
  \/ SameGuid(i, e)
  \/ hash[i] = e.hash /\ \A j \in stored : ~SameGuid(j, e)

\* Mutant: a duplicate entry ends the task, so only the inserting task claims.
Touch_NoClaim(t) ==
  /\ pc[t] = "touch"
  /\ Goto(t, "done")
  /\ UNCHANGED <<rows, processed, crashes, history>>

\* _TOUCH_EXISTING; with no row left that conflicts, upsert_article raises.
Touch(t) ==
  LET e == entry[t]
  IN /\ pc[t] = "touch"
     /\ \/ \E i \in stored : Touchable(i, e) /\ Found(t, i)
        \/ (\A i \in stored : ~Touchable(i, e)) /\ Goto(t, "conflict lost")
     /\ UNCHANGED <<rows, processed, crashes, history>>

\* Mutant: an article counts as claimable whenever the task gets to it.
Unclaimed_Always(i) == TRUE

Unclaimed(i) == i \notin processed

\* claim_processing
Claim(t) ==
  LET i == article[t]
  IN /\ pc[t] = "claim"
     /\ \/ /\ Unclaimed(i)
           /\ processed' = processed \union {i}
           /\ Goto(t, "announce")
        \/ /\ ~Unclaimed(i)
           /\ Goto(t, "done")
           /\ UNCHANGED processed
     /\ UNCHANGED <<rows, crashes, history>>

\* Mutant: the task ends with the exception of the publisher.
OnPublishError_NoRelease(t) == Goto(t, "failed")

\* The handler around article_created.send.
OnPublishError(t) == Goto(t, "release")

\* article_created.send: the receiver publishes the chain of apply_tag_rules and
\* fanout_instant.  A broker error may come after the broker took the message.
Announce(t) ==
  LET i == article[t]
  IN /\ pc[t] = "announce"
     /\ \/ /\ announced' = [announced EXCEPT ![i] = @ + 1]
           /\ Goto(t, "done")
           /\ UNCHANGED doubtful
        \/ /\ OnPublishError(t)
           /\ UNCHANGED <<announced, doubtful>>
        \/ /\ OnPublishError(t)
           /\ announced' = [announced EXCEPT ![i] = @ + 1]
           /\ doubtful' = [doubtful EXCEPT ![i] = @ + 1]
     /\ UNCHANGED <<rows, processed, crashes, orphaned>>

\* release_processing, after which the exception ends the task.
Release(t) ==
  /\ pc[t] = "release"
  /\ processed' = processed \ {article[t]}
  /\ Goto(t, "failed")
  /\ UNCHANGED <<rows, crashes, history>>

(***************************************************************************)
(* Ways for a task to be cut short.                                        *)
(***************************************************************************)
\* The worker of t stops where it is.  Between the claim and the end of the
\* handler this leaves an article claimed by nobody, unless the chain was
\* published just before.
Abandon(t) ==
  \/ /\ pc[t] \in {"announce", "release"}
     /\ orphaned' = orphaned \union {article[t]}
     /\ UNCHANGED <<announced, doubtful>>
  \/ /\ pc[t] = "announce"
     /\ announced' = [announced EXCEPT ![article[t]] = @ + 1]
     /\ UNCHANGED <<doubtful, orphaned>>
  \/ /\ pc[t] \notin {"announce", "release"}
     /\ UNCHANGED history

\* A database error or a time limit: the task fails and its message is
\* acknowledged (process_article has no retries).  At "announce" the time limit
\* is the hard one: the soft one is an exception the handler catches.
Fail(t) ==
  /\ Running(t)
  /\ Goto(t, "killed")
  /\ Abandon(t)
  /\ UNCHANGED <<rows, processed, crashes>>

\* The worker host is lost: the unacknowledged message is delivered again.
Crash(t) ==
  /\ crashes < MaxCrashes
  /\ Running(t)
  /\ crashes' = crashes + 1
  /\ pc' = [pc EXCEPT ![t] = "queued"]
  /\ article' = [article EXCEPT ![t] = NoArticle]
  /\ Abandon(t)
  /\ UNCHANGED <<rows, processed, entry>>

Step(t) ==
  \/ Normalize(t) \/ Insert(t) \/ Edit(t) \/ Touch(t)
  \/ Claim(t) \/ Announce(t) \/ Release(t)

Next == \E t \in Tasks : Enqueue(t) \/ Step(t) \/ Fail(t) \/ Crash(t)

Spec == Init /\ [][Next]_vars

(***************************************************************************)
(* Properties.                                                             *)
(***************************************************************************)
\* The task that has claimed article i and not queued or released it yet.
Claims(t, i) == pc[t] \in {"announce", "release"} /\ article[t] = i

\* upsert_article: an entry that met a conflict finds its row again at the edit or
\* the touch, although those are statements of their own.  The upsert raises
\* "conflict lost" only when an edit by another task has replaced the content it met.
LostOnlyToEdit ==
  \A t \in Tasks : pc[t] = "conflict lost" => entry[t].hash \in moved

\* "article_created fires once per article": tagging and fan-out are queued a
\* second time only after a publisher got an error for a chain the broker took.
AnnouncedOnce == \A i \in Ids : announced[i] <= doubtful[i] + 1

\* Of one article there is one claimer at a time, so a release never undoes the
\* claim of another task.
OneClaimer == \A i \in Ids : \A t, u \in Tasks : Claims(t, i) /\ Claims(u, i) => t = u

\* processed_at is set only on articles that were queued, are about to be, or
\* whose claimer stopped between claim_processing and the end of the handler.
ClaimedOrOrphaned ==
  \A i \in processed : announced[i] > 0 \/ i \in orphaned \/ \E t \in Tasks : Claims(t, i)

\* The entry of task t is the one row i was made of, or a version of it: the
\* upsert will come to i.
LeadsTo(t, i) ==
  /\ entry[t] # BadEntry
  /\ guid[i] = entry[t].guid
  /\ guid[i] = NoGuid => hash[i] = entry[t].hash

\* A task that has article i, or is on its way to it, or stopped with an error there.
InHand(t, i) ==
  /\ pc[t] \in {"queued", "failed", "killed"} \union RunningPcs
  /\ article[t] = i \/ (article[t] = NoArticle /\ LeadsTo(t, i))

\* No stored article is forgotten: until it is queued for tagging, or its claimer
\* is lost, a task has it, also when the task that inserted it was lost before the
\* claim and finds the row as a duplicate, edited by others in between.
StoredIsInHand ==
  \A i \in stored : announced[i] > 0 \/ i \in orphaned \/ \E t \in Tasks : InHand(t, i)

\* The comment at the claim: "when queueing failed (or the worker died) after an
\* insert, the redelivered task finds the article unprocessed and queues it
\* then".  A task that returns normally leaves its article queued, or claimed by
\* a task that is about to queue it.
DoneIsQueued ==
  \A t \in Tasks :
    pc[t] = "done" => announced[article[t]] > 0 \/ \E u \in Tasks : Claims(u, article[t])
=============================================================================
