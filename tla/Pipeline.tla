------------------------------- MODULE Pipeline -------------------------------
(***************************************************************************)
(* From an entry in the queue to the deliveries of its article:            *)
(* process_article (module Articles) and the chain it announces each       *)
(* article with (module Tagging), with the failures of both.               *)
(***************************************************************************)
EXTENDS Tagging

CONSTANTS Guids, NoGuid, Hashes, Tasks, BadEntry, NoArticle, MaxCrashes

VARIABLES stored, guid, hash, moved, processed, pc, entry, article, crashes,
          announced, doubtful, orphaned

A == INSTANCE Articles

articleVars == <<stored, guid, hash, moved, processed, pc, entry, article, crashes,
                 announced, doubtful, orphaned>>
vars == <<articleVars, tagVars>>

Init == A!Init /\ TagInit

\* article_created.send calls on_article_created before it returns.
WithReceiver ==
  /\ IF announced' = announced THEN UNCHANGED chain
     ELSE \E i \in Ids : announced'[i] > announced[i] /\ OnArticleCreated(i)
  /\ UNCHANGED <<tables, staff, restarts>>

ProcessArticle(t) == A!Step(t) /\ WithReceiver

Next ==
  \/ \E t \in Tasks : ProcessArticle(t)
  \/ \E t \in Tasks : (A!Enqueue(t) \/ A!Fail(t) \/ A!Crash(t)) /\ WithReceiver
  \/ /\ \/ \E m \in Msgs : ChainStep(m) \/ FailChain(m) \/ Restart(m)
        \/ StaffStep(stored)
     /\ UNCHANGED articleVars

\* Queued messages are taken by some worker, and the statements of a running
\* task return or raise.
Spec ==
  /\ Init /\ [][Next]_vars
  /\ \A t \in Tasks : WF_vars(ProcessArticle(t))
  /\ \A m \in Msgs : WF_vars(ChainStep(m) /\ UNCHANGED articleVars)

\* A stored article is fanned out eventually, also when the worker that inserted,
\* announced or tagged it is lost in between.  It is not only where the code gives
\* up on it: the claimer stopped between claim and publication, a process_article
\* task failed, or a task of the chain did.
StoredIsFannedOut ==
  \A i \in Ids :
    i \in stored ~> \/ \E m \in Msgs : about[m] = i /\ at[m] \in {"done", "failed"}
                    \/ i \in orphaned
                    \/ \E t \in Tasks : pc[t] \in {"failed", "killed"}
=============================================================================
