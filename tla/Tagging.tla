------------------------------- MODULE Tagging -------------------------------
(***************************************************************************)
(* What happens to an article once process_article has announced it: the   *)
(* receiver publishes the chain of apply_tag_rules and fanout_instant, tag *)
(* rules attach tags, and the fan-out queues a delivery for each instant   *)
(* subscription whose filters match, while staff edit tags and rules.      *)
(*                                                                         *)
(* A message is one task of a chain.  A rule is one of a few forms, the    *)
(* text of an article the keywords it holds when the task reads it.  The   *)
(* search query and the feeds of a subscription are taken to match; its    *)
(* tag filter is modelled.                                                 *)
(***************************************************************************)
EXTENDS Integers, FiniteSets

CONSTANTS
  Ids,        \* articles
  Tags,       \* tags
  Rules,      \* ids of tag rules
  Forms,      \* rules as staff can save them
  Keywords,   \* keywords of rules
  Languages,  \* languages of articles
  Texts,      \* what an article can hold: its keywords and its language
  AnyLanguage,\* a rule without a language
  Subs,       \* instant subscriptions
  TagIds,     \* their tag_ids
  Msgs,       \* task messages, one element per message ever published
  MaxEdits,   \* bound: changes by staff and owners
  MaxRestarts \* bound: worker hosts lost

RuleForms ==
  [keywords : (SUBSET Keywords) \ {{}}, match : {"any", "all"},
   language : Languages \union {AnyLanguage}, tag : Tags, is_active : BOOLEAN]

ASSUME TaggingAssumption ==
  /\ Forms \subseteq RuleForms
  /\ \A form \in Forms : IsFiniteSet(form.keywords)
  /\ Texts \subseteq [words : SUBSET Keywords, language : Languages]
  /\ TagIds \in [Subs -> SUBSET Tags]
  /\ AnyLanguage \notin Languages
  /\ MaxEdits \in Nat /\ MaxRestarts \in Nat

VARIABLES
  tags,       \* rows of tags_tag
  rules,      \* rows of tags_tagrule: rule id -> form
  attached,   \* rows of tags_articletag: <<article, tag>>
  hidden,     \* articles with is_deleted
  feedDeleted,\* is_deleted of the articles' feed
  active,     \* subscriptions with is_active
  at,         \* where each message is
  about,      \* the article it is about
  text,       \* the article as apply_rules_to_article read it
  todo,       \* rules it still has to try, or subscriptions still to queue
  queued,     \* deliveries queued: <<subscription, article>>
  edits, restarts,
  due,        \* history: tags the rules called for when the message read them
  called,     \* history: <<article, tag>> that rules ever called for, or staff added
  removed,    \* history: <<article, tag>> that staff took away
  paused,     \* history: subscriptions that were paused once
  feedGone    \* history: the feed was deleted once

tables == <<tags, rules, attached, hidden, feedDeleted, active, queued>>
chain == <<at, about, text, todo, due, called>>
staff == <<edits, removed, paused, feedGone>>
tagVars == <<tables, chain, staff, restarts>>

NoText == [words |-> {}, language |-> AnyLanguage]
Ongoing == {"tags", "tagging", "fanout", "queueing"}

TagInit ==
  /\ tags = Tags /\ attached = {} /\ hidden = {} /\ feedDeleted = FALSE /\ active = Subs /\ queued = {}
  /\ \E R \in SUBSET Rules : rules \in [R -> Forms]
  /\ at = [m \in Msgs |-> "free"] /\ text = [m \in Msgs |-> NoText]
  /\ about \in {[m \in Msgs |-> i] : i \in Ids}     \* not read before it is set
  /\ todo = [m \in Msgs |-> {}] /\ due = [m \in Msgs |-> {}]
  /\ edits = 0 /\ restarts = 0 /\ called = {} /\ removed = {} /\ paused = {}
  /\ feedGone = FALSE

Free(m) == at[m] = "free"

\* A task is over: its locals are gone, and the message is at the next stage.
Over(m, stage) ==
  /\ at' = [at EXCEPT ![m] = stage]
  /\ text' = [text EXCEPT ![m] = NoText]
  /\ todo' = [todo EXCEPT ![m] = {}]
  /\ UNCHANGED <<about, due, called>>

Publish(m, stage, i) ==
  /\ Free(m)
  /\ at' = [at EXCEPT ![m] = stage]
  /\ about' = [about EXCEPT ![m] = i]
  /\ UNCHANGED <<text, todo, due, called>>

\* on_article_created: the chain; its second task is published by the first.
OnArticleCreated(i) == \E m \in Msgs : Publish(m, "tags", i)

-----------------------------------------------------------------------------
(***************************************************************************)
(* apply_tag_rules                                                         *)
(***************************************************************************)
\* Mutant: one keyword is enough for every rule.
Matches_Any(form, t) ==
  form.language \in {AnyLanguage, t.language} /\ form.keywords \intersect t.words # {}

Matches(form, t) ==
  LET hit_count == Cardinality(form.keywords \intersect t.words)
  IN /\ form.language # AnyLanguage => form.language = t.language
     /\ \/ form.match = "any" /\ hit_count > 0
        \/ form.match = "all" /\ hit_count = Cardinality(form.keywords)

Called(form, t) ==
  /\ form.language \in {AnyLanguage, t.language}
  /\ IF form.match = "any" THEN form.keywords \intersect t.words # {}
     ELSE form.keywords \subseteq t.words

\* The article is read, then the active rules, once.  For an article that was
\* hidden meanwhile Article.DoesNotExist ends the chain.
ReadRules(m) ==
  /\ at[m] = "tags"
  /\ \/ /\ about[m] \in hidden
        /\ Over(m, "failed")
     \/ /\ about[m] \notin hidden /\ UNCHANGED about
        /\ at' = [at EXCEPT ![m] = "tagging"]
        /\ \E t \in Texts :
             LET loaded == {rules[r] : r \in {r \in DOMAIN rules : rules[r].is_active}}
                 wanted == {f.tag : f \in {f \in loaded : Called(f, t)}}
             IN /\ text' = [text EXCEPT ![m] = t]
                /\ todo' = [todo EXCEPT ![m] = loaded]
                /\ due' = [due EXCEPT ![m] = wanted]
                /\ called' = called \union ({about[m]} \X wanted)
  /\ UNCHANGED <<tables, staff, restarts>>

\* One rule.  get_or_create of a tag that is gone raises, and ends the chain.
TryRule(m) ==
  /\ at[m] = "tagging"
  /\ \E f \in todo[m] :
       \/ /\ Matches(f, text[m]) /\ f.tag \notin tags
          /\ Over(m, "failed") /\ UNCHANGED attached
       \/ /\ Matches(f, text[m]) => f.tag \in tags
          /\ attached' = IF Matches(f, text[m]) THEN attached \union {<<about[m], f.tag>>}
                         ELSE attached
          /\ todo' = [todo EXCEPT ![m] = @ \ {f}]
          /\ UNCHANGED <<at, about, text, due, called>>
  /\ UNCHANGED <<tags, rules, hidden, feedDeleted, active, queued, staff, restarts>>

\* Mutant: the fan-out does not wait for the last rule.
EndTags_Early(m) ==
  /\ at[m] = "tagging"
  /\ Over(m, "fanout")
  /\ UNCHANGED <<tables, staff, restarts>>

\* The task succeeded: the worker publishes the rest of the chain.
EndTags(m) ==
  /\ at[m] = "tagging" /\ todo[m] = {}
  /\ Over(m, "fanout")
  /\ UNCHANGED <<tables, staff, restarts>>

-----------------------------------------------------------------------------
(***************************************************************************)
(* fanout_instant                                                          *)
(***************************************************************************)
\* _MATCH_INSTANT_SQL, for a subscription whose query and feeds match.
Matching(s, i) ==
  /\ i \notin hidden /\ ~feedDeleted /\ s \in active
  /\ TagIds[s] = {} \/ \E g \in TagIds[s] : <<i, g>> \in attached

Match(m) ==
  /\ at[m] = "fanout"
  /\ todo' = [todo EXCEPT ![m] = {s \in Subs : Matching(s, about[m])}]
  /\ at' = [at EXCEPT ![m] = "queueing"]
  /\ UNCHANGED <<about, text, due, called, tables, staff, restarts>>

QueueOne(m) ==
  /\ at[m] = "queueing"
  /\ \E s \in todo[m] :
       /\ queued' = queued \union {<<s, about[m]>>}
       /\ todo' = [todo EXCEPT ![m] = @ \ {s}]
  /\ UNCHANGED <<at, about, text, due, called, tags, rules, attached, hidden, feedDeleted, active, staff, restarts>>

EndFanout(m) ==
  /\ at[m] = "queueing" /\ todo[m] = {}
  /\ Over(m, "done")
  /\ UNCHANGED <<tables, staff, restarts>>

-----------------------------------------------------------------------------
(***************************************************************************)
(* How a task ends otherwise.                                              *)
(***************************************************************************)
\* A database or broker error, a time limit: nothing is retried and the rest of
\* the chain never runs.
FailChain(m) ==
  /\ at[m] \in Ongoing
  /\ Over(m, "failed")
  /\ UNCHANGED <<tables, staff, restarts>>

\* The worker host is lost and the task delivered again, from its start; at the
\* end of apply_tag_rules its successor may have been published already.
Restart(m) ==
  /\ restarts < MaxRestarts
  /\ restarts' = restarts + 1
  /\ \/ /\ at[m] \in {"tagging", "queueing"}
        /\ Over(m, IF at[m] = "tagging" THEN "tags" ELSE "fanout")
     \/ /\ at[m] = "tagging" /\ todo[m] = {}
        /\ \E n \in Msgs :
             /\ Free(n)
             /\ at' = [at EXCEPT ![m] = "tags", ![n] = "fanout"]
             /\ about' = [about EXCEPT ![n] = about[m]]
             /\ due' = [due EXCEPT ![n] = due[m]]
             /\ text' = [text EXCEPT ![m] = NoText]
        /\ UNCHANGED <<todo, called>>
  /\ UNCHANGED <<tables, staff>>

-----------------------------------------------------------------------------
(***************************************************************************)
(* Staff, owners and the clean-up meanwhile.                               *)
(***************************************************************************)
Edit == edits < MaxEdits /\ edits' = edits + 1

\* ArticleTagView.post and delete, which refuse hidden articles.
Attach(i, g) ==
  /\ Edit /\ i \notin hidden /\ g \in tags
  /\ attached' = attached \union {<<i, g>>}
  /\ called' = called \union {<<i, g>>}
  /\ UNCHANGED <<at, about, text, todo, due>>
  /\ UNCHANGED <<tags, rules, hidden, feedDeleted, active, queued, removed, paused, feedGone, restarts>>

Detach(i, g) ==
  /\ Edit /\ i \notin hidden /\ <<i, g>> \in attached
  /\ attached' = attached \ {<<i, g>>}
  /\ removed' = removed \union {<<i, g>>}
  /\ UNCHANGED <<tags, rules, hidden, feedDeleted, active, queued, paused, feedGone, chain, restarts>>

\* Mutant: the rules and article tags of a deleted tag are left.
DeleteTag_NoCascade(g) ==
  /\ Edit /\ g \in tags
  /\ tags' = tags \ {g}
  /\ UNCHANGED <<rules, attached, hidden, feedDeleted, active, queued, removed, paused, feedGone, chain, restarts>>

\* TagViewSet: deleting a tag cascades to its rules and to the articles' tags.
DeleteTag(g) ==
  /\ Edit /\ g \in tags
  /\ tags' = tags \ {g}
  /\ rules' = [r \in {r \in DOMAIN rules : rules[r].tag # g} |-> rules[r]]
  /\ attached' = {p \in attached : p[2] # g}
  /\ removed' = removed \union {p \in Ids \X Tags : p[2] = g}
  /\ UNCHANGED <<hidden, feedDeleted, active, queued, paused, feedGone, chain, restarts>>

\* TagRuleViewSet: create or update a rule of an existing tag, delete one.
SaveRule(r, form) ==
  /\ Edit /\ form.tag \in tags
  /\ rules' = [q \in DOMAIN rules \union {r} |-> IF q = r THEN form ELSE rules[q]]
  /\ UNCHANGED <<tags, attached, hidden, feedDeleted, active, queued, removed, paused, feedGone, chain, restarts>>

DeleteRule(r) ==
  /\ Edit /\ r \in DOMAIN rules
  /\ rules' = [q \in DOMAIN rules \ {r} |-> rules[q]]
  /\ UNCHANGED <<tags, attached, hidden, feedDeleted, active, queued, removed, paused, feedGone, chain, restarts>>

PauseOrResume(s) ==
  /\ Edit
  /\ active' = IF s \in active THEN active \ {s} ELSE active \union {s}
  /\ paused' = paused \union {s}
  /\ UNCHANGED <<tags, rules, attached, hidden, feedDeleted, queued, removed, feedGone, chain, restarts>>

\* cleanup_old_articles; an old entry is old when it is stored.
Hide(i) ==
  /\ Edit /\ i \notin hidden
  /\ hidden' = hidden \union {i}
  /\ UNCHANGED <<tags, rules, attached, feedDeleted, active, queued, removed, paused, feedGone, chain, restarts>>

\* FeedViewSet.destroy, and the POST of a deleted feed's URL, which takes its row again.
DeleteOrRestoreFeed ==
  /\ Edit
  /\ feedDeleted' = ~feedDeleted /\ feedGone' = TRUE
  /\ UNCHANGED <<tags, rules, attached, hidden, active, queued, removed, paused, chain, restarts>>

StaffStep(Known) ==
  \/ \E i \in Known, g \in Tags : Attach(i, g) \/ Detach(i, g)
  \/ \E g \in Tags : DeleteTag(g)
  \/ \E r \in Rules : DeleteRule(r) \/ \E form \in Forms : SaveRule(r, form)
  \/ \E s \in Subs : PauseOrResume(s)
  \/ \E i \in Known : Hide(i)
  \/ DeleteOrRestoreFeed

ChainStep(m) ==
  ReadRules(m) \/ TryRule(m) \/ EndTags(m) \/ Match(m) \/ QueueOne(m) \/ EndFanout(m)

-----------------------------------------------------------------------------
(***************************************************************************)
(* Properties.                                                             *)
(***************************************************************************)
\* Messages and tables stay in their ranges; rules and article tags refer to
\* tags that exist.
TagTypeOK ==
  /\ tags \subseteq Tags /\ hidden \subseteq Ids /\ feedDeleted \in BOOLEAN /\ active \subseteq Subs
  /\ attached \subseteq Ids \X tags /\ queued \subseteq Subs \X Ids
  /\ \A r \in DOMAIN rules : r \in Rules /\ rules[r] \in Forms /\ rules[r].tag \in tags
  /\ at \in [Msgs -> {"free", "done", "failed"} \union Ongoing]
  /\ about \in [Msgs -> Ids]

\* apply_rules_to_article: an article has no tag that no rule calls for, whatever
\* mix of any and all rules, languages and inactive rules is saved while tasks
\* run and are repeated, unless staff attached it.
TagsAreCalledFor == attached \subseteq called

\* "Tags first: subscriptions may filter on them."  When a chain has run to its
\* end, each subscription that was active all along and filters on no tag, or on
\* one that the rules called for and staff did not take away, has a delivery
\* queued, also when tasks were repeated after the loss of a worker; articles that
\* were hidden, or whose feed was deleted, are not fanned out.
FilteredOnNewTagsIsQueued ==
  \A m \in Msgs : \A s \in Subs \ paused :
    /\ at[m] = "done" /\ about[m] \notin hidden /\ ~feedGone
    /\ TagIds[s] = {} \/ \E g \in TagIds[s] \intersect due[m] : <<about[m], g>> \notin removed
    => <<s, about[m]>> \in queued
=============================================================================
