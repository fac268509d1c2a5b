--------------------------- MODULE PipelineProofs ---------------------------
(***************************************************************************)
(* Proofs about modules Tagging and Pipeline, for any number of articles,  *)
(* rules, subscriptions and messages, and any bounds.                      *)
(***************************************************************************)
EXTENDS Pipeline, FiniteSetTheorems, TLAPS

-----------------------------------------------------------------------------
(* Which rules match *)

\* apply_rules_to_article counts the keywords it finds; a rule matches just when it is called
\* for: by one of its keywords, or by all of them, in its language.
LEMMA MatchesIfCalled ==
  ASSUME NEW form \in Forms, NEW t \in Texts
  PROVE  Matches(form, t) <=> Called(form, t)
<1> DEFINE hits == form.keywords \intersect t.words
<1>1. IsFiniteSet(form.keywords) /\ IsFiniteSet(hits)
  <2>1. IsFiniteSet(form.keywords)
    BY TaggingAssumption
  <2> QED
    BY <2>1, FS_Subset
<1>2. Cardinality(hits) \in Nat /\ (Cardinality(hits) > 0 <=> hits # {})
  <2>1. Cardinality(hits) \in Nat
    BY <1>1, FS_CardinalityType
  <2>2. Cardinality(hits) = 0 <=> hits = {}
    BY <1>1, FS_EmptySet
  <2> QED
    BY <2>1, <2>2
<1>3. Cardinality(hits) = Cardinality(form.keywords) <=> form.keywords \subseteq t.words
  <2>1. Cardinality(hits) = Cardinality(form.keywords) => hits = form.keywords
    BY <1>1, FS_Subset
  <2> QED
    BY <2>1
<1>4. form.match \in {"any", "all"}
  BY TaggingAssumption DEF RuleForms
<1> QED
  BY <1>2, <1>3, <1>4 DEF Matches, Called

-----------------------------------------------------------------------------
(* Types *)

ChainOK ==
  /\ text \in [Msgs -> Texts \union {NoText}]
  /\ todo \in [Msgs -> SUBSET (Forms \union Subs)]
  /\ due \in [Msgs -> SUBSET Tags]
  /\ \A m \in Msgs : at[m] = "tagging" => todo[m] \subseteq Forms /\ text[m] \in Texts
  /\ \A m \in Msgs : at[m] = "queueing" => todo[m] \subseteq Subs

TypeInv == TagTypeOK /\ ChainOK /\ stored \subseteq Ids

\* An article step stores articles with ids of the table, publishes at most one chain, and
\* leaves tags, rules and subscriptions alone.
LEMMA ArticleStep ==
  ASSUME NEW t \in Tasks, A!Step(t) \/ A!Enqueue(t) \/ A!Fail(t) \/ A!Crash(t), stored \subseteq Ids
  PROVE  stored' \subseteq Ids
  BY DEF A!Step, A!Enqueue, A!Fail, A!Crash, A!Normalize, A!Insert, A!Edit, A!Touch, A!Claim,
     A!Announce, A!Release, A!NewRow, A!rows

\* The receiver puts one message at the first stage of its chain, or none.
LEMMA ReceiverType ==
  ASSUME TypeInv, WithReceiver, stored' \subseteq Ids
  PROVE  TypeInv'
<1>1. UNCHANGED <<tags, rules, attached, hidden, feedDeleted, active, queued>>
  BY DEF WithReceiver, tables
<1>2. CASE UNCHANGED chain
  BY <1>1, <1>2 DEF TypeInv, TagTypeOK, ChainOK, chain
<1>3. CASE \E i \in Ids : OnArticleCreated(i)
  <2>1. PICK i \in Ids, m \in Msgs : Publish(m, "tags", i)
    BY <1>3 DEF OnArticleCreated
  <2>2. /\ at' = [at EXCEPT ![m] = "tags"] /\ about' = [about EXCEPT ![m] = i]
        /\ UNCHANGED <<text, todo, due>>
    BY <2>1 DEF Publish
  <2>3. TagTypeOK'
    BY <1>1, <2>2 DEF TypeInv, TagTypeOK, Ongoing
  <2>4. ChainOK'
    BY <2>2 DEF TypeInv, TagTypeOK, ChainOK
  <2> QED
    BY <2>3, <2>4 DEF TypeInv
<1> QED
  BY <1>2, <1>3 DEF WithReceiver

\* A task ends and its message is at the next stage.
LEMMA OverType ==
  ASSUME TypeInv, NEW m \in Msgs, NEW stage \in {"tags", "fanout", "done", "failed"},
         Over(m, stage), UNCHANGED <<tags, rules, attached, hidden, feedDeleted, active, queued, stored>>
  PROVE  TypeInv'
<1>1. /\ at' = [at EXCEPT ![m] = stage] /\ text' = [text EXCEPT ![m] = NoText]
      /\ todo' = [todo EXCEPT ![m] = {}] /\ UNCHANGED <<about, due>>
  BY DEF Over
<1>2. TagTypeOK'
  BY <1>1 DEF TypeInv, TagTypeOK, Ongoing
<1>3. ChainOK'
  BY <1>1 DEF TypeInv, TagTypeOK, ChainOK
<1> QED
  BY <1>2, <1>3 DEF TypeInv

\* The active rules as ReadRules loads them, and the tags they call for.
Loaded == {rules[r] : r \in {r \in DOMAIN rules : rules[r].is_active}}
WantedTags(t) == {f.tag : f \in {f \in Loaded : Called(f, t)}}

\* The rules that are loaded are rules as staff can save them, for tags there can be.
LEMMA LoadedType ==
  ASSUME TypeInv, NEW t
  PROVE  Loaded \subseteq Forms /\ WantedTags(t) \subseteq Tags
<1>1. Loaded \subseteq Forms
  BY DEF Loaded, TypeInv, TagTypeOK
<1>2. \A f \in Forms : f.tag \in Tags
  BY TaggingAssumption DEF RuleForms
<1> QED
  BY <1>1, <1>2 DEF WantedTags

\* The tasks of the chain, their failures and their redelivery keep the types.
LEMMA ChainType ==
  ASSUME TypeInv, NEW m \in Msgs, UNCHANGED stored, ChainStep(m) \/ FailChain(m) \/ Restart(m)
  PROVE  TypeInv'
<1>1. TagTypeOK /\ ChainOK
  BY DEF TypeInv
<1>2. CASE ReadRules(m)
  <2>1. UNCHANGED <<tags, rules, attached, hidden, feedDeleted, active, queued>>
    BY <1>2 DEF ReadRules, tables
  <2>2. CASE Over(m, "failed")
    BY <2>1, <2>2, OverType
  <2>3. CASE ~Over(m, "failed")
    <3>1. PICK t \in Texts :
            /\ text' = [text EXCEPT ![m] = t] /\ todo' = [todo EXCEPT ![m] = Loaded]
            /\ due' = [due EXCEPT ![m] = WantedTags(t)]
            /\ at' = [at EXCEPT ![m] = "tagging"] /\ UNCHANGED about
      BY <1>2, <2>3 DEF ReadRules, Loaded, WantedTags
    <3>2. Loaded \subseteq Forms /\ WantedTags(t) \subseteq Tags
      BY LoadedType
    <3>3. TagTypeOK'
      BY <1>1, <2>1, <3>1 DEF TagTypeOK, Ongoing
    <3>4. ChainOK'
      BY <1>1, <3>1, <3>2 DEF TagTypeOK, ChainOK
    <3> QED
      BY <3>3, <3>4 DEF TypeInv
  <2> QED
    BY <2>2, <2>3
<1>3. CASE TryRule(m)
  <2>1. PICK f \in todo[m] :
          \/ Over(m, "failed") /\ UNCHANGED attached
          \/ /\ Matches(f, text[m]) => f.tag \in tags
             /\ attached' = IF Matches(f, text[m]) THEN attached \union {<<about[m], f.tag>>}
                            ELSE attached
             /\ todo' = [todo EXCEPT ![m] = @ \ {f}]
             /\ UNCHANGED <<at, about, text, due, called>>
    BY <1>3 DEF TryRule
  <2>2. UNCHANGED <<tags, rules, hidden, feedDeleted, active, queued>>
    BY <1>3 DEF TryRule
  <2>3. CASE Over(m, "failed") /\ UNCHANGED attached
    BY <2>2, <2>3, OverType
  <2>4. CASE /\ Matches(f, text[m]) => f.tag \in tags
             /\ attached' = IF Matches(f, text[m]) THEN attached \union {<<about[m], f.tag>>}
                            ELSE attached
             /\ todo' = [todo EXCEPT ![m] = @ \ {f}]
             /\ UNCHANGED <<at, about, text, due, called>>
    <3>1. attached' \subseteq Ids \X tags
      BY <1>1, <2>4 DEF TagTypeOK
    <3>2. TagTypeOK'
      BY <1>1, <2>2, <2>4, <3>1 DEF TagTypeOK
    <3>3. ChainOK'
      BY <1>1, <2>4 DEF ChainOK
    <3> QED
      BY <3>2, <3>3 DEF TypeInv
  <2> QED
    BY <2>1, <2>3, <2>4
<1>4. CASE EndTags(m) \/ EndFanout(m) \/ FailChain(m)
  <2>1. UNCHANGED <<tags, rules, attached, hidden, feedDeleted, active, queued>>
    BY <1>4 DEF EndTags, EndFanout, FailChain, tables
  <2>2. PICK stage \in {"fanout", "done", "failed"} : Over(m, stage)
    BY <1>4 DEF EndTags, EndFanout, FailChain
  <2> QED
    BY <2>1, <2>2, OverType
<1>5. CASE Match(m)
  <2>1. /\ todo' = [todo EXCEPT ![m] = {s \in Subs : Matching(s, about[m])}]
        /\ at' = [at EXCEPT ![m] = "queueing"]
        /\ UNCHANGED <<about, text, due, tags, rules, attached, hidden, feedDeleted, active, queued>>
    BY <1>5 DEF Match, tables
  <2>2. TagTypeOK'
    BY <1>1, <2>1 DEF TagTypeOK, Ongoing
  <2>3. ChainOK'
    BY <1>1, <2>1 DEF TagTypeOK, ChainOK
  <2> QED
    BY <2>2, <2>3 DEF TypeInv
<1>6. CASE QueueOne(m)
  <2>1. PICK s \in todo[m] :
          queued' = queued \union {<<s, about[m]>>} /\ todo' = [todo EXCEPT ![m] = @ \ {s}]
    BY <1>6 DEF QueueOne
  <2>2. at[m] = "queueing" /\ UNCHANGED <<at, about, text, due, tags, rules, attached, hidden, feedDeleted, active>>
    BY <1>6 DEF QueueOne
  <2>3. s \in Subs /\ about[m] \in Ids
    BY <1>1, <2>1, <2>2 DEF TagTypeOK, ChainOK
  <2>4. TagTypeOK'
    BY <1>1, <2>1, <2>2, <2>3 DEF TagTypeOK
  <2>5. ChainOK'
    BY <1>1, <2>1, <2>2 DEF ChainOK
  <2> QED
    BY <2>4, <2>5 DEF TypeInv
<1>7. CASE Restart(m)
  <2>1. UNCHANGED <<tags, rules, attached, hidden, feedDeleted, active, queued>>
    BY <1>7 DEF Restart, tables
  <2>2. CASE \E stage \in {"tags", "fanout"} : Over(m, stage)
    BY <2>1, <2>2, OverType
  <2>3. CASE /\ at[m] = "tagging"
             /\ \E n \in Msgs :
                  /\ Free(n)
                  /\ at' = [at EXCEPT ![m] = "tags", ![n] = "fanout"]
                  /\ about' = [about EXCEPT ![n] = about[m]]
                  /\ due' = [due EXCEPT ![n] = due[m]]
                  /\ text' = [text EXCEPT ![m] = NoText]
             /\ UNCHANGED todo
    <3>1. PICK n \in Msgs :
            /\ Free(n)
            /\ at' = [at EXCEPT ![m] = "tags", ![n] = "fanout"]
            /\ about' = [about EXCEPT ![n] = about[m]]
            /\ due' = [due EXCEPT ![n] = due[m]]
            /\ text' = [text EXCEPT ![m] = NoText]
      BY <2>3
    <3>2. TagTypeOK'
      BY <1>1, <2>1, <3>1 DEF TagTypeOK, Ongoing
    <3>3. /\ at'[m] = "tags" \/ m = n
          /\ at'[n] = "fanout" /\ \A x \in Msgs : x # m /\ x # n => at'[x] = at[x] /\ text'[x] = text[x]
      BY <1>1, <3>1 DEF TagTypeOK, ChainOK
    <3>4. ChainOK'
      BY <1>1, <2>3, <3>1, <3>3 DEF ChainOK
    <3> QED
      BY <3>2, <3>4 DEF TypeInv
  <2>4. \/ \E stage \in {"tags", "fanout"} : Over(m, stage)
        \/ /\ at[m] = "tagging"
           /\ \E n \in Msgs :
                /\ Free(n)
                /\ at' = [at EXCEPT ![m] = "tags", ![n] = "fanout"]
                /\ about' = [about EXCEPT ![n] = about[m]]
                /\ due' = [due EXCEPT ![n] = due[m]]
                /\ text' = [text EXCEPT ![m] = NoText]
           /\ UNCHANGED todo
    <3>1. Over(m, IF at[m] = "tagging" THEN "tags" ELSE "fanout")
            => \E stage \in {"tags", "fanout"} : Over(m, stage)
      OBVIOUS
    <3> QED
      BY <1>7, <3>1 DEF Restart
  <2> QED
    BY <2>2, <2>3, <2>4
<1> QED
  BY <1>2, <1>3, <1>4, <1>5, <1>6, <1>7 DEF ChainStep

\* Edits by staff and owners keep the types.
LEMMA StaffType ==
  ASSUME TypeInv, StaffStep(stored), UNCHANGED stored
  PROVE  TypeInv'
<1>1. TagTypeOK /\ ChainOK /\ stored \subseteq Ids
  BY DEF TypeInv
<1>2. ASSUME UNCHANGED <<at, about, text, todo, due>>, TagTypeOK' PROVE TypeInv'
  BY <1>1, <1>2 DEF TypeInv, ChainOK
<1>3. ASSUME NEW i \in stored, NEW g \in Tags, Attach(i, g) PROVE TypeInv'
  <2>1. UNCHANGED <<at, about, text, todo, due>>
    BY <1>3 DEF Attach
  <2> QED
    BY <1>1, <1>2, <1>3, <2>1 DEF Attach, TagTypeOK
<1>4. ASSUME NEW i \in stored, NEW g \in Tags, Detach(i, g) PROVE TypeInv'
  <2>1. UNCHANGED <<at, about, text, todo, due>>
    BY <1>4 DEF Detach, chain
  <2> QED
    BY <1>1, <1>2, <1>4, <2>1 DEF Detach, TagTypeOK
<1>5. ASSUME NEW g \in Tags, DeleteTag(g) PROVE TypeInv'
  <2>1. UNCHANGED <<at, about, text, todo, due, hidden, feedDeleted, active, queued>>
    BY <1>5 DEF DeleteTag, chain
  <2>2. tags' = tags \ {g} /\ attached' = {p \in attached : p[2] # g}
    BY <1>5 DEF DeleteTag
  <2>3. attached' \subseteq Ids \X tags'
    BY <1>1, <2>2 DEF TagTypeOK
  <2>4. \A r \in DOMAIN rules' : r \in Rules /\ rules'[r] \in Forms /\ rules'[r].tag \in tags'
    BY <1>1, <1>5 DEF DeleteTag, TagTypeOK
  <2> QED
    BY <1>1, <1>2, <2>1, <2>2, <2>3, <2>4 DEF TagTypeOK
<1>6. ASSUME NEW r \in Rules, NEW form \in Forms, SaveRule(r, form) PROVE TypeInv'
  <2>1. UNCHANGED <<at, about, text, todo, due, tags, attached, hidden, feedDeleted, active, queued>>
    BY <1>6 DEF SaveRule, chain
  <2>2. \A x \in DOMAIN rules' : x \in Rules /\ rules'[x] \in Forms /\ rules'[x].tag \in tags
    BY <1>1, <1>6 DEF SaveRule, TagTypeOK
  <2> QED
    BY <1>1, <1>2, <2>1, <2>2 DEF TagTypeOK
<1>7. ASSUME NEW r \in Rules, DeleteRule(r) PROVE TypeInv'
  <2>1. UNCHANGED <<at, about, text, todo, due, tags, attached, hidden, feedDeleted, active, queued>>
    BY <1>7 DEF DeleteRule, chain
  <2>2. \A x \in DOMAIN rules' : x \in Rules /\ rules'[x] \in Forms /\ rules'[x].tag \in tags
    BY <1>1, <1>7 DEF DeleteRule, TagTypeOK
  <2> QED
    BY <1>1, <1>2, <2>1, <2>2 DEF TagTypeOK
<1>8. ASSUME NEW s \in Subs, PauseOrResume(s) PROVE TypeInv'
  <2>1. UNCHANGED <<at, about, text, todo, due>>
    BY <1>8 DEF PauseOrResume, chain
  <2> QED
    BY <1>1, <1>2, <1>8, <2>1 DEF PauseOrResume, TagTypeOK
<1>9. ASSUME NEW i \in stored, Hide(i) PROVE TypeInv'
  <2>1. UNCHANGED <<at, about, text, todo, due>>
    BY <1>9 DEF Hide, chain
  <2> QED
    BY <1>1, <1>2, <1>9, <2>1 DEF Hide, TagTypeOK
<1>10. ASSUME DeleteOrRestoreFeed PROVE TypeInv'
  <2>1. UNCHANGED <<at, about, text, todo, due>>
    BY <1>10 DEF DeleteOrRestoreFeed, chain
  <2> QED
    BY <1>1, <1>2, <1>10, <2>1 DEF DeleteOrRestoreFeed, TagTypeOK
<1> QED
  BY <1>3, <1>4, <1>5, <1>6, <1>7, <1>8, <1>9, <1>10 DEF StaffStep

\* Every step keeps the types.
LEMMA TypeStep ==
  ASSUME TypeInv, [Next]_vars
  PROVE  TypeInv'
<1>1. CASE UNCHANGED vars
  BY <1>1 DEF vars, articleVars, tagVars, tables, chain, TypeInv, TagTypeOK, ChainOK
<1>2. ASSUME NEW t \in Tasks, A!Step(t) \/ A!Enqueue(t) \/ A!Fail(t) \/ A!Crash(t), WithReceiver
      PROVE  TypeInv'
  <2>1. stored' \subseteq Ids
    BY <1>2, ArticleStep DEF TypeInv
  <2> QED
    BY <1>2, <2>1, ReceiverType
<1>3. ASSUME UNCHANGED articleVars,
             \/ \E m \in Msgs : ChainStep(m) \/ FailChain(m) \/ Restart(m)
             \/ StaffStep(stored)
      PROVE  TypeInv'
  BY <1>3, ChainType, StaffType DEF articleVars
<1> QED
  BY <1>1, <1>2, <1>3 DEF Next, ProcessArticle

\* The types hold always.
LEMMA TypeInvariant == Spec => []TypeInv
<1>1. Init => TypeInv
  <2> SUFFICES ASSUME Init PROVE TypeInv
    OBVIOUS
  <2>1. TagInit /\ stored = {}
    BY DEF Init, A!Init
  <2>2. \A f \in Forms : f.tag \in Tags
    BY TaggingAssumption DEF RuleForms
  <2>3. TagTypeOK
    BY <2>1, <2>2 DEF TagInit, TagTypeOK, Ongoing
  <2>4. ChainOK
    BY <2>1 DEF TagInit, ChainOK
  <2> QED
    BY <2>1, <2>3, <2>4 DEF TypeInv
<1>2. TypeInv /\ [Next]_vars => TypeInv'
  BY TypeStep
<1> QED
  BY <1>1, <1>2, PTL DEF Spec

\* Messages and tables stay in their ranges; rules and article tags refer to tags that exist.
THEOREM PipelineTypeCorrect == Spec => []TagTypeOK
<1>1. TypeInv => TagTypeOK
  BY DEF TypeInv
<1> QED
  BY <1>1, TypeInvariant, PTL

-----------------------------------------------------------------------------
(* Tags first, then the fan-out *)

\* Tag g is on the article of m, or staff took it away.
Settled(m, g) == <<about[m], g>> \in attached \union removed

\* The fan-out of m owes subscription s a delivery.
Owed(m, s) ==
  /\ about[m] \notin hidden /\ ~feedGone
  /\ TagIds[s] = {} \/ \E g \in TagIds[s] \intersect due[m] : <<about[m], g>> \notin removed

\* While rules are tried, each tag that is due is settled or its rule is still to try; then
\* all are settled; and then each delivery owed is queued or still to queue.
MsgOK(m) ==
  /\ at[m] = "tagging" =>
       /\ \A f \in todo[m] : Called(f, text[m]) => <<about[m], f.tag>> \in called
       /\ \A g \in due[m] : Settled(m, g) \/ \E f \in todo[m] : f.tag = g /\ Called(f, text[m])
  /\ at[m] \in {"fanout", "queueing"} => \A g \in due[m] : Settled(m, g)
  /\ at[m] = "queueing" =>
       \A s \in Subs \ paused : Owed(m, s) => <<s, about[m]>> \in queued \/ s \in todo[m]
  /\ at[m] = "done" => \A s \in Subs \ paused : Owed(m, s) => <<s, about[m]>> \in queued

ChainInv ==
  /\ attached \subseteq called
  /\ Subs \ paused \subseteq active
  /\ feedDeleted => feedGone
  /\ \A m \in Msgs : MsgOK(m)

\* What every step does to the tables: a tag leaves an article only by the hand of staff.
Grows ==
  /\ called \subseteq called' /\ removed \subseteq removed' /\ hidden \subseteq hidden'
  /\ paused \subseteq paused' /\ queued \subseteq queued' /\ (feedGone => feedGone')
  /\ attached \union removed \subseteq attached' \union removed'

\* A message that does not move stays as it should be, whatever others do to the tables.
LEMMA MsgStays ==
  ASSUME Grows, NEW m \in Msgs, MsgOK(m),
         at'[m] = at[m], about'[m] = about[m], text'[m] = text[m], todo'[m] = todo[m], due'[m] = due[m]
  PROVE  MsgOK(m)'
<1>1. \A g : Settled(m, g) => Settled(m, g)'
  BY DEF Grows, Settled
<1>2. \A s : Owed(m, s)' => Owed(m, s)
  BY DEF Grows, Owed
<1> QED
  BY <1>1, <1>2 DEF Grows, MsgOK

\* A step of m leaves the other messages alone.
LEMMA OneMsg ==
  ASSUME TypeInv, ChainInv, NEW m \in Msgs, Grows, attached' \subseteq called',
         UNCHANGED <<feedDeleted, active, paused, feedGone>>,
         \A n \in Msgs : n # m => /\ at'[n] = at[n] /\ about'[n] = about[n] /\ text'[n] = text[n]
                                  /\ todo'[n] = todo[n] /\ due'[n] = due[n],
         MsgOK(m)'
  PROVE  ChainInv'
  BY MsgStays DEF ChainInv

\* Edits by staff and owners undo nothing that a chain relies on.
LEMMA StaffChain ==
  ASSUME TypeInv, ChainInv, StaffStep(stored)
  PROVE  ChainInv'
<1>1. /\ attached \subseteq called /\ Subs \ paused \subseteq active /\ (feedDeleted => feedGone)
      /\ TagTypeOK /\ stored \subseteq Ids
  BY DEF ChainInv, TypeInv
<1>2. UNCHANGED <<at, about, text, todo, due>>
  BY DEF StaffStep, Attach, Detach, DeleteTag, SaveRule, DeleteRule, PauseOrResume, Hide,
     DeleteOrRestoreFeed, chain
<1>3. ASSUME Grows, attached' \subseteq called', Subs \ paused' \subseteq active',
             feedDeleted' => feedGone'
      PROVE  ChainInv'
  BY <1>2, <1>3, MsgStays DEF ChainInv
<1>4. ASSUME NEW i \in stored, NEW g \in Tags, Attach(i, g) PROVE ChainInv'
  BY <1>1, <1>3, <1>4 DEF Attach, Grows
<1>5. ASSUME NEW i \in stored, NEW g \in Tags, Detach(i, g) PROVE ChainInv'
  BY <1>1, <1>3, <1>5 DEF Detach, Grows, chain
<1>6. ASSUME NEW g \in Tags, DeleteTag(g) PROVE ChainInv'
  <2>1. /\ attached' = {p \in attached : p[2] # g}
        /\ removed' = removed \union {p \in Ids \X Tags : p[2] = g}
        /\ UNCHANGED <<hidden, feedDeleted, active, queued, paused, feedGone, called>>
    BY <1>6 DEF DeleteTag, chain
  <2>2. attached \subseteq Ids \X Tags
    BY <1>1 DEF TagTypeOK
  <2>3. attached \union removed \subseteq attached' \union removed'
    BY <2>1, <2>2
  <2> QED
    BY <1>1, <1>3, <2>1, <2>3 DEF Grows
<1>7. ASSUME NEW r \in Rules, DeleteRule(r) \/ \E form \in Forms : SaveRule(r, form) PROVE ChainInv'
  BY <1>1, <1>3, <1>7 DEF DeleteRule, SaveRule, Grows, chain
<1>8. ASSUME NEW s \in Subs, PauseOrResume(s) PROVE ChainInv'
  BY <1>1, <1>3, <1>8 DEF PauseOrResume, Grows, chain
<1>9. ASSUME NEW i \in stored, Hide(i) PROVE ChainInv'
  BY <1>1, <1>3, <1>9 DEF Hide, Grows, chain
<1>10. ASSUME DeleteOrRestoreFeed PROVE ChainInv'
  BY <1>1, <1>3, <1>10 DEF DeleteOrRestoreFeed, Grows, chain
<1> QED
  BY <1>4, <1>5, <1>6, <1>7, <1>8, <1>9, <1>10 DEF StaffStep

\* A new chain begins, or none.
LEMMA ReceiverChain ==
  ASSUME TypeInv, ChainInv, WithReceiver
  PROVE  ChainInv'
<1>1. UNCHANGED <<attached, hidden, feedDeleted, active, queued, removed, paused, feedGone>>
  BY DEF WithReceiver, tables, staff
<1>2. CASE UNCHANGED chain
  BY <1>1, <1>2, MsgStays DEF ChainInv, Grows, chain
<1>3. CASE \E i \in Ids : OnArticleCreated(i)
  <2>1. PICK i \in Ids, m \in Msgs : Publish(m, "tags", i)
    BY <1>3 DEF OnArticleCreated
  <2>2. /\ at' = [at EXCEPT ![m] = "tags"] /\ about' = [about EXCEPT ![m] = i]
        /\ UNCHANGED <<text, todo, due, called>>
    BY <2>1 DEF Publish
  <2>3. at'[m] = "tags" /\ \A n \in Msgs : n # m => at'[n] = at[n] /\ about'[n] = about[n]
    BY <2>2 DEF TypeInv, TagTypeOK
  <2>4. MsgOK(m)'
    BY <2>3 DEF MsgOK
  <2>5. Grows /\ attached' \subseteq called'
    BY <1>1, <2>2 DEF Grows, ChainInv
  <2> QED
    BY <1>1, <2>2, <2>3, <2>4, <2>5, OneMsg
<1> QED
  BY <1>2, <1>3 DEF WithReceiver

\* The tasks of a chain keep the invariant, and so do their failures and their redelivery.
LEMMA TaskChain ==
  ASSUME TypeInv, ChainInv, NEW m \in Msgs, ChainStep(m) \/ FailChain(m) \/ Restart(m)
  PROVE  ChainInv'
<1>1. /\ TagTypeOK /\ ChainOK /\ attached \subseteq called
      /\ Subs \ paused \subseteq active /\ (feedDeleted => feedGone) /\ MsgOK(m)
  BY DEF TypeInv, ChainInv
<1>2. ASSUME NEW stage \in {"tags", "fanout", "done", "failed"}, Over(m, stage),
             UNCHANGED <<attached, hidden, feedDeleted, active, queued, removed, paused, feedGone>>,
             stage = "fanout" => \A g \in due[m] : Settled(m, g),
             stage = "done" => \A s \in Subs \ paused : Owed(m, s) => <<s, about[m]>> \in queued
      PROVE  ChainInv'
  <2>1. /\ at' = [at EXCEPT ![m] = stage] /\ text' = [text EXCEPT ![m] = NoText]
        /\ todo' = [todo EXCEPT ![m] = {}] /\ UNCHANGED <<about, due, called>>
    BY <1>2 DEF Over
  <2>2. /\ at'[m] = stage
        /\ \A n \in Msgs : n # m => at'[n] = at[n] /\ text'[n] = text[n] /\ todo'[n] = todo[n]
    BY <1>1, <2>1 DEF TagTypeOK, ChainOK
  <2>3. Grows /\ attached' \subseteq called'
    BY <1>1, <1>2, <2>1 DEF Grows
  <2>4. /\ \A g : Settled(m, g)' <=> Settled(m, g)
        /\ \A s : Owed(m, s)' <=> Owed(m, s)
    BY <1>2, <2>1 DEF Settled, Owed
  <2>5. MsgOK(m)'
    BY <1>2, <2>1, <2>2, <2>4 DEF MsgOK
  <2> QED
    BY <1>2, <2>1, <2>2, <2>3, <2>5, OneMsg
<1>3. CASE ReadRules(m)
  <2>1. UNCHANGED <<attached, hidden, feedDeleted, active, queued, removed, paused, feedGone>>
    BY <1>3 DEF ReadRules, tables, staff
  <2>2. CASE Over(m, "failed")
    BY <1>2, <2>1, <2>2
  <2>3. CASE ~Over(m, "failed")
    <3>1. PICK t \in Texts :
            /\ text' = [text EXCEPT ![m] = t] /\ todo' = [todo EXCEPT ![m] = Loaded]
            /\ due' = [due EXCEPT ![m] = WantedTags(t)]
            /\ called' = called \union ({about[m]} \X WantedTags(t))
            /\ at' = [at EXCEPT ![m] = "tagging"] /\ UNCHANGED about
      BY <1>3, <2>3 DEF ReadRules, Loaded, WantedTags
    <3>2. /\ at'[m] = "tagging" /\ text'[m] = t /\ todo'[m] = Loaded /\ due'[m] = WantedTags(t)
          /\ \A n \in Msgs : n # m => /\ at'[n] = at[n] /\ text'[n] = text[n] /\ todo'[n] = todo[n]
                                      /\ due'[n] = due[n]
      BY <1>1, <3>1 DEF TagTypeOK, ChainOK
    <3>3. \A f \in Loaded : Called(f, t) => f.tag \in WantedTags(t)
      BY DEF WantedTags
    <3>4. \A g \in WantedTags(t) : \E f \in Loaded : f.tag = g /\ Called(f, t)
      BY DEF WantedTags
    <3>5. MsgOK(m)'
      BY <3>1, <3>2, <3>3, <3>4 DEF MsgOK
    <3>6. Grows /\ attached' \subseteq called'
      BY <1>1, <2>1, <3>1 DEF Grows
    <3> QED
      BY <2>1, <3>1, <3>2, <3>5, <3>6, OneMsg
  <2> QED
    BY <2>2, <2>3
<1>4. CASE TryRule(m)
  <2>1. PICK f \in todo[m] :
          \/ Over(m, "failed") /\ UNCHANGED attached
          \/ /\ attached' = IF Matches(f, text[m]) THEN attached \union {<<about[m], f.tag>>}
                            ELSE attached
             /\ todo' = [todo EXCEPT ![m] = @ \ {f}]
             /\ UNCHANGED <<at, about, text, due, called>>
    BY <1>4 DEF TryRule
  <2>2. at[m] = "tagging" /\ UNCHANGED <<hidden, feedDeleted, active, queued, removed, paused, feedGone>>
    BY <1>4 DEF TryRule, staff
  <2>3. CASE Over(m, "failed") /\ UNCHANGED attached
    BY <1>2, <2>2, <2>3
  <2>4. CASE /\ attached' = IF Matches(f, text[m]) THEN attached \union {<<about[m], f.tag>>}
                            ELSE attached
             /\ todo' = [todo EXCEPT ![m] = @ \ {f}]
             /\ UNCHANGED <<at, about, text, due, called>>
    <3>1. Matches(f, text[m]) <=> Called(f, text[m])
      BY <1>1, <2>1, <2>2, MatchesIfCalled DEF ChainOK
    <3>2. Called(f, text[m]) => <<about[m], f.tag>> \in called /\ <<about[m], f.tag>> \in attached'
      BY <1>1, <2>2, <2>4, <3>1 DEF MsgOK
    <3>3. attached \subseteq attached' /\ attached' \subseteq called'
      BY <1>1, <2>4, <3>1, <3>2
    <3>4. todo'[m] = todo[m] \ {f} /\ \A n \in Msgs : n # m => todo'[n] = todo[n]
      BY <1>1, <2>4 DEF ChainOK
    <3>5. \A g : Settled(m, g) => Settled(m, g)'
      BY <2>2, <2>4, <3>3 DEF Settled
    <3>6. \A g \in due[m] : Settled(m, g)' \/ \E x \in todo[m] \ {f} : x.tag = g /\ Called(x, text[m])
      <4> SUFFICES ASSUME NEW g \in due[m], ~Settled(m, g)'
                   PROVE  \E x \in todo[m] \ {f} : x.tag = g /\ Called(x, text[m])
        OBVIOUS
      <4>1. PICK x \in todo[m] : x.tag = g /\ Called(x, text[m])
        BY <1>1, <2>2, <3>5 DEF MsgOK
      <4>2. x # f
        BY <2>4, <3>2, <4>1 DEF Settled
      <4> QED
        BY <4>1, <4>2
    <3>7. MsgOK(m)'
      BY <1>1, <2>2, <2>4, <3>4, <3>6 DEF MsgOK
    <3>8. Grows
      BY <2>2, <2>4, <3>3 DEF Grows
    <3> QED
      BY <2>2, <2>4, <3>3, <3>4, <3>7, <3>8, OneMsg
  <2> QED
    BY <2>1, <2>3, <2>4
<1>5. CASE EndTags(m)
  <2>1. /\ at[m] = "tagging" /\ todo[m] = {} /\ Over(m, "fanout")
        /\ UNCHANGED <<attached, hidden, feedDeleted, active, queued, removed, paused, feedGone>>
    BY <1>5 DEF EndTags, tables, staff
  <2>2. \A g \in due[m] : Settled(m, g)
    BY <1>1, <2>1 DEF MsgOK
  <2> QED
    BY <1>2, <2>1, <2>2
<1>6. CASE EndFanout(m)
  <2>1. /\ at[m] = "queueing" /\ todo[m] = {} /\ Over(m, "done")
        /\ UNCHANGED <<attached, hidden, feedDeleted, active, queued, removed, paused, feedGone>>
    BY <1>6 DEF EndFanout, tables, staff
  <2>2. \A s \in Subs \ paused : Owed(m, s) => <<s, about[m]>> \in queued
    BY <1>1, <2>1 DEF MsgOK
  <2> QED
    BY <1>2, <2>1, <2>2
<1>7. CASE FailChain(m)
  BY <1>2, <1>7 DEF FailChain, tables, staff
<1>8. CASE Match(m)
  <2>1. /\ at[m] = "fanout"
        /\ todo' = [todo EXCEPT ![m] = {s \in Subs : Matching(s, about[m])}]
        /\ at' = [at EXCEPT ![m] = "queueing"]
        /\ UNCHANGED <<about, text, due, called, attached, hidden, feedDeleted, active, queued, removed, paused, feedGone>>
    BY <1>8 DEF Match, tables, staff
  <2>2. /\ at'[m] = "queueing" /\ todo'[m] = {s \in Subs : Matching(s, about[m])}
        /\ \A n \in Msgs : n # m => at'[n] = at[n] /\ todo'[n] = todo[n]
    BY <1>1, <2>1 DEF TagTypeOK, ChainOK
  <2>3. /\ \A g : Settled(m, g)' <=> Settled(m, g)
        /\ \A s : Owed(m, s)' <=> Owed(m, s)
    BY <2>1 DEF Settled, Owed
  <2>4. \A g \in due[m] : Settled(m, g)
    BY <1>1, <2>1 DEF MsgOK
  <2>5. \A s \in Subs \ paused : Owed(m, s) => Matching(s, about[m])
    BY <1>1, <2>4 DEF Owed, Settled, Matching
  <2>6. MsgOK(m)'
    BY <2>1, <2>2, <2>3, <2>4, <2>5 DEF MsgOK
  <2>7. Grows /\ attached' \subseteq called'
    BY <1>1, <2>1 DEF Grows
  <2> QED
    BY <2>1, <2>2, <2>6, <2>7, OneMsg
<1>9. CASE QueueOne(m)
  <2>1. PICK s \in todo[m] :
          queued' = queued \union {<<s, about[m]>>} /\ todo' = [todo EXCEPT ![m] = @ \ {s}]
    BY <1>9 DEF QueueOne
  <2>2. /\ at[m] = "queueing"
        /\ UNCHANGED <<at, about, text, due, called, attached, hidden, feedDeleted, active, removed, paused, feedGone>>
    BY <1>9 DEF QueueOne, staff
  <2>3. todo'[m] = todo[m] \ {s} /\ \A n \in Msgs : n # m => todo'[n] = todo[n]
    BY <1>1, <2>1 DEF ChainOK
  <2>4. /\ \A g : Settled(m, g)' <=> Settled(m, g)
        /\ \A x : Owed(m, x)' <=> Owed(m, x)
    BY <2>2 DEF Settled, Owed
  <2>5. MsgOK(m)'
    BY <1>1, <2>1, <2>2, <2>3, <2>4 DEF MsgOK
  <2>6. Grows /\ attached' \subseteq called'
    BY <1>1, <2>1, <2>2 DEF Grows
  <2> QED
    BY <2>2, <2>3, <2>5, <2>6, OneMsg
<1>10. CASE Restart(m)
  <2>1. UNCHANGED <<attached, hidden, feedDeleted, active, queued, removed, paused, feedGone>>
    BY <1>10 DEF Restart, tables, staff
  <2>2. CASE at[m] \in {"tagging", "queueing"} /\ Over(m, IF at[m] = "tagging" THEN "tags" ELSE "fanout")
    <3>1. CASE at[m] = "tagging"
      BY <1>2, <2>1, <2>2, <3>1
    <3>2. CASE at[m] = "queueing"
      <4>1. \A g \in due[m] : Settled(m, g)
        BY <1>1, <3>2 DEF MsgOK
      <4>2. Over(m, "fanout")
        BY <2>2, <3>2
      <4> QED
        BY <1>2, <2>1, <4>1, <4>2
    <3> QED
      BY <2>2, <3>1, <3>2
  <2>3. ASSUME at[m] = "tagging", todo[m] = {}, NEW n \in Msgs, Free(n),
               at' = [at EXCEPT ![m] = "tags", ![n] = "fanout"],
               about' = [about EXCEPT ![n] = about[m]], due' = [due EXCEPT ![n] = due[m]],
               text' = [text EXCEPT ![m] = NoText], UNCHANGED <<todo, called>>
        PROVE  ChainInv'
    <3>1. m # n
      BY <2>3 DEF Free
    <3>2. /\ at'[m] = "tags" /\ at'[n] = "fanout" /\ about'[n] = about[m] /\ due'[n] = due[m]
          /\ \A x \in Msgs : x # m /\ x # n => /\ at'[x] = at[x] /\ about'[x] = about[x]
                                               /\ due'[x] = due[x] /\ text'[x] = text[x]
      BY <1>1, <2>3, <3>1 DEF TagTypeOK, ChainOK
    <3>3. \A g \in due[m] : Settled(m, g)
      BY <1>1, <2>3 DEF MsgOK
    <3>4. \A g \in due[m] : Settled(n, g)'
      BY <2>1, <3>2, <3>3 DEF Settled
    <3>5. MsgOK(m)' /\ MsgOK(n)'
      BY <3>2, <3>4 DEF MsgOK
    <3>6. Grows /\ attached' \subseteq called'
      BY <1>1, <2>1, <2>3 DEF Grows
    <3>7. ASSUME NEW x \in Msgs, x # m, x # n PROVE MsgOK(x)'
      BY <2>3, <3>2, <3>6, <3>7, MsgStays DEF ChainInv
    <3> QED
      BY <1>1, <2>1, <3>5, <3>6, <3>7 DEF ChainInv
  <2> QED
    BY <1>10, <2>2, <2>3 DEF Restart
<1> QED
  BY <1>3, <1>4, <1>5, <1>6, <1>7, <1>8, <1>9, <1>10 DEF ChainStep

\* Types and chains are as they should be always.
LEMMA ChainInvariant == Spec => [](TypeInv /\ ChainInv)
<1>1. Init => ChainInv
  BY DEF Init, TagInit, ChainInv, MsgOK
<1>2. TypeInv /\ ChainInv /\ [Next]_vars => ChainInv'
  <2> SUFFICES ASSUME TypeInv, ChainInv, [Next]_vars PROVE ChainInv'
    OBVIOUS
  <2>1. CASE UNCHANGED vars
    BY <2>1, MsgStays DEF vars, tagVars, tables, chain, staff, ChainInv, Grows
  <2> QED
    BY <2>1, StaffChain, ReceiverChain, TaskChain DEF Next, ProcessArticle
<1> QED
  BY <1>1, <1>2, TypeInvariant, PTL DEF Spec

\* No article has a tag that no rule called for and no member of staff attached.
THEOREM TagsAreCalledForAlways == Spec => []TagsAreCalledFor
<1>1. ChainInv => TagsAreCalledFor
  BY DEF ChainInv, TagsAreCalledFor
<1> QED
  BY <1>1, ChainInvariant, PTL

\* When a chain has run to its end, the subscriptions that filter on a tag the rules called for
\* have their delivery queued, also after repeated tasks and edits by staff.
THEOREM FilteredOnNewTagsIsQueuedAlways == Spec => []FilteredOnNewTagsIsQueued
<1>1. ChainInv => FilteredOnNewTagsIsQueued
  BY DEF ChainInv, MsgOK, Owed, FilteredOnNewTagsIsQueued
<1> QED
  BY <1>1, ChainInvariant, PTL
=============================================================================
