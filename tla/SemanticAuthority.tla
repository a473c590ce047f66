--------------------------- MODULE SemanticAuthority ---------------------------
(* The semantic authority reads a text a second time, beside the recognisers of *)
(* the conversation state and without touching it. Here a text is the sequence   *)
(* of its clauses, each with what the extractors find in it; the operators say    *)
(* what the representation of the turn makes of them and of the state.            *)
EXTENDS ConversationState, SequencesExt

NoValue == "none"

\* In the order in which the table of markers lists them.
Topic == {"claim", "connectivity", "billing", "documentation", "identity", "personal", "control"}

EntityType == {"person", "animal", "object", "product", "place"}

Repair == {NoValue, "retract", "deny", "replace"}

ActMark == {"correction", "recap_request", "simplification_request", "deepening_request",
            "continuation", "closing", "topic_shift"}

\* "greets" is a clause that is nothing but a greeting. "facts" are the predicates the
\* clause asserts that the conversation state knows too, "unsure" whether it hedges
\* them, "names" the entities it names, "refers" the ones a pronoun or a demonstrative
\* of it stands for.
Clause ==
  [question : BOOLEAN, greets : BOOLEAN, human : BOOLEAN, wants : BOOLEAN,
   first    : BOOLEAN, shifts : BOOLEAN, unsure : BOOLEAN,
   topics   : Seq(Topic), marks : SUBSET ActMark, repair : Repair,
   facts    : [FactType -> {"none", "yes", "no"}],
   names    : SUBSET (EntityType \X STRING), refers : SUBSET EntityType]

-----------------------------------------------------------------------------
\* The conversational act of the whole text: markers first, in this order.

MarkedActs ==
  <<[act |-> "correction",             confidence |-> 95],
    [act |-> "recap_request",          confidence |-> 95],
    [act |-> "simplification_request", confidence |-> 95],
    [act |-> "deepening_request",      confidence |-> 94],
    [act |-> "continuation",           confidence |-> 94],
    [act |-> "closing",                confidence |-> 90],
    [act |-> "topic_shift",            confidence |-> 90]>>

Marks(text) == UNION {text[i].marks : i \in DOMAIN text}

IsGreeting(text) == Len(text) = 1 /\ text[1].greets

Asks(text) == \E i \in DOMAIN text : text[i].question

ConversationalAct(text) ==
  LET marked == {i \in DOMAIN MarkedActs : MarkedActs[i].act \in Marks(text)}
  IN  IF marked # {} THEN MarkedActs[Min(marked)]
      ELSE IF IsGreeting(text) THEN [act |-> "greeting", confidence |-> 99]
      ELSE IF Asks(text) THEN [act |-> "question", confidence |-> 88]
      ELSE [act |-> "new_information", confidence |-> IF text = <<>> THEN 0 ELSE 75]

-----------------------------------------------------------------------------
\* Topics. The words that steer the conversation are no topic of it.

Observed(clause) == SelectSeq(clause.topics, LAMBDA t : t # "control")

ObservedTopics(text) == FlattenSeq([i \in DOMAIN text |-> Observed(text[i])])

FirstSeen(text, t) == Min({i \in DOMAIN ObservedTopics(text) : ObservedTopics(text)[i] = t})

\* The last clause that says what comes first, or turns to it, decides.
PrimaryHint(text) ==
  LET hints == {i \in DOMAIN text : Observed(text[i]) # <<>> /\ (text[i].first \/ text[i].shifts)}
  IN  IF hints = {} THEN NoValue ELSE Head(Observed(text[Max(hints)]))

TopicPriority(text, t) ==
  IF t = PrimaryHint(text) THEN 1
  ELSE 1 + Cardinality({s \in ToSet(ObservedTopics(text)) :
                          FirstSeen(text, s) <= FirstSeen(text, t)})

TopicStructure(text) ==
  [topics  |-> ToSet(ObservedTopics(text)),
   primary |-> IF PrimaryHint(text) # NoValue \/ ObservedTopics(text) = <<>>
               THEN PrimaryHint(text) ELSE Head(ObservedTopics(text))]

-----------------------------------------------------------------------------
\* Intents and goals, the most urgent and then the surest first.

Ranked(type, priority, confidence) ==
  [type |-> type, priority |-> priority, confidence |-> confidence]

Intents(text) ==
  LET topical == {Ranked(t, TopicPriority(text, t), 90) : t \in TopicStructure(text).topics}
      other   == (IF IsGreeting(text) THEN {Ranked("greet", 1, 99)} ELSE {})
                   \union (IF \E i \in DOMAIN text : text[i].human
                           THEN {Ranked("request_human", 1, 97)} ELSE {})
  IN  IF topical \union other # {} \/ text = <<>> THEN topical \union other
      ELSE IF Asks(text) THEN {Ranked("request_information", 1, 72)}
      ELSE {Ranked("open_request", 1, 55)}

\* What a clause says the user is after: at most one goal.
ClauseGoals(clause) ==
  IF clause.first THEN {Ranked("achieve_user_outcome", 1, 96)}
  ELSE IF clause.question THEN {Ranked("obtain_answer", 1, 90)}
  ELSE IF clause.wants THEN {Ranked("achieve_user_outcome", 1, 84)}
  ELSE {}

\* Without a goal of their own the intents are goals.
Goals(text) ==
  LET said == UNION {ClauseGoals(text[i]) : i \in DOMAIN text}
  IN  IF said # {} THEN said
      ELSE {Ranked("satisfy_intent", i.priority, i.confidence) : i \in Intents(text)}

-----------------------------------------------------------------------------
\* Assertions, corrections and what they collide with.

Assertions(text) ==
  {[clause   |-> x[1],
    fact     |-> x[2],
    value    |-> text[x[1]].facts[x[2]],
    modality |-> IF text[x[1]].unsure THEN "uncertain" ELSE "asserted"] :
     x \in {y \in (DOMAIN text) \X FactType : text[y[1]].facts[y[2]] # "none"}}

Uncertain(text) == \E i \in DOMAIN text : text[i].unsure

Corrections(text) == SelectSeq(text, LAMBDA clause : clause.repair # NoValue)

\* Mutant of Contradictions: only the text is searched.
ContradictionsWithinTurn(text, facts) ==
  {a.fact : a \in {x \in Assertions(text) :
                     \E b \in Assertions(text) : b.fact = x.fact /\ b.value # x.value}}

\* With what the text itself says, and with the confirmed facts as they were before
\* the turn.
Contradictions(text, facts) ==
  {a.fact : a \in {x \in Assertions(text) :
                     \/ facts[x.fact].value \notin {"none", x.value}
                     \/ \E b \in Assertions(text) : b.fact = x.fact /\ b.value # x.value}}

-----------------------------------------------------------------------------
\* Grounding.

Named(text) == UNION {text[i].names : i \in DOMAIN text}

People(text) == {e \in Named(text) : e[1] = "person"}

\* Any entity named in the text is a candidate, whichever comes first; a product will
\* do for an object. The context the runtime keeps holds no typed entity.
Unresolved(text) ==
  LET types == {e[1] : e \in Named(text)}
  IN  {r \in UNION {text[i].refers : i \in DOMAIN text} :
         r \notin types /\ ~(r = "object" /\ "product" \in types)}

\* The slots whose questions are open: the projection is given the ids of the
\* questions, which are not the names of the slots.
PendingReferences(slots) == {<<"question", s>> : s \in PendingSlots(slots)}

-----------------------------------------------------------------------------
\* interpret: the representation of a turn.
Interpretation(text, slots, facts, turn) ==
  [turn           |-> turn,
   act            |-> ConversationalAct(text),
   topics         |-> TopicStructure(text),
   intents        |-> Intents(text),
   goals          |-> Goals(text),
   assertions     |-> Assertions(text),
   uncertain      |-> Uncertain(text),
   corrections    |-> Corrections(text),
   contradictions |-> Contradictions(text, facts),
   unresolved     |-> Unresolved(text),
   people         |-> People(text),
   pending        |-> PendingReferences(slots)]

-----------------------------------------------------------------------------
(* What is made of a representation: the contracts it projects, how they compare *)
(* with the ones of the conversation state, and which of the two is the authority *)
(* of the turn for its conversational act and for its goal.                       *)
\* The first of a set of ranked values.
Preferred(ranked) ==
  IF ranked = {} THEN Ranked(NoValue, 0, 0)
  ELSE CHOOSE r \in ranked :
         \A other \in ranked : \/ r.priority < other.priority
                               \/ r.priority = other.priority /\ r.confidence >= other.confidence

\* The repair the first correction asks for.
CorrectionTarget(corrections) == IF corrections = <<>> THEN NoValue ELSE Head(corrections).repair

ProjectedAct(rep) ==
  [act |-> rep.act.act, confidence |-> rep.act.confidence,
   target |-> CorrectionTarget(rep.corrections), turn |-> rep.turn]

\* The assertion of a later clause replaces the one of an earlier clause.
LastAssertion(rep, f) ==
  CHOOSE a \in rep.assertions :
    a.fact = f /\ \A b \in rep.assertions : b.fact = f => b.clause <= a.clause

ProjectedFacts(rep) ==
  [f \in {a.fact : a \in rep.assertions} |-> LastAssertion(rep, f).value]

\* A question goes by its id, so it stays as pending beside an answer to its slot.
ProjectedSlots(rep) ==
  [s \in {<<"slot", a.fact>> : a \in rep.assertions} \union rep.pending |->
     IF s \in rep.pending THEN "pending"
     ELSE IF LastAssertion(rep, s[2]).modality = "uncertain" THEN "partially_filled" ELSE "answered"]

TopicProjection(rep) ==
  [t \in rep.topics.topics |-> IF t = rep.topics.primary THEN "active" ELSE "observed"]

\* project
Projection(rep) ==
  [turn   |-> rep.turn,
   act    |-> ProjectedAct(rep),
   intent |-> Preferred(rep.intents).type,
   goal   |-> Preferred(rep.goals),
   facts  |-> ProjectedFacts(rep),
   slots  |-> ProjectedSlots(rep),
   topics |-> TopicProjection(rep)]

\* compare_semantic_projection, for the act: its name and its confidence.
Agreement(legacy, projected) ==
  legacy.act = projected.act /\ legacy.confidence = projected.confidence

-----------------------------------------------------------------------------
\* The authority of a turn for the act. "failed" is whether the interpretation or its
\* projection raised: either way the turn has neither.

LOW_RISK_SEMANTIC_ACTS == {"greeting"}
SEMANTIC_ACT_MIN_CONFIDENCE == 95
SEMANTIC_GOAL_MIN_CONFIDENCE == 50

CriticalRisks(rep) ==
  {r \in {"unresolved_coreference", "correction_or_retraction", "contradiction",
          "semantic_uncertainty", "multiple_topics", "multiple_people",
          "greeting_intent_mismatch"} :
     CASE r = "unresolved_coreference"   -> rep.unresolved # {}
       [] r = "correction_or_retraction" -> rep.corrections # <<>>
       [] r = "contradiction"            -> rep.contradictions # {}
       [] r = "semantic_uncertainty"     -> rep.uncertain
       [] r = "multiple_topics"          -> Cardinality(rep.topics.topics) > 1
       [] r = "multiple_people"          -> Cardinality(rep.people) > 1
       [] r = "greeting_intent_mismatch" -> rep.act.act = "greeting"
                                              /\ \A i \in rep.intents : i.type # "greet"}

\* Mutant of ActRollback: neither the confidence nor the scope of the pilot is looked at.
ActRollbackOnRiskOnly(rep, projected, failed) ==
  IF failed THEN "semantic_pipeline_exception"
  ELSE IF CriticalRisks(rep) # {} THEN "critical_semantic_risk"
  ELSE NoValue

\* Why the semantic act is not promoted, if it is not; the first reason counts.
ActRollback(rep, projected, failed) ==
  IF failed THEN "semantic_pipeline_exception"
  ELSE IF CriticalRisks(rep) # {} THEN "critical_semantic_risk"
  ELSE IF projected.confidence < SEMANTIC_ACT_MIN_CONFIDENCE THEN "confidence_below_threshold"
  ELSE IF projected.act \notin LOW_RISK_SEMANTIC_ACTS THEN "outside_low_risk_pilot_scope"
  ELSE NoValue

Ruling(mode, reason, act) == [mode |-> mode, reason |-> reason, act |-> act]

\* An interruption is the reason also where the pilot is off.
ActAuthority(legacy, rep, projected, failed, enabled) ==
  LET rollback == ActRollback(rep, projected, failed)
  IN  IF ~enabled
      THEN Ruling("legacy", IF failed THEN rollback ELSE "pilot_disabled", legacy.act)
      ELSE IF rollback # NoValue THEN Ruling("rollback", rollback, legacy.act)
      ELSE Ruling("semantic", "low_risk_semantic_act_promoted", projected.act)

\* The authority for the goal. Both candidates are projected from the same state and
\* the same act, so what they decide and what they change is the same; what can keep
\* the semantic one out is that there is no goal to take its evidence from.
GoalAuthority(goal, failed, enabled) ==
  IF failed
  THEN [mode |-> IF enabled THEN "rollback" ELSE "legacy", reason |-> "semantic_pipeline_exception"]
  ELSE IF ~enabled THEN [mode |-> "legacy", reason |-> "pilot_disabled"]
  ELSE IF goal.type = NoValue
  THEN [mode |-> "rollback", reason |-> "invalid_semantic_goal_projection"]
  ELSE IF goal.confidence < SEMANTIC_GOAL_MIN_CONFIDENCE
  THEN [mode |-> "rollback", reason |-> "confidence_below_threshold"]
  ELSE [mode |-> "semantic", reason |-> "structured_semantic_goal_input_selected"]
=============================================================================
