----------------------------- MODULE SemanticTurns -----------------------------
(* The same conversation held twice: once with the semantic pilot, whose act may  *)
(* take the place of the recognised one, and once without. Both get the same      *)
(* messages and fail in the same turns, so what differs between them is what the   *)
(* pilot did. One thread serves each and a turn is one step here: "session" is the  *)
(* conversation with the pilot, "pc" and "work" are at rest between two turns.      *)
EXTENDS ConversationTurns, SemanticAuthority

CONSTANTS Texts,     \* what users say: what the recognisers find, and the clauses
          Enabled    \* the values SEMANTIC_AUTHORITY_PILOT_ENABLED may have

\* The conversation state recognises no greeting; that act is the pilot's. In the five
\* texts that are nothing but a greeting it recognises no act at all, though it finds an
\* answer in one of them: "buenas noches" has a "no" in it.
ASSUME TextsAssumption ==
  \A t \in Texts : /\ t.message \in Message /\ "greeting" \notin t.message.cues
                   /\ t.clauses \in Seq(Clause)
                   /\ IsGreeting(t.clauses) => t.message.cues = {}
ASSUME EnabledAssumption == Enabled \subseteq BOOLEAN

VARIABLES pilot,           \* whether the pilot is enabled, for the life of the process
          unaided,         \* the state of the conversation without the pilot
          representation,  \* the representation of the last turn
          record,          \* the last_semantic_* of the session: the turns they are of
          authority,       \* the decisions on the act and on the goal
          parted           \* a greeting was promoted while a topic without a name was open

semanticVars == <<vars, pilot, unaided, representation, record, authority, parted>>

NoRecord == [representation |-> 0, projection |-> 0, failure |-> 0]

NoAuthority ==
  [act    |-> Ruling("legacy", NoValue, NoValue),
   agreed |-> FALSE,
   goal   |-> [mode |-> "legacy", reason |-> NoValue]]

NoRepresentation == Interpretation(<<>>, NoSlots, NewState.facts, 0)

SemanticInit ==
  /\ Init
  /\ pilot \in Enabled
  /\ unaided = NewState
  /\ representation = NoRepresentation
  /\ record = NoRecord
  /\ authority = NoAuthority
  /\ parted = FALSE

-----------------------------------------------------------------------------
\* A turn of either conversation, up to the state begin_turn stores and up to its end.

Begun(state, m, act, n) ==
  {BegunState(state, m, act, active, n) : active \in ActiveTopics(state.topics)}

Missions(begun, m, n) ==
  IF IsMission(begun.mission)
  THEN {d.mission : d \in Decisions(begun.mission, begun.proposals, n)}
  ELSE {NewMission(m.opens)}

Finished(begun, m, n) ==
  {StateRecord(MergedSlots(begun.slots, MissionSlots(mission)), begun.facts, mission,
               ProjectedTopics(begun.topics, mission), begun.proposals) :
     mission \in Missions(begun, m, n)}

\* A turn that a later stage interrupts ends with what begin_turn stored; the first
\* one is taken to succeed.
Outcomes(state, m, act, n, interrupted) ==
  IF interrupted THEN Begun(state, m, act, n)
  ELSE UNION {Finished(begun, m, n) : begun \in Begun(state, m, act, n)}

\* What a failure of either stage leaves in the session.
RecordAfter(failed, n) ==
  IF failed THEN [representation |-> 0, projection |-> 0, failure |-> n]
  ELSE [representation |-> n, projection |-> n, failure |-> 0]

TextlessAct == [act |-> "unknown", confidence |-> 0, priority |-> 0]

LegacyActs(state, text) ==
  IF text.clauses = <<>> THEN {TextlessAct} ELSE SelectedActs(state.slots, state.facts, text.message)

\* begin_turn: the act is recognised, the text interpreted and its representation
\* projected; one authority is selected for the act before slots, facts and topics
\* are looked at, and one for the goal after them.
TakeTurn(text, failed, interrupted) ==
  /\ turn < MaxTurns
  /\ interrupted => IsMission(session.mission)
  /\ LET n          == turn + 1
         rep        == Interpretation(text.clauses, session.slots, session.facts, n)
         projection == Projection(rep)
     IN  \E legacy \in LegacyActs(session, text), alone \in LegacyActs(unaided, text) :
           LET decision == ActAuthority(legacy, rep, projection.act, failed, pilot)
           IN  /\ session' \in Outcomes(session, text.message, decision.act, n, interrupted)
               /\ unaided' \in Outcomes(unaided, text.message, alone.act, n, interrupted)
               /\ authority' = [act    |-> decision,
                                agreed |-> ~failed /\ Agreement(legacy, projection.act),
                                goal   |-> GoalAuthority(projection.goal, failed, pilot)]
               /\ parted' = (parted \/ /\ decision.mode = "semantic"
                                       /\ \E t \in OpenTopics(session.topics) : IsUnresolved(t))
               /\ representation' = IF failed THEN NoRepresentation ELSE rep
               /\ record' = RecordAfter(failed, n)
               /\ turn' = n
  /\ UNCHANGED <<pc, work, pilot>>

SemanticNext ==
  \E text \in Texts, failed, interrupted \in BOOLEAN : TakeTurn(text, failed, interrupted)

SemanticSpec == SemanticInit /\ [][SemanticNext]_semanticVars

-----------------------------------------------------------------------------
\* What the users told is the same with the pilot and without it, for good: no act it
\* selects opens, closes or forgets a datum. And until a greeting finds a topic without
\* a name open, the two conversations are the same in every respect.
PilotIsLocal ==
  /\ session.facts = unaided.facts
  /\ session.slots = unaided.slots
  /\ ~parted => session = unaided

\* The two readings of a text agree on what it takes back: when a turn revises a fact
\* the conversation knew because the message mentions it otherwise, the representation
\* of that turn lists the fact among the contradictions.
RevisionIsContradiction ==
  [][record'.failure = 0 =>
       \A f \in FactType :
         (/\ unaided.facts[f].value # "none" /\ unaided'.facts[f].value # "none"
          /\ unaided'.facts[f].value # unaided.facts[f].value
          /\ representation'.assertions # {}) => f \in representation'.contradictions]_semanticVars

=============================================================================
