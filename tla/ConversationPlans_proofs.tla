---------------------- MODULE ConversationPlans_proofs -----------------------
(* Type correctness of the turns of a conversation, and the safety properties  *)
(* that follow from the way a turn is begun, decided and committed. What a     *)
(* decision may do to the mission of a turn: it acts on evidence of the turn   *)
(* only, never overlooks a request to suspend, resumes what the user comes     *)
(* back to, and keeps a claim's answers and progress backed by its facts. With *)
(* one handler, slots agree with facts and missions follow their lifecycle.    *)
(* Then the turns that also plan; and the conversation held with the semantic  *)
(* pilot beside the one held without it.                                       *)
EXTENDS SemanticTurns, ConversationPlans, SequenceTheorems, FiniteSetTheorems,
        WellFoundedInduction, TLAPS

-----------------------------------------------------------------------------
\* The operators of one turn map values of the right shape to values of the
\* right shape.

\* The answer the matchers find for a slot is one of four values.
LEMMA SlotAnswerType ==
  ASSUME NEW slots \in [Slot -> SlotState], NEW m \in Message, NEW s \in Slot
  PROVE  SlotAnswer(slots, m, s) \in {"none", "unsure", "yes", "no"}
BY DEF SlotAnswer, ExplicitAnswer, Message, FactSlot

\* resolve_pending_slot_answers leaves slots in the vocabulary of slot states.
LEMMA SlotsResolvedType ==
  ASSUME NEW slots \in [Slot -> SlotState], NEW m \in Message
  PROVE  SlotsResolved(slots, m) \in [Slot -> SlotState]
BY SlotAnswerType DEF SlotsResolved, SlotState

\* What is pending is a set of slots.
LEMMA PendingSlotsType ==
  ASSUME NEW slots
  PROVE  PendingSlots(slots) \in SUBSET Slot
BY DEF PendingSlots

\* The empty mission is a mission.
LEMMA NoMissionType == NoMission \in Mission
BY DEF NoMission, Mission, NoSlots, NoType, MissionStatus, SlotState

\* The mission that opens a conversation is a mission.
LEMMA NewMissionType ==
  ASSUME NEW type \in MissionType
  PROVE  NewMission(type) \in Mission
BY DEF NewMission, Mission, NoSlots, MissionStatus, SlotState, Slot

\* A mission whose status is replaced is a mission.
LEMMA MissionStatusType ==
  ASSUME NEW mission \in Mission, NEW status \in MissionStatus
  PROVE  [mission EXCEPT !.status = status] \in Mission
BY DEF Mission

\* An answered slot is recorded in a mission.
LEMMA MissionResolvedType ==
  ASSUME NEW mission \in Mission, NEW slots \in [Slot -> SlotState], NEW m \in Message
  PROVE  MissionResolved(mission, slots, m) \in Mission
BY SlotsResolvedType, PendingSlotsType DEF MissionResolved, Mission

\* A proposal built from missions is one of the conversation state's own.
LEMMA ProposalType ==
  ASSUME NEW source \in ProposalSource, NEW n \in Turns, NEW kind \in TransitionKind,
         NEW confidence \in 0..100, NEW before \in Mission, NEW after \in Mission,
         NEW changes \in SUBSET DeltaField
  PROVE  Proposal(source, n, kind, confidence, before, after, changes) \in OwnProposals
BY DEF Proposal, OwnProposals, Proposals

\* The proposals of the slot resolution.
LEMMA SlotProposalsType ==
  ASSUME NEW mission \in Mission, NEW slots \in [Slot -> SlotState], NEW m \in Message,
         NEW n \in Turns
  PROVE  SlotProposals(mission, slots, m, n) \in Seq(OwnProposals)
<1> DEFINE before == MissionResolved(mission, slots, m)
<1>1. before \in Mission
  BY MissionResolvedType
<1>2. Proposal("slot_rejection", n, "maintain", 100, before, before, {}) \in OwnProposals
  BY <1>1, ProposalType DEF ProposalSource, TransitionKind, DeltaField
<1>3. [before EXCEPT !.status = "suspended"] \in Mission
  BY <1>1, MissionStatusType DEF MissionStatus
<1>4. Proposal("slot_unmatched", n, "suspend", 100, before,
               [before EXCEPT !.status = "suspended"], {"status"}) \in OwnProposals
  BY <1>1, <1>3, ProposalType DEF ProposalSource, TransitionKind, DeltaField
<1> HIDE DEF before
<1> QED
  BY <1>2, <1>4 DEF SlotProposals, before

\* The values of a message, of a fact that a slot asks about and of a withdrawal.
LEMMA ValuesType ==
  ASSUME NEW m \in Message, NEW f \in FactType
  PROVE  /\ Values(m, f) \subseteq {"yes", "no"}
         /\ f \in FactSlot => Values(m, f) # {"yes", "no"}
         /\ "withdrawal" \in m.cues => Values(m, f) = {}
BY DEF Message, Values

\* A fact keeps what it was, or is given a value by the message.
LEMMA FactAfterIs ==
  ASSUME NEW facts, NEW closed, NEW slots, NEW m \in Message, NEW n, NEW f \in FactType
  PROVE  \/ FactAfter(facts, closed, slots, m, n, f) = FactBefore(facts, closed, slots, m, n, f)
         \/ /\ Values(m, f) # {}
            /\ \E v \in Values(m, f) :
                 FactAfter(facts, closed, slots, m, n, f) = [value |-> v, turn |-> n]
BY ValuesType DEF FactAfter

\* The facts a message leaves are facts.
LEMMA FactsAfterType ==
  ASSUME NEW facts \in Facts, NEW slots \in [Slot -> SlotState], NEW m \in Message,
         NEW n \in Turns, NEW closed \in SUBSET JustClosed(slots, m)
  PROVE  FactsAfter(facts, closed, slots, m, n) \in Facts
<1> SUFFICES ASSUME NEW f \in FactType
             PROVE  FactAfter(facts, closed, slots, m, n, f) \in [value : FactValue, turn : Turns]
  BY DEF FactsAfter, Facts
<1>1. f \in closed => SlotAnswer(slots, m, f) \in FactValue
  BY DEF JustClosed, ClosedSlotState, FactValue
<1>2. NoFact \in [value : FactValue, turn : Turns]
  BY MaxTurnsAssumption DEF NoFact, FactValue, Turns
<1>3. FactBefore(facts, closed, slots, m, n, f) \in [value : FactValue, turn : Turns]
  BY <1>1, <1>2 DEF FactBefore, Facts
<1>4. Values(m, f) \subseteq FactValue
  BY ValuesType DEF FactValue
<1> QED
  BY <1>3, <1>4, FactAfterIs

\* A slot takes the value of a fact only when the fact has one: a fact that
\* changed without being withdrawn was mentioned or answered.
LEMMA SlotsAfterFactsType ==
  ASSUME NEW facts \in Facts, NEW before \in [Slot -> SlotState],
         NEW slots \in [Slot -> SlotState], NEW m \in Message, NEW n \in Turns,
         NEW closed \in SUBSET JustClosed(before, m)
  PROVE  SlotsAfterFacts(slots, facts, FactsAfter(facts, closed, before, m, n),
                         Withdrawn(facts, closed, m), closed) \in [Slot -> SlotState]
<1> DEFINE after     == FactsAfter(facts, closed, before, m, n)
           withdrawn == Withdrawn(facts, closed, m)
<1>1. ASSUME NEW s \in FactSlot, s \notin withdrawn, s \in closed \/ after[s] # facts[s]
      PROVE  after[s].value \in {"yes", "no"}
  <2>1. s \in FactType
    BY DEF FactSlot, FactType
  <2>2. after[s] = FactAfter(facts, closed, before, m, n, s)
    BY <2>1 DEF FactsAfter
  <2>3. Values(m, s) \subseteq {"yes", "no"}
    BY <2>1, ValuesType
  <2>4. s \in closed => SlotAnswer(before, m, s) \in {"yes", "no"}
    BY DEF JustClosed, ClosedSlotState
  <2> QED
    BY <1>1, <2>1, <2>2, <2>3, <2>4, FactAfterIs DEF FactBefore
<1> HIDE DEF after, withdrawn
<1>2. SlotsAfterFacts(slots, facts, after, withdrawn, closed) \in [Slot -> SlotState]
  BY <1>1 DEF SlotsAfterFacts, SlotState
<1> QED
  BY <1>2 DEF after, withdrawn

\* The status a claim moves to is a status.
LEMMA SafeMissionTransitionType ==
  ASSUME NEW previous \in MissionStatus, NEW facts, NEW missing
  PROVE  SafeMissionTransition(previous, MissionStatusFor(facts, missing)) \in MissionStatus
<1>1. MissionStatusFor(facts, missing) \in MissionStatus
  BY DEF MissionStatusFor, MissionStatus
<1>2. "gathering_information" \in MissionStatus
  BY DEF MissionStatus
<1> QED
  BY <1>1, <1>2 DEF SafeMissionTransition

\* An advanced mission is a mission.
LEMMA AdvancedMissionType ==
  ASSUME NEW mission \in Mission, NEW facts \in Facts, NEW slots \in [Slot -> SlotState]
  PROVE  AdvancedMission(mission, facts, slots) \in Mission
<1> DEFINE status == SafeMissionTransition(mission.status,
                                           MissionStatusFor(facts, PendingSlots(slots)))
<1>1. status \in MissionStatus
  BY SafeMissionTransitionType DEF Mission
<1> HIDE DEF status
<1>2. [mission EXCEPT !.missing = PendingSlots(slots), !.slots = slots, !.status = status]
        \in Mission
  BY <1>1, PendingSlotsType DEF Mission
<1> QED
  BY <1>2 DEF AdvancedMission, status

\* A mission under clarification is a mission.
LEMMA ClarifiedMissionType ==
  ASSUME NEW mission \in Mission, NEW ambiguous \in BOOLEAN
  PROVE  ClarifiedMission(mission, ambiguous) \in Mission
BY MissionStatusType DEF ClarifiedMission, MissionStatus

\* The proposal of an advancement.
LEMMA AdvancementProposalsType ==
  ASSUME NEW mission \in Mission, NEW advanced \in Mission, NEW clarified \in Mission,
         NEW n \in Turns
  PROVE  AdvancementProposals(mission, advanced, clarified, n) \in Seq(OwnProposals)
<1> DEFINE before  == IF clarified # advanced THEN advanced ELSE mission
           changes == {f \in DeltaField : clarified[f] # before[f]}
<1>1. Proposal("advancement", n, "maintain", 100, before, clarified, changes) \in OwnProposals
  <2>1. before \in Mission /\ changes \in SUBSET DeltaField
    OBVIOUS
  <2>2. "advancement" \in ProposalSource /\ "maintain" \in TransitionKind /\ 100 \in 0..100
    BY DEF ProposalSource, TransitionKind
  <2> HIDE DEF before, changes
  <2> QED
    BY <2>1, <2>2, ProposalType
<1> HIDE DEF before, changes
<1> QED
  BY <1>1 DEF AdvancementProposals, before, changes

-----------------------------------------------------------------------------
\* The topic stack.

\* A move targets a topic of the conversation or none, with an open status.
LEMMA TopicMoveType ==
  ASSUME NEW mission, NEW topics, NEW active, NEW act, NEW direction, NEW n \in Turns
  PROVE  TopicMove(mission, topics, active, act, direction, n)
           \in [to : Turns \union {NoTopic}, status : {"active", "resumed"}]
<1>1. MissionTopic \in Turns
  BY MaxTurnsAssumption DEF MissionTopic, Turns
<1> QED
  BY <1>1 DEF TopicMove

\* The moves of a topic stack keep its shape.
LEMMA TopicsAfterType ==
  ASSUME NEW topics \in TopicStack, NEW active,
         NEW move \in [to : Turns \union {NoTopic}, status : {"active", "resumed"}]
  PROVE  TopicsAfter(topics, active, move) \in TopicStack
BY DEF TopicsAfter, SwitchTopic, TopicStack, TopicStatus

\* An empty stack has no open topic.
LEMMA EmptyStackType ==
  EmptyStack \in TopicStack /\ OpenTopics(EmptyStack) = {}
BY DEF EmptyStack, TopicStack, OpenTopics, AbsentTopic

\* The open topic of a stack with one open topic is the only one: closing it
\* while opening another leaves one.
LEMMA TopicsAfterOneOpen ==
  ASSUME NEW topics \in TopicStack, HasOneOpenTopic(topics),
         NEW active \in ActiveTopics(topics),
         NEW move \in [to : Turns \union {NoTopic}, status : {"active", "resumed"}]
  PROVE  HasOneOpenTopic(TopicsAfter(topics, active, move))
<1>1. CASE move.to = NoTopic
  BY <1>1 DEF TopicsAfter
<1>2. CASE move.to # NoTopic
  <2> DEFINE after == SwitchTopic(topics, active, move.to, move.status)
  <2>1. move.to \in Turns /\ move.status \in {"active", "resumed"}
    BY <1>2
  <2>2. \A t \in OpenTopics(topics) : t = active
    BY EmptyStackType DEF HasOneOpenTopic, ActiveTopics
  <2>3. OpenTopics(after) = {move.to}
    BY <2>1, <2>2 DEF OpenTopics, SwitchTopic
  <2> QED
    BY <1>2, <2>1, <2>3 DEF TopicsAfter, HasOneOpenTopic
<1> QED
  BY <1>1, <1>2

\* The stack a finished turn stores has one open topic.
LEMMA ProjectedTopicsOneOpen ==
  ASSUME NEW topics \in TopicStack, HasOneOpenTopic(topics), NEW mission
  PROVE  /\ ProjectedTopics(topics, mission) \in TopicStack
         /\ HasOneOpenTopic(ProjectedTopics(topics, mission))
<1>1. MissionTopic \in Turns
  BY MaxTurnsAssumption DEF MissionTopic, Turns
<1> DEFINE opened == [EmptyStack EXCEPT ![MissionTopic] = "active"]
<1>2. opened \in TopicStack
  BY <1>1 DEF EmptyStack, TopicStack, TopicStatus, AbsentTopic
<1>3. OpenTopics(opened) = {MissionTopic}
  BY <1>1 DEF EmptyStack, OpenTopics, AbsentTopic
<1> HIDE DEF opened
<1>4. HasOneOpenTopic(opened)
  BY <1>1, <1>3 DEF HasOneOpenTopic
<1> QED
  BY <1>2, <1>4 DEF ProjectedTopics, opened

\* The proposals of a topic move.
LEMMA TopicProposalsType ==
  ASSUME NEW mission \in Mission, NEW active, NEW move, NEW act, NEW n \in Turns
  PROVE  TopicProposals(mission, active, move, act, n) \in Seq(OwnProposals)
<1> DEFINE back == IF mission.missing # {} THEN "waiting_user" ELSE "gathering_information"
           resumed   == [mission EXCEPT !.status = back]
           suspended == [mission EXCEPT !.status = "suspended"]
<1>1. ActConfidence(act) \in 0..100
  BY DEF ActConfidence
<1>2. resumed \in Mission /\ suspended \in Mission
  BY MissionStatusType DEF MissionStatus
<1> HIDE DEF resumed, suspended
<1>3. Proposal("topic_resume", n, "resume", ActConfidence(act), mission, resumed, {"status"})
        \in OwnProposals
  BY <1>1, <1>2, ProposalType DEF ProposalSource, TransitionKind, DeltaField
<1>4. Proposal("topic_suspend", n, "suspend", ActConfidence(act), mission, suspended, {"status"})
        \in OwnProposals
  BY <1>1, <1>2, ProposalType DEF ProposalSource, TransitionKind, DeltaField
<1> QED
  BY <1>3, <1>4 DEF TopicProposals, resumed, suspended

-----------------------------------------------------------------------------
\* The decision.

\* Two proposal lists laid end to end.
LEMMA ConcatType ==
  ASSUME NEW p \in Seq(OwnProposals), NEW q \in Seq(OwnProposals)
  PROVE  p \o q \in Seq(OwnProposals)
BY ConcatProperties

\* A merged field comes from a proposal or from the snapshot of the winner.
LEMMA MergedFieldOrigin ==
  ASSUME NEW p \in Seq(OwnProposals), NEW indices \in SUBSET DOMAIN p,
         NEW winner \in DOMAIN p, NEW f \in DeltaField
  PROVE  \/ \E j \in indices : f \in p[j].changes /\ MergedField(p, indices, winner, f) = p[j].after[f]
         \/ /\ \A j \in indices : f \notin p[j].changes
            /\ MergedField(p, indices, winner, f) = p[winner].before[f]
BY DEF MergedField

\* The merge of proposals is a mission.
LEMMA MergedType ==
  ASSUME NEW p \in Seq(OwnProposals), NEW indices \in SUBSET DOMAIN p,
         NEW winner \in DOMAIN p
  PROVE  Merged(p, indices, winner) \in Mission
<1>1. \A j \in DOMAIN p : p[j].before \in Mission /\ p[j].after \in Mission
  <2>1. \A j \in DOMAIN p : p[j] \in OwnProposals
    OBVIOUS
  <2> QED
    BY <2>1 DEF OwnProposals, Proposals
<1>2. ASSUME NEW f \in DeltaField
      PROVE  \E source \in Mission : MergedField(p, indices, winner, f) = source[f]
  BY <1>1, MergedFieldOrigin
<1>3. MergedField(p, indices, winner, "status") \in MissionStatus
  <2>1. PICK source \in Mission : MergedField(p, indices, winner, "status") = source["status"]
    BY <1>2 DEF DeltaField
  <2> QED
    BY <2>1 DEF Mission
<1>4. MergedField(p, indices, winner, "missing") \in SUBSET Slot
  <2>1. PICK source \in Mission : MergedField(p, indices, winner, "missing") = source["missing"]
    BY <1>2 DEF DeltaField
  <2> QED
    BY <2>1 DEF Mission
<1>5. MergedField(p, indices, winner, "slots") \in [Slot -> SlotState]
  <2>1. PICK source \in Mission : MergedField(p, indices, winner, "slots") = source["slots"]
    BY <1>2 DEF DeltaField
  <2> QED
    BY <2>1 DEF Mission
<1> QED
  BY <1>1, <1>3, <1>4, <1>5 DEF Merged, Mission

\* A decision is a record of a kind, a verdict and a mission.
LEMMA DecisionRecord ==
  ASSUME NEW kind \in TransitionKind \union {"none"}, NEW accepted \in BOOLEAN,
         NEW mission \in Mission
  PROVE  [kind |-> kind, accepted |-> accepted, mission |-> mission] \in Decision
BY Zenon DEF Decision

\* The candidates and the winner are positions of the list.
LEMMA WinnersType ==
  ASSUME NEW p, NEW n
  PROVE  /\ Candidates(p, n) \in SUBSET DOMAIN p
         /\ Winners(p, Candidates(p, n)) \in SUBSET Candidates(p, n)
BY DEF Candidates, Winners

\* A decision on missions yields a mission.
LEMMA DecisionsType ==
  ASSUME NEW mission \in Mission, NEW p \in Seq(OwnProposals), NEW n \in Turns,
         NEW d \in Decisions(mission, p, n)
  PROVE  d \in Decision
<1> DEFINE candidates == Candidates(p, n)
<1>1. CASE candidates = {}
  BY <1>1, DecisionRecord DEF Decisions, TransitionKind
<1>2. CASE candidates # {}
  <2>1. PICK i \in Winners(p, candidates) : d = Verdict(mission, p, candidates, i)
    BY <1>2 DEF Decisions
  <2>2. i \in DOMAIN p /\ candidates \in SUBSET DOMAIN p /\ i \in candidates
    BY <2>1, WinnersType
  <2> HIDE DEF candidates
  <2> DEFINE indices == IF p[i].kind = "maintain" THEN candidates ELSE {i}
             merged  == Merged(p, indices, i)
  <2>3. indices \in SUBSET DOMAIN p
    BY <2>2
  <2>4. merged \in Mission
    BY <2>2, <2>3, MergedType
  <2>5. p[i] \in OwnProposals
    BY <2>2
  <2>6. p[i].kind \in TransitionKind /\ p[i].after \in Mission
    BY <2>5 DEF OwnProposals, Proposals
  <2>7. \/ d = Rejected(mission)
        \/ /\ d.kind = p[i].kind /\ d.accepted = TRUE
           /\ d = [kind |-> p[i].kind, accepted |-> TRUE, mission |-> d.mission]
           /\ d.mission \in {NoMission, p[i].after, merged}
    <3> HIDE DEF merged, indices
    <3> QED
      BY <2>1 DEF Verdict, merged, indices
  <2> HIDE DEF merged
  <2> QED
    BY <2>4, <2>6, <2>7, NoMissionType, DecisionRecord DEF Rejected, TransitionKind
<1> QED
  BY <1>1, <1>2

-----------------------------------------------------------------------------
\* The state of a turn.

\* resolve_pending_slot_answers keeps the shape of the state and its topics.
LEMMA ResolveSlotsType ==
  ASSUME NEW state \in States, NEW m \in Message, NEW act, NEW n \in Turns
  PROVE  /\ ResolveSlots(state, m, act, n) \in States
         /\ ResolveSlots(state, m, act, n).topics = state.topics
<1>1. /\ SlotsResolved(state.slots, m) \in [Slot -> SlotState]
      /\ MissionResolved(state.mission, state.slots, m) \in Mission
      /\ SlotProposals(state.mission, state.slots, m, n) \in Seq(OwnProposals)
  BY SlotsResolvedType, MissionResolvedType, SlotProposalsType DEF States
<1>2. state.proposals \o SlotProposals(state.mission, state.slots, m, n) \in Seq(OwnProposals)
  BY <1>1, ConcatType DEF States
<1> QED
  BY <1>1, <1>2 DEF ResolveSlots, States

\* assimilate_user_facts keeps the shape of the state and its topics.
LEMMA AssimilateFactsType ==
  ASSUME NEW state \in States, NEW slots \in [Slot -> SlotState], NEW m \in Message,
         NEW act, NEW n \in Turns
  PROVE  /\ AssimilateFacts(state, slots, m, act, n) \in States
         /\ AssimilateFacts(state, slots, m, act, n).topics = state.topics
<1> DEFINE closed     == IF SuppressesSlots(act) THEN {} ELSE JustClosed(slots, m)
           facts      == FactsAfter(state.facts, closed, slots, m, n)
           slotsAfter == SlotsAfterFacts(state.slots, state.facts, facts,
                                         Withdrawn(state.facts, closed, m), closed)
           advanced   == AdvancedMission(state.mission, facts, slotsAfter)
           ambiguous  == AmbiguousWithdrawal(state.facts, closed, m)
           clarified  == ClarifiedMission(advanced, ambiguous)
           proposals  == AdvancementProposals(state.mission, advanced, clarified, n)
<1>0. /\ state.slots \in [Slot -> SlotState] /\ state.facts \in Facts
      /\ state.mission \in Mission /\ state.proposals \in Seq(OwnProposals)
  BY DEF States
<1>1. closed \in SUBSET JustClosed(slots, m)
  OBVIOUS
<1> HIDE DEF closed
<1>2. facts \in Facts
  BY <1>0, <1>1, FactsAfterType
<1>3. slotsAfter \in [Slot -> SlotState]
  BY <1>0, <1>1, SlotsAfterFactsType
<1> HIDE DEF facts, slotsAfter
<1>4. advanced \in Mission
  BY <1>0, <1>2, <1>3, AdvancedMissionType
<1>5. ambiguous \in BOOLEAN
  BY DEF AmbiguousWithdrawal
<1> HIDE DEF advanced, ambiguous
<1>6. clarified \in Mission
  BY <1>4, <1>5, ClarifiedMissionType
<1> HIDE DEF clarified
<1>7. state.proposals \o proposals \in Seq(OwnProposals)
  BY <1>0, <1>4, <1>6, AdvancementProposalsType, ConcatType
<1> HIDE DEF proposals
<1>8. AssimilateFacts(state, slots, m, act, n)
        = [state EXCEPT !.facts = facts, !.slots = slotsAfter, !.mission = clarified,
                        !.proposals = state.proposals \o proposals]
  BY DEF AssimilateFacts, closed, facts, slotsAfter, advanced, ambiguous, clarified, proposals
<1> QED
  BY <1>2, <1>3, <1>6, <1>7, <1>8 DEF States

\* update_topic_stack keeps the shape of the state and leaves one open topic.
LEMMA UpdateTopicStackType ==
  ASSUME NEW state \in States, HasOneOpenTopic(state.topics), NEW act, NEW direction,
         NEW active \in ActiveTopics(state.topics), NEW n \in Turns
  PROVE  /\ UpdateTopicStack(state, active, act, direction, n) \in States
         /\ HasOneOpenTopic(UpdateTopicStack(state, active, act, direction, n).topics)
<1> DEFINE move   == TopicMove(state.mission, state.topics, active, act, direction, n)
           topics == TopicsAfter(state.topics, active, move)
           added  == TopicProposals(state.mission, active, move, act, n)
<1>1. move \in [to : Turns \union {NoTopic}, status : {"active", "resumed"}]
  BY TopicMoveType
<1> HIDE DEF move
<1>2. topics \in TopicStack /\ HasOneOpenTopic(topics)
  BY <1>1, TopicsAfterType, TopicsAfterOneOpen DEF States
<1>3. state.proposals \o added \in Seq(OwnProposals)
  BY TopicProposalsType, ConcatType DEF States
<1> HIDE DEF topics, added
<1>4. UpdateTopicStack(state, active, act, direction, n)
        = [state EXCEPT !.topics = topics, !.proposals = state.proposals \o added]
  BY DEF UpdateTopicStack, move, topics, added
<1> QED
  BY <1>2, <1>3, <1>4 DEF States

\* begin_turn leaves a state of the right shape, with one open topic.
LEMMA BegunStateType ==
  ASSUME NEW state \in States, HasOneOpenTopic(state.topics), NEW m \in Message, NEW act,
         NEW active \in ActiveTopics(state.topics), NEW n \in Turns
  PROVE  /\ BegunState(state, m, act, active, n) \in States
         /\ HasOneOpenTopic(BegunState(state, m, act, active, n).topics)
<1> DEFINE resolved    == ResolveSlots(state, m, act, n)
           assimilated == AssimilateFacts(resolved, state.slots, m, act, n)
<1>1. resolved \in States /\ resolved.topics = state.topics
  BY ResolveSlotsType
<1> HIDE DEF resolved
<1>2. assimilated \in States /\ assimilated.topics = state.topics
  BY <1>1, AssimilateFactsType DEF States
<1> HIDE DEF assimilated
<1> QED
  BY <1>2, UpdateTopicStackType DEF BegunState, resolved, assimilated

\* The act that is selected is one of the acts.
LEMMA SelectedActsType ==
  ASSUME NEW slots, NEW facts, NEW m, NEW a \in SelectedActs(slots, facts, m)
  PROVE  a.act \in Act
<1>1. a \in CandidateActs(slots, facts, m)
  BY DEF SelectedActs
<1>2. a \in Correction(facts, m) => a.act \in Act
  BY DEF Correction, Act, Cue
<1>3. a \in PendingAnswer(slots, m) => a.act \in Act
  BY DEF PendingAnswer, Act
<1>4. a \in CueActs(slots, m) => a.act \in Act
  BY DEF CueActs, Act, Cue
<1> QED
  BY <1>1, <1>2, <1>3, <1>4 DEF CandidateActs, Act

\* The new conversation and the idle handler.
LEMMA NewStateType ==
  NewState \in States /\ HasOneOpenTopic(NewState.topics) /\ Idle \in Work
<1>1. NoSlots \in [Slot -> SlotState]
  BY DEF NoSlots, SlotState
<1>2. [f \in FactType |-> NoFact] \in Facts
  BY MaxTurnsAssumption DEF Facts, NoFact, FactValue, Turns
<1>3. <<>> \in Seq(OwnProposals)
  OBVIOUS
<1>4. NewState \in States /\ NewState.topics = EmptyStack
  BY <1>1, <1>2, <1>3, NoMissionType, EmptyStackType DEF NewState, StateRecord, States
<1>5. NoDecision \in Decision
  BY NoMissionType, DecisionRecord DEF NoDecision
<1>6. 0 \in Turns /\ "general_orientation" \in MissionType
  BY MaxTurnsAssumption DEF Turns, MissionType
<1>7. Idle \in Work
  BY <1>4, <1>5, <1>6 DEF Idle, Work
<1> QED
  BY <1>4, <1>7 DEF HasOneOpenTopic

\* The slots and the facts of a finished turn.
LEMMA MergeType ==
  ASSUME NEW slots \in [Slot -> SlotState], NEW facts \in Facts, NEW projected \in Facts,
         NEW mission \in Mission
  PROVE  /\ MergedSlots(slots, MissionSlots(mission)) \in [Slot -> SlotState]
         /\ MergedFacts(facts, projected) \in Facts
<1>1. MissionSlots(mission) \in [Slot -> SlotState]
  BY DEF MissionSlots, Mission, SlotState
<1> QED
  BY <1>1 DEF MergedSlots, MergedFacts, Facts

-----------------------------------------------------------------------------
\* Types and topics form one inductive invariant: the search for the open topic
\* needs the shape of the stack, the shape of the stack needs nothing else.
TopicInv == TypeOK /\ OneOpenTopic

\* What begin_turn stores for a message, its act and the open topic.
BeginsWith(h, m, a, active) ==
  LET begun == BegunState(session, m, a.act, active, turn + 1)
  IN  /\ session' = begun
      /\ work' = [work EXCEPT ![h] =
                    [turn |-> turn + 1, act |-> a.act, direction |-> m.direction,
                     opens |-> m.opens, state |-> begun, decision |-> NoDecision]]

\* A new conversation is well typed and has no topics.
LEMMA TopicInvInit == Init => TopicInv
BY NewStateType, MaxTurnsAssumption
   DEF Init, TopicInv, TypeOK, OneOpenTopic, Carried, Turns, Idle

\* Every step keeps the types and the one open topic.
LEMMA TopicInvStep == TopicInv /\ [Next]_vars => TopicInv'
<1> SUFFICES ASSUME TopicInv, [Next]_vars PROVE TopicInv'
  OBVIOUS
<1> USE DEF TopicInv
<1>0. CASE UNCHANGED vars
  BY <1>0 DEF vars, TypeOK, OneOpenTopic, Carried
<1>1. ASSUME NEW h \in Handlers, BeginTurn(h) PROVE TopicInv'
  <2>1. PICK m \in Messages : \E a \in SelectedActs(session.slots, session.facts, m) :
          \E active \in ActiveTopics(session.topics) : BeginsWith(h, m, a, active)
    BY <1>1 DEF BeginTurn, BeginTurnWith, BeginsWith
  <2>2. PICK a \in SelectedActs(session.slots, session.facts, m) :
          \E active \in ActiveTopics(session.topics) : BeginsWith(h, m, a, active)
    BY <2>1
  <2>3. PICK active \in ActiveTopics(session.topics) : BeginsWith(h, m, a, active)
    BY <2>2
  <2> DEFINE begun == BegunState(session, m, a.act, active, turn + 1)
             item  == [turn |-> turn + 1, act |-> a.act, direction |-> m.direction,
                       opens |-> m.opens, state |-> begun, decision |-> NoDecision]
  <2>4. m \in Message /\ a.act \in Act
    BY MessagesAssumption, SelectedActsType
  <2>5. turn + 1 \in Turns
    BY <1>1, MaxTurnsAssumption DEF BeginTurn, BeginTurnWith, TypeOK, Turns
  <2>6. begun \in States /\ HasOneOpenTopic(begun.topics)
    BY <2>4, <2>5, BegunStateType DEF TypeOK, OneOpenTopic
  <2>7. NoDecision \in Decision
    BY NoMissionType, DecisionRecord DEF NoDecision
  <2>8. session' = begun /\ work' = [work EXCEPT ![h] = item]
    BY <2>3 DEF BeginsWith
  <2>9. item.state = begun
    OBVIOUS
  <2> HIDE DEF begun
  <2>10. item \in Work
    BY <2>4, <2>5, <2>6, <2>7 DEF Work, Message
  <2>11. turn' = turn + 1 /\ pc' = [pc EXCEPT ![h] = "begun"]
    BY <1>1 DEF BeginTurn, BeginTurnWith
  <2> HIDE DEF item
  <2>12. TypeOK'
    BY <2>5, <2>6, <2>8, <2>10, <2>11 DEF TypeOK
  <2>13. OneOpenTopic'
    BY <2>6, <2>8, <2>9 DEF OneOpenTopic, TypeOK, Carried
  <2> QED
    BY <2>12, <2>13
<1>2. ASSUME NEW h \in Handlers, DecideMission(h) PROVE TopicInv'
  <2>1. PICK d \in Decisions(work[h].state.mission, work[h].state.proposals, work[h].turn) :
          work' = [work EXCEPT
                     ![h].decision      = d,
                     ![h].state.mission = d.mission,
                     ![h].state.facts   = MergedFacts(session.facts, work[h].state.facts)]
    BY <1>2 DEF DecideMission
  <2>2. work[h] \in Work /\ work[h].state \in States /\ session \in States
    BY DEF TypeOK, Work
  <2>3. d \in Decision
    BY <2>2, DecisionsType DEF Work, States
  <2>4. MergedFacts(session.facts, work[h].state.facts) \in Facts
    BY <2>2 DEF MergedFacts, Facts, States
  <2> HIDE DEF TopicInv
  <2>5. work'[h] \in Work /\ work'[h].state.topics = work[h].state.topics
    BY <2>1, <2>2, <2>3, <2>4 DEF Work, States, Decision, TopicInv, TypeOK
  <2>6. /\ work' = [work EXCEPT ![h] = work'[h]]
        /\ pc' = [pc EXCEPT ![h] = "decided"] /\ UNCHANGED <<turn, session>>
    BY <1>2, <2>1 DEF DecideMission, TopicInv, TypeOK
  <2> QED
    BY <2>5, <2>6 DEF TopicInv, TypeOK, OneOpenTopic, Carried
<1>3. ASSUME NEW h \in Handlers, CreateMission(h) PROVE TopicInv'
  <2>1. work[h] \in Work /\ work[h].state \in States /\ session \in States
    BY DEF TypeOK, Work
  <2>2. NewMission(work[h].opens) \in Mission
    BY <2>1, NewMissionType DEF Work
  <2>3. MergedFacts(session.facts, work[h].state.facts) \in Facts
    BY <2>1 DEF MergedFacts, Facts, States
  <2> HIDE DEF TopicInv
  <2>4. work'[h] \in Work /\ work'[h].state.topics = work[h].state.topics
    BY <1>3, <2>1, <2>2, <2>3 DEF CreateMission, Work, States, TopicInv, TypeOK
  <2>5. /\ work' = [work EXCEPT ![h] = work'[h]]
        /\ pc' = [pc EXCEPT ![h] = "decided"] /\ UNCHANGED <<turn, session>>
    BY <1>3 DEF CreateMission, TopicInv, TypeOK
  <2> QED
    BY <2>4, <2>5 DEF TopicInv, TypeOK, OneOpenTopic, Carried
<1>4. ASSUME NEW h \in Handlers, CommitTurn(h) PROVE TopicInv'
  <2> DEFINE done == work[h].state
  <2>1. done \in States /\ session \in States /\ HasOneOpenTopic(done.topics)
    BY DEF TypeOK, Work, OneOpenTopic, Carried
  <2>2. /\ MergedSlots(session.slots, MissionSlots(done.mission)) \in [Slot -> SlotState]
        /\ MergedFacts(session.facts, done.facts) \in Facts
    BY <2>1, MergeType DEF States
  <2>3. /\ ProjectedTopics(done.topics, done.mission) \in TopicStack
        /\ HasOneOpenTopic(ProjectedTopics(done.topics, done.mission))
    BY <2>1, ProjectedTopicsOneOpen DEF States
  <2>4. session' \in States /\ HasOneOpenTopic(session'.topics)
    BY <1>4, <2>1, <2>2, <2>3 DEF CommitTurn, StateRecord, States
  <2>5. /\ pc' = [pc EXCEPT ![h] = "idle"] /\ work' = [work EXCEPT ![h] = Idle]
        /\ turn' = turn
    BY <1>4 DEF CommitTurn
  <2>6. Idle \in Work /\ HasOneOpenTopic(Idle.state.topics)
    BY NewStateType DEF Idle
  <2> QED
    BY <2>4, <2>5, <2>6 DEF TypeOK, OneOpenTopic, Carried
<1>5. ASSUME NEW h \in Handlers, FailTurn(h) PROVE TopicInv'
  <2>1. Idle \in Work /\ HasOneOpenTopic(Idle.state.topics)
    BY NewStateType DEF Idle
  <2> QED
    BY <1>5, <2>1 DEF FailTurn, TypeOK, OneOpenTopic, Carried
<1> QED
  BY <1>0, <1>1, <1>2, <1>3, <1>4, <1>5 DEF Next

\* Every reachable state is well typed: whatever is answered, withdrawn, decided
\* and committed, by any number of handlers in any order.
THEOREM TypeCorrect == Spec => []TypeOK
<1>1. TopicInv => TypeOK
  BY DEF TopicInv
<1> QED
  BY <1>1, TopicInvInit, TopicInvStep, PTL DEF Spec

\* The session, and every turn in progress, has one open topic or no topic.
THEOREM OneOpenTopicAlways == Spec => []OneOpenTopic
<1>1. TopicInv => OneOpenTopic
  BY DEF TopicInv
<1> QED
  BY <1>1, TopicInvInit, TopicInvStep, PTL DEF Spec

-----------------------------------------------------------------------------
(* A closed slot is asked again only when its fact is forgotten.               *)

\* Answers are looked for among the pending slots only.
LEMMA AnsweredArePending ==
  ASSUME NEW slots, NEW m, NEW s \in Slot, SlotAnswer(slots, m, s) # "none"
  PROVE  s \in PendingSlots(slots)
<1>1. CASE s \in ExplicitMatches(slots, m)
  BY <1>1 DEF ExplicitMatches
<1>2. CASE s \notin ExplicitMatches(slots, m)
  <2>1. s = "user_role" /\ ContextualRole(slots, m)
    BY <1>2 DEF SlotAnswer
  <2> QED
    BY <2>1 DEF ContextualRole, PrimarySlot
<1> QED
  BY <1>1, <1>2

\* resolve_pending_slot_answers leaves a closed slot as it is.
LEMMA ResolveKeepsClosed ==
  ASSUME NEW slots \in [Slot -> SlotState], NEW m, NEW s \in Slot,
         slots[s] \in ClosedSlotState
  PROVE  SlotsResolved(slots, m)[s] = slots[s]
<1>1. s \notin PendingSlots(slots)
  BY DEF PendingSlots, ClosedSlotState
<1>2. SlotAnswer(slots, m, s) = "none"
  BY <1>1, AnsweredArePending
<1> QED
  BY <1>2 DEF SlotsResolved

\* assimilate_user_facts reopens a closed slot only by withdrawing its fact.
LEMMA FactsReopenOnlyWithdrawn ==
  ASSUME NEW facts \in Facts, NEW before \in [Slot -> SlotState],
         NEW slots \in [Slot -> SlotState], NEW m \in Message, NEW n \in Turns,
         NEW closed \in SUBSET JustClosed(before, m),
         NEW s \in FactSlot, slots[s] \in ClosedSlotState,
         SlotsAfterFacts(slots, facts, FactsAfter(facts, closed, before, m, n),
                         Withdrawn(facts, closed, m), closed)[s] \notin ClosedSlotState
  PROVE  /\ facts[s].value # "none"
         /\ FactsAfter(facts, closed, before, m, n)[s].value = "none"
<1> DEFINE after     == FactsAfter(facts, closed, before, m, n)
           withdrawn == Withdrawn(facts, closed, m)
<1>1. s \in FactType /\ s \in Slot
  BY DEF FactSlot, FactType, Slot
<1>2. after[s] = FactAfter(facts, closed, before, m, n, s)
  BY <1>1 DEF FactsAfter
<1>3. s \in withdrawn
  <2> SUFFICES ASSUME s \notin withdrawn PROVE FALSE
    OBVIOUS
  <2>1. Values(m, s) \subseteq {"yes", "no"}
    BY <1>1, ValuesType
  <2>2. s \in closed => SlotAnswer(before, m, s) \in {"yes", "no"}
    BY DEF JustClosed, ClosedSlotState
  <2>3. s \in closed \/ after[s] # facts[s] => after[s].value \in {"yes", "no"}
    BY <1>1, <1>2, <2>1, <2>2, FactAfterIs DEF FactBefore
  <2> HIDE DEF after, withdrawn
  <2> QED
    BY <1>1, <2>3 DEF SlotsAfterFacts, ClosedSlotState, after, withdrawn
<1>4. "withdrawal" \in m.cues /\ s \in Known(facts) /\ s \notin closed
  BY <1>3 DEF Withdrawn, WithdrawalTargets, LatestFacts
<1>5. Values(m, s) = {}
  BY <1>1, <1>4, ValuesType
<1>6. after[s] = NoFact
  BY <1>2, <1>3, <1>4, <1>5 DEF FactAfter, FactBefore
<1> QED
  BY <1>4, <1>6 DEF Known, NoFact

\* begin_turn reopens a closed slot only by withdrawing its fact.
LEMMA BeginReopensOnlyWithdrawn ==
  ASSUME NEW state \in States, NEW m \in Message, NEW act, NEW active, NEW n \in Turns,
         NEW s \in FactSlot, state.slots[s] \in ClosedSlotState,
         BegunState(state, m, act, active, n).slots[s] \notin ClosedSlotState
  PROVE  /\ state.facts[s].value # "none"
         /\ BegunState(state, m, act, active, n).facts[s].value = "none"
<1> DEFINE resolved  == ResolveSlots(state, m, act, n)
           closed    == IF SuppressesSlots(act) THEN {} ELSE JustClosed(state.slots, m)
           facts     == FactsAfter(resolved.facts, closed, state.slots, m, n)
           slots     == SlotsAfterFacts(resolved.slots, resolved.facts, facts,
                                        Withdrawn(resolved.facts, closed, m), closed)
           begun     == BegunState(state, m, act, active, n)
<1>1. /\ resolved \in States /\ resolved.facts = state.facts
      /\ resolved.slots \in {state.slots, SlotsResolved(state.slots, m)}
  <2>1. resolved \in States
    BY ResolveSlotsType
  <2> QED
    BY <2>1 DEF ResolveSlots, States
<1>2. resolved.slots[s] \in ClosedSlotState
  BY <1>1, ResolveKeepsClosed DEF States, FactSlot, Slot
<1>3. closed \in SUBSET JustClosed(state.slots, m)
  OBVIOUS
<1>4. begun.slots = slots /\ begun.facts = facts
  <2> DEFINE assimilated == AssimilateFacts(resolved, state.slots, m, act, n)
  <2>1. assimilated \in States
    BY <1>1, AssimilateFactsType DEF States
  <2>2. assimilated.slots = slots /\ assimilated.facts = facts
    <3> HIDE DEF resolved, closed
    <3>1. resolved \in States
      BY <1>1
    <3> QED
      BY <3>1 DEF AssimilateFacts, States, closed
  <2>3. begun.slots = assimilated.slots /\ begun.facts = assimilated.facts
    <3>1. begun = UpdateTopicStack(assimilated, active, act, m.direction, n)
      BY DEF BegunState
    <3> HIDE DEF assimilated, begun
    <3> QED
      BY <2>1, <3>1 DEF UpdateTopicStack, States
  <2> QED
    BY <2>2, <2>3
<1> HIDE DEF resolved, closed, begun
<1>5. /\ resolved.facts \in Facts /\ resolved.slots \in [Slot -> SlotState]
      /\ state.slots \in [Slot -> SlotState]
  BY <1>1 DEF States
<1>6. slots[s] \notin ClosedSlotState => resolved.facts[s].value # "none" /\ facts[s].value = "none"
  BY <1>2, <1>3, <1>5, FactsReopenOnlyWithdrawn
<1> QED
  BY <1>1, <1>4, <1>6 DEF begun

-----------------------------------------------------------------------------
\* The step of AnsweredStaysAnswered for one slot.
Reopens(s) ==
  session.slots[s] \in ClosedSlotState /\ session'.slots[s] \notin ClosedSlotState

Forgets(s) ==
  session.facts[s].value # "none" /\ session'.facts[s].value = "none"

\* A step that reopens a slot forgets the fact: begin_turn on a withdrawal only, as
\* MergedSlots keeps what is closed in the session.
LEMMA ReopenStep ==
  ASSUME TypeOK, [Next]_vars, NEW s \in FactSlot, Reopens(s)
  PROVE  Forgets(s)
<1>1. session' # session
  BY DEF Reopens
<1>2. ASSUME NEW h \in Handlers, BeginTurn(h) PROVE Forgets(s)
  <2>1. PICK m \in Messages : \E a \in SelectedActs(session.slots, session.facts, m) :
          \E active \in ActiveTopics(session.topics) : BeginsWith(h, m, a, active)
    BY <1>2 DEF BeginTurn, BeginTurnWith, BeginsWith
  <2>2. PICK a \in SelectedActs(session.slots, session.facts, m) :
          \E active \in ActiveTopics(session.topics) : BeginsWith(h, m, a, active)
    BY <2>1
  <2>3. PICK active \in ActiveTopics(session.topics) : BeginsWith(h, m, a, active)
    BY <2>2
  <2>4. session' = BegunState(session, m, a.act, active, turn + 1)
    BY <2>3 DEF BeginsWith
  <2>5. m \in Message /\ turn + 1 \in Turns /\ session \in States
    BY <1>2, MessagesAssumption, MaxTurnsAssumption DEF BeginTurn, BeginTurnWith, TypeOK, Turns
  <2> QED
    BY <2>4, <2>5, BeginReopensOnlyWithdrawn DEF Reopens, Forgets
<1>3. ASSUME NEW h \in Handlers, CommitTurn(h) PROVE FALSE
  <2>1. session'.slots = MergedSlots(session.slots, MissionSlots(work[h].state.mission))
    BY <1>3 DEF CommitTurn, StateRecord
  <2>2. session.slots[s] \in ClosedSlotState => session'.slots[s] = session.slots[s]
    BY <2>1 DEF MergedSlots, FactSlot, Slot
  <2> QED
    BY <2>2 DEF Reopens
<1> QED
  BY <1>1, <1>2, <1>3 DEF Next, vars, DecideMission, CreateMission, FailTurn

\* What a user has answered is asked again only when the answer is withdrawn: not
\* by a revision, a change of topic, a decision on the mission, a failed turn, nor
\* by a handler that commits what it computed from an older session.
THEOREM AnsweredUntilForgotten == Spec => AnsweredStaysAnswered
<1>1. TopicInv /\ [Next]_vars =>
        [\A s \in FactSlot :
           (/\ session.slots[s] \in ClosedSlotState
            /\ session'.slots[s] \notin ClosedSlotState) =>
              session.facts[s].value # "none" /\ session'.facts[s].value = "none"]_vars
  BY ReopenStep DEF TopicInv, Reopens, Forgets
<1> QED
  BY <1>1, TopicInvInit, TopicInvStep, PTL DEF Spec, AnsweredStaysAnswered

-----------------------------------------------------------------------------
\* The proposals the conversation state emits are of three kinds, told by their
\* source; they state their delta completely, and a suspension or a resume is sure enough.
Suspending == {"slot_unmatched", "topic_suspend"}

Sound(p) ==
  /\ p.id[2] = p.turn
  /\ p.kind \in {"maintain", "resume", "suspend"}
  /\ p.kind = "suspend" <=> p.id[1] \in Suspending
  /\ p.kind = "resume" <=> p.id[1] = "topic_resume"
  /\ p.kind = "resume" => p.confidence >= MINIMUM_CONFIDENCE["resume"]
  /\ p.kind = "suspend" => /\ "status" \in p.changes
                           /\ p.after.status = "suspended"
                           /\ p.confidence >= MINIMUM_CONFIDENCE["suspend"]
  /\ \A f \in DeltaField : f \notin p.changes => p.after[f] = p.before[f]

\* The sound proposals of the turns up to n.
SoundProposals(n) == {p \in OwnProposals : Sound(p) /\ p.turn <= n}

\* The proposals of a conversation stay sound as its turns go by.
LEMMA OlderProposals ==
  ASSUME NEW n \in Turns, NEW k \in Turns, n <= k
  PROVE  Seq(SoundProposals(n)) \subseteq Seq(SoundProposals(k))
<1>1. SoundProposals(n) \subseteq SoundProposals(k)
  BY MaxTurnsAssumption DEF SoundProposals, OwnProposals, Proposals, Turns
<1> QED
  BY <1>1

\* A sound proposal made in turn n is one of those up to n.
LEMMA SoundOfTurn ==
  ASSUME NEW n \in Turns, NEW p \in OwnProposals, Sound(p), p.turn = n
  PROVE  p \in SoundProposals(n)
BY MaxTurnsAssumption DEF SoundProposals, Turns

\* What a proposal is built from is what it says.
LEMMA ProposalFields ==
  ASSUME NEW source, NEW n, NEW kind, NEW confidence, NEW before, NEW after, NEW changes
  PROVE  LET p == Proposal(source, n, kind, confidence, before, after, changes)
         IN  /\ p.id[1] = source /\ p.id[2] = n /\ p.turn = n /\ p.kind = kind
             /\ p.confidence = confidence /\ p.before = before /\ p.after = after
             /\ p.changes = changes
BY DEF Proposal

\* A mission that changes its status only differs in its status only.
LEMMA StatusDelta ==
  ASSUME NEW mission \in Mission, NEW status
  PROVE  /\ [mission EXCEPT !.status = status].status = status
         /\ \A f \in DeltaField :
              f \notin {"status"} => [mission EXCEPT !.status = status][f] = mission[f]
BY DEF Mission, DeltaField

\* A list of at most one of two proposals.
LEMMA ShortList ==
  ASSUME NEW S, NEW a \in S, NEW b \in S, NEW list \in {<<>>, <<a>>, <<b>>}
  PROVE  list \in Seq(S)
<1>1. <<>> \in Seq(S) /\ <<a>> \in Seq(S) /\ <<b>> \in Seq(S)
  OBVIOUS
<1> QED
  BY <1>1

\* The proposals of the slot resolution are sound.
LEMMA SlotProposalsSound ==
  ASSUME NEW mission \in Mission, NEW slots \in [Slot -> SlotState], NEW m \in Message,
         NEW n \in Turns
  PROVE  SlotProposals(mission, slots, m, n) \in Seq(SoundProposals(n))
<1> DEFINE before    == MissionResolved(mission, slots, m)
           after     == [before EXCEPT !.status = "suspended"]
           rejection == Proposal("slot_rejection", n, "maintain", 100, before, before, {})
           unmatched == Proposal("slot_unmatched", n, "suspend", 100, before, after, {"status"})
<1>1. before \in Mission
  BY MissionResolvedType
<1> HIDE DEF before
<1>2. after \in Mission
  BY <1>1, MissionStatusType DEF MissionStatus
<1>3. /\ after.status = "suspended"
      /\ \A f \in DeltaField : f \notin {"status"} => after[f] = before[f]
  BY <1>1, StatusDelta
<1> HIDE DEF after
<1>4. rejection \in OwnProposals
  BY <1>1, ProposalType DEF ProposalSource, TransitionKind, DeltaField
<1>5. unmatched \in OwnProposals
  BY <1>1, <1>2, ProposalType DEF ProposalSource, TransitionKind, DeltaField
<1>6. Sound(rejection) /\ rejection.turn = n
  BY ProposalFields DEF Sound, Suspending
<1>7. Sound(unmatched) /\ unmatched.turn = n
  <2>1. 100 >= MINIMUM_CONFIDENCE["suspend"]
    BY DEF MINIMUM_CONFIDENCE
  <2> QED
    BY <1>3, <2>1, ProposalFields DEF Sound, Suspending
<1> HIDE DEF rejection, unmatched
<1>8. rejection \in SoundProposals(n) /\ unmatched \in SoundProposals(n)
  BY <1>4, <1>5, <1>6, <1>7, SoundOfTurn
<1>9. SlotProposals(mission, slots, m, n) \in {<<>>, <<rejection>>, <<unmatched>>}
  BY DEF SlotProposals, rejection, unmatched, before, after
<1> QED
  BY <1>8, <1>9, ShortList

\* The proposal of an advancement is sound.
LEMMA AdvancementProposalsSound ==
  ASSUME NEW mission \in Mission, NEW advanced \in Mission, NEW clarified \in Mission,
         NEW n \in Turns
  PROVE  AdvancementProposals(mission, advanced, clarified, n) \in Seq(SoundProposals(n))
<1> DEFINE before  == IF clarified # advanced THEN advanced ELSE mission
           changes == {f \in DeltaField : clarified[f] # before[f]}
           advance == Proposal("advancement", n, "maintain", 100, before, clarified, changes)
<1>1. before \in Mission /\ changes \in SUBSET DeltaField
  OBVIOUS
<1>2. \A f \in DeltaField : f \notin changes => clarified[f] = before[f]
  OBVIOUS
<1> HIDE DEF before, changes
<1>3. advance \in OwnProposals
  <2>1. "advancement" \in ProposalSource /\ "maintain" \in TransitionKind /\ 100 \in 0..100
    BY DEF ProposalSource, TransitionKind
  <2> QED
    BY <1>1, <2>1, ProposalType
<1>4. Sound(advance) /\ advance.turn = n
  BY <1>2, ProposalFields DEF Sound, Suspending
<1> HIDE DEF advance
<1>5. advance \in SoundProposals(n)
  BY <1>3, <1>4, SoundOfTurn
<1>6. AdvancementProposals(mission, advanced, clarified, n) \in {<<>>, <<advance>>}
  BY DEF AdvancementProposals, advance, before, changes
<1> QED
  BY <1>5, <1>6, ShortList

\* The proposals of a topic move are sound.
LEMMA TopicProposalsSound ==
  ASSUME NEW mission \in Mission, NEW active, NEW move, NEW act, NEW n \in Turns
  PROVE  TopicProposals(mission, active, move, act, n) \in Seq(SoundProposals(n))
<1> DEFINE back      == IF mission.missing # {} THEN "waiting_user" ELSE "gathering_information"
           resumed   == [mission EXCEPT !.status = back]
           suspended == [mission EXCEPT !.status = "suspended"]
           sure      == ActConfidence(act)
           resume    == Proposal("topic_resume", n, "resume", sure, mission, resumed, {"status"})
           suspend   == Proposal("topic_suspend", n, "suspend", sure, mission, suspended, {"status"})
<1>1. /\ sure \in 0..100
      /\ sure >= MINIMUM_CONFIDENCE["suspend"] /\ sure >= MINIMUM_CONFIDENCE["resume"]
  BY DEF ActConfidence, MINIMUM_CONFIDENCE
<1>2. resumed \in Mission /\ suspended \in Mission
  BY MissionStatusType DEF MissionStatus
<1>3. /\ suspended.status = "suspended"
      /\ \A f \in DeltaField : f \notin {"status"} => /\ resumed[f] = mission[f]
                                                     /\ suspended[f] = mission[f]
  BY StatusDelta
<1> HIDE DEF resumed, suspended, sure
<1>4. resume \in OwnProposals /\ suspend \in OwnProposals
  BY <1>1, <1>2, ProposalType DEF ProposalSource, TransitionKind, DeltaField
<1>5. Sound(resume) /\ resume.turn = n
  BY <1>1, <1>3, ProposalFields DEF Sound, Suspending
<1>6. Sound(suspend) /\ suspend.turn = n
  BY <1>1, <1>3, ProposalFields DEF Sound, Suspending
<1> HIDE DEF resume, suspend
<1>7. resume \in SoundProposals(n) /\ suspend \in SoundProposals(n)
  BY <1>4, <1>5, <1>6, SoundOfTurn
<1>8. TopicProposals(mission, active, move, act, n) \in {<<>>, <<resume>>, <<suspend>>}
  BY DEF TopicProposals, resume, suspend, resumed, suspended, sure
<1> QED
  BY <1>7, <1>8, ShortList

\* A turn adds sound proposals to the ones it finds.
LEMMA BegunSound ==
  ASSUME NEW state \in States, HasOneOpenTopic(state.topics), NEW m \in Message, NEW act,
         NEW active \in ActiveTopics(state.topics), NEW n \in Turns,
         state.proposals \in Seq(SoundProposals(n))
  PROVE  BegunState(state, m, act, active, n).proposals \in Seq(SoundProposals(n))
<1> DEFINE resolved    == ResolveSlots(state, m, act, n)
           closed      == IF SuppressesSlots(act) THEN {} ELSE JustClosed(state.slots, m)
           facts       == FactsAfter(resolved.facts, closed, state.slots, m, n)
           slots       == SlotsAfterFacts(resolved.slots, resolved.facts, facts,
                                          Withdrawn(resolved.facts, closed, m), closed)
           advanced    == AdvancedMission(resolved.mission, facts, slots)
           ambiguous   == AmbiguousWithdrawal(resolved.facts, closed, m)
           clarified   == ClarifiedMission(advanced, ambiguous)
           assimilated == AssimilateFacts(resolved, state.slots, m, act, n)
<1>1. resolved \in States
  BY ResolveSlotsType
<1>2. resolved.proposals \in Seq(SoundProposals(n))
  <2>1. SlotProposals(state.mission, state.slots, m, n) \in Seq(SoundProposals(n))
    BY SlotProposalsSound DEF States
  <2>2. state.proposals \o SlotProposals(state.mission, state.slots, m, n)
          \in Seq(SoundProposals(n))
    BY <2>1, ConcatProperties
  <2> QED
    BY <2>2 DEF ResolveSlots, States
<1> HIDE DEF resolved
<1>3. assimilated \in States
  BY <1>1, AssimilateFactsType DEF States
<1>4. assimilated.proposals \in Seq(SoundProposals(n))
  <2>1. /\ state.slots \in [Slot -> SlotState]
        /\ resolved.facts \in Facts /\ resolved.slots \in [Slot -> SlotState]
        /\ resolved.mission \in Mission
    BY <1>1 DEF States
  <2>2. closed \in SUBSET JustClosed(state.slots, m) /\ ambiguous \in BOOLEAN
    BY DEF AmbiguousWithdrawal
  <2> HIDE DEF closed, ambiguous
  <2>3. facts \in Facts /\ slots \in [Slot -> SlotState]
    BY <2>1, <2>2, FactsAfterType, SlotsAfterFactsType
  <2> HIDE DEF facts, slots
  <2>4. advanced \in Mission
    BY <2>1, <2>3, AdvancedMissionType
  <2> HIDE DEF advanced
  <2>5. clarified \in Mission
    BY <2>2, <2>4, ClarifiedMissionType
  <2> HIDE DEF clarified
  <2>6. resolved.proposals \o AdvancementProposals(resolved.mission, advanced, clarified, n)
          \in Seq(SoundProposals(n))
    BY <1>2, <2>1, <2>4, <2>5, AdvancementProposalsSound, ConcatProperties
  <2>7. assimilated.proposals
          = resolved.proposals \o AdvancementProposals(resolved.mission, advanced, clarified, n)
    BY <1>1 DEF AssimilateFacts, States, closed, facts, slots, advanced, ambiguous, clarified
  <2> QED
    BY <2>6, <2>7
<1> DEFINE move  == TopicMove(assimilated.mission, assimilated.topics, active, act,
                              m.direction, n)
           added == TopicProposals(assimilated.mission, active, move, act, n)
           begun == BegunState(state, m, act, active, n)
<1>5. begun = UpdateTopicStack(assimilated, active, act, m.direction, n)
  BY DEF BegunState, resolved
<1> HIDE DEF assimilated, begun
<1>6. assimilated.proposals \o added \in Seq(SoundProposals(n))
  BY <1>3, <1>4, TopicProposalsSound, ConcatProperties DEF States
<1>7. begun.proposals = assimilated.proposals \o added
  BY <1>3, <1>5 DEF UpdateTopicStack, States
<1> QED
  BY <1>6, <1>7 DEF begun

-----------------------------------------------------------------------------
\* All proposals ever emitted are sound, those of failed and earlier turns too.
DecisionInv ==
  /\ TopicInv
  /\ session.proposals \in Seq(SoundProposals(turn))
  /\ \A h \in Handlers : Carried(h).proposals \in Seq(SoundProposals(turn))

\* A new conversation and an idle handler have proposed nothing.
LEMMA NoProposalsYet ==
  NewState.proposals \in Seq(SoundProposals(turn)) /\ Idle.state.proposals \in Seq(SoundProposals(turn))
<1>1. NewState.proposals = <<>>
  BY DEF NewState, StateRecord
<1>2. Idle.state = NewState
  BY DEF Idle
<1>3. <<>> \in Seq(SoundProposals(turn))
  OBVIOUS
<1> QED
  BY <1>1, <1>2, <1>3

\* The proposals of a new conversation are sound.
LEMMA DecisionInvInit == Init => DecisionInv
BY TopicInvInit, NoProposalsYet DEF Init, DecisionInv, Carried

\* Every step leaves sound proposals: begin_turn appends sound ones, a decision
\* keeps the list, a commit keeps that of the session.
LEMMA DecisionInvStep == DecisionInv /\ [Next]_vars => DecisionInv'
<1> SUFFICES ASSUME DecisionInv, [Next]_vars PROVE DecisionInv'
  OBVIOUS
<1>1. TopicInv /\ TopicInv'
  BY TopicInvStep DEF DecisionInv
<1>2. TypeOK /\ OneOpenTopic
  BY <1>1 DEF TopicInv
<1>3. Idle.state.proposals \in Seq(SoundProposals(turn))
  BY NoProposalsYet
<1>4. CASE UNCHANGED vars
  BY <1>1, <1>4 DEF DecisionInv, vars, Carried
<1>5. ASSUME NEW h \in Handlers, BeginTurn(h) PROVE DecisionInv'
  <2>1. PICK m \in Messages : \E a \in SelectedActs(session.slots, session.facts, m) :
          \E active \in ActiveTopics(session.topics) : BeginsWith(h, m, a, active)
    BY <1>5 DEF BeginTurn, BeginTurnWith, BeginsWith
  <2>2. PICK a \in SelectedActs(session.slots, session.facts, m) :
          \E active \in ActiveTopics(session.topics) : BeginsWith(h, m, a, active)
    BY <2>1
  <2>3. PICK active \in ActiveTopics(session.topics) : BeginsWith(h, m, a, active)
    BY <2>2
  <2> DEFINE begun == BegunState(session, m, a.act, active, turn + 1)
  <2>4. /\ m \in Message /\ turn + 1 \in Turns /\ session \in States
        /\ HasOneOpenTopic(session.topics)
    BY <1>2, <1>5, MessagesAssumption, MaxTurnsAssumption
       DEF BeginTurn, BeginTurnWith, TypeOK, Turns, OneOpenTopic
  <2>5. turn' = turn + 1
    BY <1>5 DEF BeginTurn, BeginTurnWith
  <2>6. Seq(SoundProposals(turn)) \subseteq Seq(SoundProposals(turn + 1))
    BY <1>2, <2>4, OlderProposals, MaxTurnsAssumption DEF TypeOK, Turns
  <2>7. begun.proposals \in Seq(SoundProposals(turn + 1))
    BY <2>4, <2>6, BegunSound DEF DecisionInv
  <2>8. session' = begun /\ work'[h].state = begun
        /\ \A other \in Handlers : other # h => work'[other] = work[other]
    BY <1>2, <2>3 DEF BeginsWith, TypeOK
  <2> HIDE DEF begun
  <2> QED
    BY <1>1, <2>5, <2>6, <2>7, <2>8 DEF DecisionInv, Carried
<1>6. ASSUME NEW h \in Handlers, DecideMission(h) \/ CreateMission(h) PROVE DecisionInv'
  <2>0. work[h] \in Work /\ work[h].state \in States
    BY <1>2 DEF TypeOK, Work
  <2>1. \A other \in Handlers : work'[other].state.proposals = work[other].state.proposals
    <3>1. CASE DecideMission(h)
      BY <1>2, <2>0, <3>1 DEF DecideMission, TypeOK, Work, States
    <3>2. CASE CreateMission(h)
      BY <1>2, <2>0, <3>2 DEF CreateMission, TypeOK, Work, States
    <3> QED
      BY <1>6, <3>1, <3>2
  <2>2. session' = session /\ turn' = turn
    BY <1>6 DEF DecideMission, CreateMission
  <2> QED
    BY <1>1, <2>1, <2>2 DEF DecisionInv, Carried
<1>7. ASSUME NEW h \in Handlers, CommitTurn(h) \/ FailTurn(h) PROVE DecisionInv'
  <2>1. session'.proposals = session.proposals /\ turn' = turn
    BY <1>7 DEF CommitTurn, FailTurn, StateRecord
  <2>2. work' = [work EXCEPT ![h] = Idle]
    BY <1>7 DEF CommitTurn, FailTurn
  <2> QED
    BY <1>1, <1>2, <1>3, <2>1, <2>2 DEF DecisionInv, Carried, TypeOK
<1> QED
  BY <1>4, <1>5, <1>6, <1>7 DEF Next

-----------------------------------------------------------------------------
\* A candidate is evidence of the turn.
LEMMA CandidateOfTurn ==
  ASSUME NEW p, NEW n, NEW i \in Candidates(p, n)
  PROVE  i \in DOMAIN p /\ p[i].turn = n
BY DEF Candidates

\* The verdict, told by what becomes of the mission.
LEMMA VerdictCases ==
  ASSUME NEW mission \in Mission, NEW n \in Turns, NEW last \in Turns,
         NEW p \in Seq(SoundProposals(last)),
         NEW i \in Winners(p, Candidates(p, n))
  PROVE  LET candidates == Candidates(p, n)
             indices    == IF p[i].kind = "maintain" THEN candidates ELSE {i}
             d          == Verdict(mission, p, candidates, i)
         IN  d.mission = mission \/ d.mission = Merged(p, indices, i)
<1>1. i \in DOMAIN p
  BY WinnersType
<1>2. p[i] \in SoundProposals(last)
  BY <1>1
<1>3. p[i].kind \notin {"abandon", "replace"}
  BY <1>2 DEF SoundProposals, Sound
<1> QED
  BY <1>3 DEF Verdict, Rejected

\* A mission that a decision changes has the status a proposal of the turn asks for.
LEMMA ChangeHasEvidence ==
  ASSUME NEW mission \in Mission, NEW n \in Turns, NEW last \in Turns,
         NEW p \in Seq(SoundProposals(last)),
         NEW d \in Decisions(mission, p, n), d.mission # mission
  PROVE  \E i \in DOMAIN p : p[i].turn = n /\ p[i].after.status = d.mission.status
<1> DEFINE candidates == Candidates(p, n)
<1>1. candidates # {}
  BY DEF Decisions
<1>2. PICK i \in Winners(p, candidates) : d = Verdict(mission, p, candidates, i)
  BY <1>1 DEF Decisions
<1> DEFINE indices == IF p[i].kind = "maintain" THEN candidates ELSE {i}
<1>3. i \in candidates /\ i \in DOMAIN p /\ indices \in SUBSET candidates
      /\ indices \in SUBSET DOMAIN p /\ i \in indices
  BY <1>2, WinnersType
<1>4. d.mission = Merged(p, indices, i)
  BY <1>2, VerdictCases
<1>5. \A j \in DOMAIN p : p[j] \in SoundProposals(last) /\ p[j] \in OwnProposals
  BY DEF SoundProposals
<1>6. p \in Seq(OwnProposals)
  BY DEF SoundProposals
<1> HIDE DEF candidates, indices
<1>7. d.mission.status = MergedField(p, indices, i, "status")
  <2>1. p[i].before \in Mission
    BY <1>3, <1>5 DEF OwnProposals, Proposals
  <2> QED
    BY <1>4, <2>1 DEF Merged, Mission
<1>8. CASE \E j \in indices : "status" \in p[j].changes
                              /\ MergedField(p, indices, i, "status") = p[j].after["status"]
  BY <1>3, <1>7, <1>8, CandidateOfTurn DEF candidates
<1>9. CASE /\ \A j \in indices : "status" \notin p[j].changes
           /\ MergedField(p, indices, i, "status") = p[i].before["status"]
  <2>1. "status" \notin p[i].changes
    BY <1>3, <1>9
  <2>2. p[i].after["status"] = p[i].before["status"]
    BY <1>3, <1>5, <2>1 DEF SoundProposals, Sound, DeltaField
  <2> QED
    BY <1>3, <1>7, <1>9, <2>2, CandidateOfTurn DEF candidates
<1>10. "status" \in DeltaField
  BY DEF DeltaField
<1> QED
  BY <1>3, <1>6, <1>8, <1>9, <1>10, MergedFieldOrigin

\* What a decision changes in a mission, some proposal of that turn asked for: the
\* proposals that failed and earlier turns left behind are never acted upon.
THEOREM FreshEvidenceOnly == Spec => OnlyFreshEvidence
<1>1. ASSUME DecisionInv, [Next]_vars, NEW h \in Handlers,
             pc[h] = "begun", pc'[h] = "decided", IsMission(Carried(h).mission),
             work'[h].state.mission # Carried(h).mission
      PROVE  \E i \in DOMAIN Carried(h).proposals :
               /\ Carried(h).proposals[i].turn = work[h].turn
               /\ Carried(h).proposals[i].after.status = work'[h].state.mission.status
  <2>1. TypeOK /\ work[h] \in Work /\ work[h].state \in States /\ turn \in Turns
    BY <1>1 DEF DecisionInv, TopicInv, TypeOK, Work
  <2>2. DecideMission(h)
    <3>1. ASSUME NEW other \in Handlers, BeginTurn(other) PROVE FALSE
      BY <1>1, <2>1, <3>1 DEF BeginTurn, BeginTurnWith, TypeOK
    <3>2. ASSUME NEW other \in Handlers, CommitTurn(other) \/ FailTurn(other) PROVE FALSE
      BY <1>1, <2>1, <3>2 DEF CommitTurn, FailTurn, TypeOK
    <3>3. ASSUME NEW other \in Handlers, CreateMission(other) PROVE FALSE
      BY <1>1, <2>1, <3>3 DEF CreateMission, TypeOK, Carried
    <3>4. ASSUME NEW other \in Handlers, DecideMission(other) PROVE other = h
      BY <1>1, <2>1, <3>4 DEF DecideMission, TypeOK, Carried
    <3> QED
      BY <1>1, <3>1, <3>2, <3>3, <3>4 DEF Next, vars
  <2>3. PICK d \in Decisions(work[h].state.mission, work[h].state.proposals, work[h].turn) :
          work' = [work EXCEPT
                     ![h].decision      = d,
                     ![h].state.mission = d.mission,
                     ![h].state.facts   = MergedFacts(session.facts, work[h].state.facts)]
    BY <2>2 DEF DecideMission
  <2>4. work'[h].state.mission = d.mission
    BY <2>1, <2>3 DEF TypeOK, Work, States
  <2>5. work[h].state.proposals \in Seq(SoundProposals(turn)) /\ work[h].state.mission \in Mission
    BY <1>1, <2>1 DEF DecisionInv, Carried, States
  <2>6. \E i \in DOMAIN work[h].state.proposals :
           /\ work[h].state.proposals[i].turn = work[h].turn
           /\ work[h].state.proposals[i].after.status = d.mission.status
    BY <1>1, <2>1, <2>4, <2>5, ChangeHasEvidence DEF Carried, Work
  <2> QED
    BY <2>4, <2>6 DEF Carried
<1>2. DecisionInv /\ [Next]_vars =>
        [\A h \in Handlers :
           (/\ pc[h] = "begun" /\ pc'[h] = "decided"
            /\ IsMission(Carried(h).mission)
            /\ work'[h].state.mission # Carried(h).mission) =>
              \E i \in DOMAIN Carried(h).proposals :
                /\ Carried(h).proposals[i].turn = work[h].turn
                /\ Carried(h).proposals[i].after.status = work'[h].state.mission.status]_vars
  BY <1>1
<1> QED
  BY <1>2, DecisionInvInit, DecisionInvStep, PTL DEF Spec, OnlyFreshEvidence

-----------------------------------------------------------------------------
\* Of the proposals that share an id the first one is considered.
LEMMA CandidateWithId ==
  ASSUME NEW last \in Turns, NEW p \in Seq(SoundProposals(last)), NEW n \in Turns,
         NEW i \in DOMAIN p, p[i].turn = n
  PROVE  \E j \in Candidates(p, n) : j \in DOMAIN p /\ p[j].id = p[i].id
<1> DEFINE same == {j \in DOMAIN p : p[j].id = p[i].id}
<1>1. same \subseteq Nat /\ same # {}
  OBVIOUS
<1>2. PICK j \in same : \A k \in same : ~ (<<k, j>> \in OpToRel(<, Nat))
  BY <1>1, NatLessThanWellFounded, WFMin
<1>3. \A k \in same : ~ (k < j)
  BY <1>1, <1>2 DEF OpToRel
<1>4. j \in DOMAIN p /\ p[j].id = p[i].id
  BY <1>2
<1>5. Sound(p[i]) /\ Sound(p[j]) /\ p[j] \in OwnProposals
  BY <1>4 DEF SoundProposals
<1>6. p[j].turn = n
  BY <1>4, <1>5 DEF Sound
<1>7. p[j].component \in ALLOWED_PROPOSAL_COMPONENTS
  BY <1>5 DEF OwnProposals, Proposals, ALLOWED_PROPOSAL_COMPONENTS
<1>8. \A k \in DOMAIN p : k < j => p[k].id # p[j].id
  BY <1>3, <1>4
<1> QED
  BY <1>4, <1>6, <1>7, <1>8 DEF Candidates

\* It suspends, or resumes, if the others do.
LEMMA CandidateOfKind ==
  ASSUME NEW last \in Turns, NEW p \in Seq(SoundProposals(last)), NEW n \in Turns,
         NEW kind \in {"suspend", "resume"},
         NEW i \in DOMAIN p, p[i].turn = n, p[i].kind = kind
  PROVE  \E j \in Candidates(p, n) : p[j].kind = kind
<1>1. PICK j \in Candidates(p, n) : j \in DOMAIN p /\ p[j].id = p[i].id
  BY CandidateWithId
<1>2. Sound(p[i]) /\ Sound(p[j])
  BY <1>1 DEF SoundProposals
<1> QED
  BY <1>1, <1>2 DEF Sound

\* When a candidate suspends, the winner does: the conversation state emits
\* nothing that takes precedence.
LEMMA SuspendingWinner ==
  ASSUME NEW last \in Turns, NEW p \in Seq(SoundProposals(last)), NEW n \in Turns,
         NEW j \in Candidates(p, n), p[j].kind = "suspend",
         NEW i \in Winners(p, Candidates(p, n))
  PROVE  i \in DOMAIN p /\ p[i].kind = "suspend"
<1>1. i \in DOMAIN p /\ j \in DOMAIN p
  BY WinnersType
<1>2. p[i].kind \in {"maintain", "resume", "suspend"}
  BY <1>1 DEF SoundProposals, Sound
<1>3. ~ (TRANSITION_PRECEDENCE[p[i].kind] < 3)
  BY <1>2 DEF Winners, TRANSITION_PRECEDENCE
<1> QED
  BY <1>1, <1>2, <1>3 DEF TRANSITION_PRECEDENCE

\* A decision on a list with a suspension of the turn suspends the mission.
LEMMA SuspensionDecides ==
  ASSUME NEW mission \in Mission, NEW last \in Turns, NEW p \in Seq(SoundProposals(last)),
         NEW n \in Turns, NEW i \in DOMAIN p, p[i].turn = n, p[i].kind = "suspend",
         NEW d \in Decisions(mission, p, n)
  PROVE  d.mission.status = "suspended"
<1> DEFINE candidates == Candidates(p, n)
<1>1. PICK j \in candidates : p[j].kind = "suspend"
  BY CandidateOfKind
<1>2. PICK w \in Winners(p, candidates) : d = Verdict(mission, p, candidates, w)
  BY <1>1 DEF Decisions
<1>3. w \in DOMAIN p /\ p[w].kind = "suspend"
  BY <1>1, SuspendingWinner
<1>4. p[w] \in OwnProposals /\ Sound(p[w])
  BY <1>3 DEF SoundProposals
<1>5. /\ "status" \in p[w].changes /\ p[w].after.status = "suspended"
      /\ ~ (p[w].confidence < MINIMUM_CONFIDENCE["suspend"])
  <2>1. MINIMUM_CONFIDENCE["suspend"] = 65
    BY DEF MINIMUM_CONFIDENCE
  <2>2. p[w].confidence \in 0..100
    BY <1>4 DEF OwnProposals, Proposals
  <2>3. /\ "status" \in p[w].changes /\ p[w].after.status = "suspended"
        /\ p[w].confidence >= MINIMUM_CONFIDENCE["suspend"]
    BY <1>3, <1>4 DEF Sound
  <2>4. \A a \in 0..100 : a >= 65 => ~ (a < 65)
    OBVIOUS
  <2> QED
    BY <2>1, <2>2, <2>3, <2>4
<1>6. Merged(p, {w}, w).status = "suspended"
  <2>1. MergedField(p, {w}, w, "status") = "suspended"
    BY <1>5 DEF MergedField
  <2>2. p[w].before \in Mission
    BY <1>4 DEF OwnProposals, Proposals
  <2> QED
    BY <2>1, <2>2 DEF Merged, Mission
<1>7. d.mission \in {mission, Merged(p, {w}, w)}
      /\ (mission.status # "suspended" => d.mission = Merged(p, {w}, w))
  <2> HIDE DEF candidates
  <2> QED
    BY <1>2, <1>3, <1>5 DEF Verdict, AlreadyTerminal, Rejected, IsLegalTransition
<1> QED
  BY <1>6, <1>7

\* A turn that finds no mission proposes nothing.
LEMMA NoMissionNoProposal ==
  ASSUME NEW state \in States, HasOneOpenTopic(state.topics), NEW m \in Message, NEW act,
         NEW active \in ActiveTopics(state.topics), NEW n \in Turns
  PROVE  ~ IsMission(BegunState(state, m, act, active, n).mission) =>
           BegunState(state, m, act, active, n).proposals = state.proposals
<1> DEFINE resolved    == ResolveSlots(state, m, act, n)
           closed      == IF SuppressesSlots(act) THEN {} ELSE JustClosed(state.slots, m)
           facts       == FactsAfter(resolved.facts, closed, state.slots, m, n)
           slots       == SlotsAfterFacts(resolved.slots, resolved.facts, facts,
                                          Withdrawn(resolved.facts, closed, m), closed)
           advanced    == AdvancedMission(resolved.mission, facts, slots)
           clarified   == ClarifiedMission(advanced,
                                           AmbiguousWithdrawal(resolved.facts, closed, m))
           assimilated == AssimilateFacts(resolved, state.slots, m, act, n)
           begun       == BegunState(state, m, act, active, n)
<1>1. resolved \in States /\ resolved.mission \in Mission
  BY ResolveSlotsType DEF States
<1>2. resolved.mission.type = state.mission.type
  BY DEF ResolveSlots, MissionResolved, States, Mission
<1>3. ~ IsMission(state.mission) => resolved.proposals = state.proposals
  <2>1. ~ IsMission(state.mission) => SlotProposals(state.mission, state.slots, m, n) = <<>>
    BY DEF SlotProposals
  <2>2. state.proposals \in Seq(OwnProposals)
    BY DEF States
  <2>3. ~ IsMission(state.mission) =>
          state.proposals \o SlotProposals(state.mission, state.slots, m, n) = state.proposals
    BY <2>1, <2>2, ConcatEmptySeq
  <2> QED
    BY <2>3 DEF ResolveSlots, States
<1> HIDE DEF resolved
<1>4. assimilated \in States
  BY <1>1, AssimilateFactsType DEF States
<1> HIDE DEF closed, facts, slots
<1>5. assimilated.mission = clarified
  BY <1>1 DEF AssimilateFacts, States, closed, facts, slots
<1>6. clarified.type = resolved.mission.type
  BY <1>1 DEF AdvancedMission, ClarifiedMission, Mission
<1>7. ~ IsMission(resolved.mission) => assimilated.proposals = resolved.proposals
  <2>1. ~ IsMission(resolved.mission) => advanced = resolved.mission /\ clarified = advanced
    BY DEF AdvancedMission, ClarifiedMission, IsMission, NoType
  <2> HIDE DEF advanced, clarified
  <2>2. ~ IsMission(resolved.mission) =>
          AdvancementProposals(resolved.mission, advanced, clarified, n) = <<>>
    BY <2>1 DEF AdvancementProposals
  <2>3. assimilated.proposals
          = resolved.proposals \o AdvancementProposals(resolved.mission, advanced, clarified, n)
    BY <1>1 DEF AssimilateFacts, States, closed, facts, slots, advanced, clarified
  <2>4. resolved.proposals \in Seq(OwnProposals)
    BY <1>1 DEF States
  <2> QED
    BY <2>2, <2>3, <2>4, ConcatEmptySeq
<1>8. begun = UpdateTopicStack(assimilated, active, act, m.direction, n)
  BY DEF BegunState, resolved
<1> HIDE DEF assimilated, begun, clarified
<1>9. begun.mission = assimilated.mission
  BY <1>4, <1>8 DEF UpdateTopicStack, States
<1>10. ~ IsMission(assimilated.mission) => begun.proposals = assimilated.proposals
  <2> DEFINE added == TopicProposals(assimilated.mission, active,
                        TopicMove(assimilated.mission, assimilated.topics, active, act,
                                  m.direction, n), act, n)
  <2>1. ~ IsMission(assimilated.mission) => added = <<>>
    BY DEF TopicProposals
  <2>2. begun.proposals = assimilated.proposals \o added
    BY <1>4, <1>8 DEF UpdateTopicStack, States
  <2>3. assimilated.proposals \in Seq(OwnProposals)
    BY <1>4 DEF States
  <2> HIDE DEF added
  <2> QED
    BY <2>1, <2>2, <2>3, ConcatEmptySeq
<1> QED
  BY <1>2, <1>3, <1>5, <1>6, <1>7, <1>9, <1>10 DEF IsMission, begun

-----------------------------------------------------------------------------
\* A turn without a mission has proposed nothing, a decided turn that has proposed
\* to suspend has a suspended mission.
SuspensionInv ==
  /\ DecisionInv
  /\ \A h \in Handlers :
       pc[h] = "begun" /\ ~ IsMission(Carried(h).mission) => ~ ThisTurns(h, "suspend")
  /\ SuspensionHonoured

\* No handler has decided anything at first.
LEMMA SuspensionInvInit == Init => SuspensionInv
BY DecisionInvInit DEF Init, SuspensionInv, SuspensionHonoured

\* A turn begins with its proposals made, and only its own decision ends it.
LEMMA SuspensionInvStep == SuspensionInv /\ [Next]_vars => SuspensionInv'
<1> SUFFICES ASSUME SuspensionInv, [Next]_vars PROVE SuspensionInv'
  OBVIOUS
<1> DEFINE Holds(h) ==
      /\ pc[h] = "begun" /\ ~ IsMission(Carried(h).mission) => ~ ThisTurns(h, "suspend")
      /\ pc[h] = "decided" /\ ThisTurns(h, "suspend") => Carried(h).mission.status = "suspended"
<1>1. DecisionInv /\ DecisionInv' /\ TypeOK /\ OneOpenTopic
  BY DecisionInvStep DEF SuspensionInv, DecisionInv, TopicInv
<1>2. SUFFICES ASSUME NEW h \in Handlers PROVE Holds(h)'
  BY <1>1 DEF SuspensionInv, SuspensionHonoured
<1>3. Holds(h)
  BY DEF SuspensionInv, SuspensionHonoured
<1>4. CASE work'[h] = work[h] /\ pc'[h] = pc[h]
  BY <1>3, <1>4 DEF Carried, ThisTurns
<1>5. CASE BeginTurn(h)
  <2>1. PICK m \in Messages : \E a \in SelectedActs(session.slots, session.facts, m) :
          \E active \in ActiveTopics(session.topics) : BeginsWith(h, m, a, active)
    BY <1>5 DEF BeginTurn, BeginTurnWith, BeginsWith
  <2>2. PICK a \in SelectedActs(session.slots, session.facts, m) :
          \E active \in ActiveTopics(session.topics) : BeginsWith(h, m, a, active)
    BY <2>1
  <2>3. PICK active \in ActiveTopics(session.topics) : BeginsWith(h, m, a, active)
    BY <2>2
  <2> DEFINE begun == BegunState(session, m, a.act, active, turn + 1)
  <2>4. /\ m \in Message /\ turn + 1 \in Turns /\ session \in States /\ turn \in Turns
        /\ HasOneOpenTopic(session.topics)
    BY <1>1, <1>5, MessagesAssumption, MaxTurnsAssumption
       DEF BeginTurn, BeginTurnWith, TypeOK, Turns, OneOpenTopic
  <2>5. ~ IsMission(begun.mission) => begun.proposals = session.proposals
    BY <2>4, NoMissionNoProposal
  <2>6. work'[h].state = begun /\ work'[h].turn = turn + 1 /\ pc'[h] = "begun"
    BY <1>1, <1>5, <2>3 DEF BeginTurn, BeginTurnWith, BeginsWith, TypeOK
  <2> HIDE DEF begun
  <2>7. \A i \in DOMAIN session.proposals : session.proposals[i].turn <= turn
    BY <1>1 DEF DecisionInv, SoundProposals
  <2>8. \A i \in DOMAIN session.proposals : session.proposals[i].turn # turn + 1
    BY <2>4, <2>7, MaxTurnsAssumption DEF Turns
  <2> QED
    BY <2>5, <2>6, <2>8 DEF Carried, ThisTurns
<1>6. CASE DecideMission(h)
  <2>1. work[h] \in Work /\ work[h].state \in States /\ turn \in Turns
    BY <1>1 DEF TypeOK, Work
  <2>2. PICK d \in Decisions(work[h].state.mission, work[h].state.proposals, work[h].turn) :
          work' = [work EXCEPT
                     ![h].decision      = d,
                     ![h].state.mission = d.mission,
                     ![h].state.facts   = MergedFacts(session.facts, work[h].state.facts)]
    BY <1>6 DEF DecideMission
  <2>3. /\ work'[h].state.mission = d.mission /\ work'[h].turn = work[h].turn
        /\ work'[h].state.proposals = work[h].state.proposals
    BY <1>1, <2>1, <2>2 DEF TypeOK, Work, States
  <2>4. pc'[h] = "decided"
    BY <1>1, <1>6 DEF DecideMission, TypeOK
  <2>5. /\ work[h].state.proposals \in Seq(SoundProposals(turn))
        /\ work[h].state.mission \in Mission /\ work[h].turn \in Turns
    BY <1>1, <2>1 DEF DecisionInv, Carried, States, Work
  <2>6. ThisTurns(h, "suspend") => d.mission.status = "suspended"
    BY <2>1, <2>5, SuspensionDecides DEF ThisTurns, Carried
  <2> QED
    BY <2>3, <2>4, <2>6 DEF Carried, ThisTurns
<1>7. CASE CreateMission(h)
  <2>1. work[h] \in Work /\ work[h].state \in States
    BY <1>1 DEF TypeOK, Work
  <2>2. /\ work'[h].turn = work[h].turn
        /\ work'[h].state.proposals = work[h].state.proposals
    BY <1>1, <1>7, <2>1 DEF CreateMission, TypeOK, Work, States
  <2>3. pc[h] = "begun" /\ ~ IsMission(Carried(h).mission) /\ pc'[h] = "decided"
    BY <1>1, <1>7 DEF CreateMission, Carried, TypeOK
  <2> QED
    BY <1>3, <2>2, <2>3 DEF Carried, ThisTurns
<1>8. CASE CommitTurn(h) \/ FailTurn(h)
  <2>1. pc'[h] = "idle"
    BY <1>1, <1>8 DEF CommitTurn, FailTurn, TypeOK
  <2> QED
    BY <2>1
<1>9. ASSUME NEW other \in Handlers, other # h,
             \/ BeginTurn(other) \/ DecideMission(other) \/ CreateMission(other)
             \/ CommitTurn(other) \/ FailTurn(other)
      PROVE  work'[h] = work[h] /\ pc'[h] = pc[h]
  BY <1>1, <1>9 DEF BeginTurn, BeginTurnWith, DecideMission, CreateMission, CommitTurn, FailTurn, TypeOK
<1>10. CASE UNCHANGED vars
  BY <1>4, <1>10 DEF vars
<1> QED
  BY <1>4, <1>5, <1>6, <1>7, <1>8, <1>9, <1>10 DEF Next

\* When a turn asks for the mission to be suspended the decision of that turn
\* suspends it, whatever else the turn and the turns before it have proposed.
THEOREM SuspensionAlwaysHonoured == Spec => []SuspensionHonoured
<1>1. SuspensionInv => SuspensionHonoured
  BY DEF SuspensionInv
<1> QED
  BY <1>1, SuspensionInvInit, SuspensionInvStep, PTL DEF Spec

-----------------------------------------------------------------------------
\* The parts of what begin_turn makes of a state: the slots it closes, its facts and
\* slots, the mission advanced and clarified, the move of the topics.
TurnClosed(state, m, act) == IF SuppressesSlots(act) THEN {} ELSE JustClosed(state.slots, m)

TurnFacts(state, m, act, n) == FactsAfter(state.facts, TurnClosed(state, m, act), state.slots, m, n)

TurnSlots(state, m, act, n) ==
  SlotsAfterFacts(ResolveSlots(state, m, act, n).slots, state.facts, TurnFacts(state, m, act, n),
                  Withdrawn(state.facts, TurnClosed(state, m, act), m), TurnClosed(state, m, act))

TurnAdvanced(state, m, act, n) ==
  AdvancedMission(ResolveSlots(state, m, act, n).mission, TurnFacts(state, m, act, n),
                  TurnSlots(state, m, act, n))

TurnMission(state, m, act, n) ==
  ClarifiedMission(TurnAdvanced(state, m, act, n),
                   AmbiguousWithdrawal(state.facts, TurnClosed(state, m, act), m))

TurnMove(state, m, act, active, n) ==
  TopicMove(TurnMission(state, m, act, n), state.topics, active, act, m.direction, n)

\* The slot resolution touches slots, mission and proposals, unless the act
\* suppresses it.
LEMMA ResolvedParts ==
  ASSUME NEW state \in States, NEW m \in Message, NEW act, NEW n \in Turns
  PROVE  /\ ResolveSlots(state, m, act, n).facts = state.facts
         /\ SuppressesSlots(act) => ResolveSlots(state, m, act, n) = state
         /\ ~ SuppressesSlots(act) =>
              /\ ResolveSlots(state, m, act, n).slots = SlotsResolved(state.slots, m)
              /\ ResolveSlots(state, m, act, n).mission
                   = MissionResolved(state.mission, state.slots, m)
              /\ ResolveSlots(state, m, act, n).proposals
                   = state.proposals \o SlotProposals(state.mission, state.slots, m, n)
BY DEF ResolveSlots, States

\* begin_turn, part by part.
LEMMA TurnParts ==
  ASSUME NEW state \in States, HasOneOpenTopic(state.topics), NEW m \in Message, NEW act,
         NEW active \in ActiveTopics(state.topics), NEW n \in Turns
  PROVE  LET resolved == ResolveSlots(state, m, act, n)
             advanced == TurnAdvanced(state, m, act, n)
             mission  == TurnMission(state, m, act, n)
             move     == TurnMove(state, m, act, active, n)
             begun    == BegunState(state, m, act, active, n)
         IN  /\ resolved \in States /\ advanced \in Mission /\ mission \in Mission
             /\ TurnFacts(state, m, act, n) \in Facts
             /\ TurnSlots(state, m, act, n) \in [Slot -> SlotState]
             /\ begun.facts = TurnFacts(state, m, act, n)
             /\ begun.slots = TurnSlots(state, m, act, n)
             /\ begun.mission = mission
             /\ begun.topics = TopicsAfter(state.topics, active, move)
             /\ begun.proposals
                  = (resolved.proposals
                       \o AdvancementProposals(resolved.mission, advanced, mission, n))
                      \o TopicProposals(mission, active, move, act, n)
<1> DEFINE resolved    == ResolveSlots(state, m, act, n)
           closed      == TurnClosed(state, m, act)
           facts       == TurnFacts(state, m, act, n)
           slots       == TurnSlots(state, m, act, n)
           advanced    == TurnAdvanced(state, m, act, n)
           mission     == TurnMission(state, m, act, n)
           move        == TurnMove(state, m, act, active, n)
           ambiguous   == AmbiguousWithdrawal(state.facts, closed, m)
           assimilated == AssimilateFacts(resolved, state.slots, m, act, n)
           begun       == BegunState(state, m, act, active, n)
<1>1. resolved \in States /\ resolved.topics = state.topics /\ resolved.facts = state.facts
  <2>1. resolved \in States /\ resolved.topics = state.topics
    BY ResolveSlotsType
  <2>2. resolved.facts = state.facts
    BY DEF ResolveSlots, States
  <2> QED
    BY <2>1, <2>2
<1>2. begun = UpdateTopicStack(assimilated, active, act, m.direction, n)
  BY DEF BegunState
<1>3. /\ assimilated.facts = facts /\ assimilated.slots = slots /\ assimilated.mission = mission
      /\ assimilated.topics = resolved.topics
      /\ assimilated.proposals
           = resolved.proposals \o AdvancementProposals(resolved.mission, advanced, mission, n)
  <2>1. /\ facts = FactsAfter(resolved.facts, closed, state.slots, m, n)
        /\ slots = SlotsAfterFacts(resolved.slots, resolved.facts, facts,
                                   Withdrawn(resolved.facts, closed, m), closed)
        /\ advanced = AdvancedMission(resolved.mission, facts, slots)
        /\ mission = ClarifiedMission(advanced, AmbiguousWithdrawal(resolved.facts, closed, m))
    BY <1>1 DEF TurnFacts, TurnSlots, TurnAdvanced, TurnMission
  <2>2. closed = IF SuppressesSlots(act) THEN {} ELSE JustClosed(state.slots, m)
    BY DEF TurnClosed
  <2> HIDE DEF resolved, closed, facts, slots, advanced, mission
  <2> QED
    BY <1>1, <2>1, <2>2 DEF AssimilateFacts, States
<1>4. assimilated \in States
  BY <1>1, AssimilateFactsType DEF States
<1> HIDE DEF resolved, assimilated, begun
<1>5. closed \in SUBSET JustClosed(state.slots, m) /\ ambiguous \in BOOLEAN
  BY DEF TurnClosed, AmbiguousWithdrawal
<1>6. /\ state.slots \in [Slot -> SlotState] /\ state.facts \in Facts
      /\ resolved.slots \in [Slot -> SlotState] /\ resolved.mission \in Mission
  BY <1>1 DEF States
<1> HIDE DEF closed, ambiguous
<1>7. facts \in Facts /\ slots \in [Slot -> SlotState]
  BY <1>5, <1>6, FactsAfterType, SlotsAfterFactsType DEF TurnFacts, TurnSlots, closed, resolved
<1>8. advanced \in Mission
  BY <1>6, <1>7, AdvancedMissionType DEF TurnAdvanced, resolved
<1>9. mission \in Mission
  BY <1>5, <1>8, ClarifiedMissionType DEF TurnMission, ambiguous, closed
<1> HIDE DEF facts, slots, advanced, mission
<1>10. /\ begun.facts = facts /\ begun.slots = slots /\ begun.mission = mission
       /\ begun.topics = TopicsAfter(state.topics, active, move)
       /\ begun.proposals = assimilated.proposals \o TopicProposals(mission, active, move, act, n)
  BY <1>1, <1>2, <1>3, <1>4 DEF UpdateTopicStack, States, TurnMove, mission
<1> QED
  BY <1>1, <1>7, <1>3, <1>8, <1>9, <1>10
     DEF resolved, facts, slots, advanced, mission, begun

-----------------------------------------------------------------------------
\* A slot that begin_turn closes, or leaves closed, has a fact: it is answered by a
\* slot answer or by a fact, and reopened with its fact.
LEMMA TurnSlotsBacked ==
  ASSUME NEW state \in States, NEW m \in Message, NEW act, NEW n \in Turns, NEW s \in FactSlot,
         state.slots[s] \in ClosedSlotState => s \in Known(state.facts),
         TurnSlots(state, m, act, n)[s] \in ClosedSlotState
  PROVE  s \in Known(TurnFacts(state, m, act, n))
<1> DEFINE resolved  == ResolveSlots(state, m, act, n)
           closed    == TurnClosed(state, m, act)
           facts     == TurnFacts(state, m, act, n)
           withdrawn == Withdrawn(state.facts, closed, m)
<1>0. s \in FactType /\ s \in Slot
  BY DEF FactSlot, FactType, Slot
<1>1. facts[s] = FactAfter(state.facts, closed, state.slots, m, n, s)
  BY <1>0 DEF TurnFacts, FactsAfter
<1>2. s \notin withdrawn
  BY <1>0 DEF TurnSlots, SlotsAfterFacts, ClosedSlotState
<1>3. CASE s \in closed \/ facts[s] # state.facts[s]
  <2>1. TurnSlots(state, m, act, n)[s] = facts[s].value
    BY <1>0, <1>2, <1>3 DEF TurnSlots, SlotsAfterFacts
  <2> QED
    BY <1>0, <2>1 DEF Known, ClosedSlotState
<1>4. CASE s \notin closed /\ facts[s] = state.facts[s]
  <2>1. TurnSlots(state, m, act, n)[s] = resolved.slots[s]
    BY <1>0, <1>2, <1>4 DEF TurnSlots, SlotsAfterFacts
  <2>2. state.slots[s] \in ClosedSlotState
    <3>1. CASE SuppressesSlots(act)
      BY <2>1, <3>1, ResolvedParts
    <3>2. CASE ~ SuppressesSlots(act)
      <4>1. SlotAnswer(state.slots, m, s) \notin ClosedSlotState
        BY <1>4, <3>2 DEF TurnClosed, JustClosed
      <4>2. resolved.slots[s] = SlotsResolved(state.slots, m)[s]
        BY <3>2, ResolvedParts
      <4>3. SlotAnswer(state.slots, m, s) \in {"none", "unsure", "yes", "no"}
        BY <1>0, SlotAnswerType DEF States
      <4> QED
        BY <1>0, <2>1, <4>1, <4>2, <4>3 DEF SlotsResolved, ClosedSlotState
    <3> QED
      BY <3>1, <3>2
  <2> QED
    BY <1>0, <1>4, <2>2 DEF Known
<1> QED
  BY <1>3, <1>4

\* begin_turn does not drop a slot, and adds none that is not answered by a fact.
LEMMA TurnSlotsKept ==
  ASSUME NEW state \in States, NEW m \in Message, NEW act, NEW n \in Turns
  PROVE  /\ \A s \in FactSlot :
               state.slots[s] # "absent" => TurnSlots(state, m, act, n)[s] # "absent"
         /\ state.slots["user_need"] = "absent" =>
              TurnSlots(state, m, act, n)["user_need"] = "absent"
<1> DEFINE resolved  == ResolveSlots(state, m, act, n)
           closed    == TurnClosed(state, m, act)
           facts     == TurnFacts(state, m, act, n)
<1>0. state.slots \in [Slot -> SlotState] /\ state.facts \in Facts
  BY DEF States
<1>1. \A s \in Slot : /\ state.slots[s] # "absent" => resolved.slots[s] # "absent"
                      /\ SlotAnswer(state.slots, m, s) = "none" =>
                           resolved.slots[s] = state.slots[s]
  <2>1. resolved.slots \in {state.slots, SlotsResolved(state.slots, m)}
    BY ResolvedParts
  <2>2. \A s \in Slot : SlotAnswer(state.slots, m, s) \in {"none", "unsure", "yes", "no"}
    BY <1>0, SlotAnswerType
  <2> HIDE DEF resolved
  <2> QED
    BY <2>1, <2>2 DEF SlotsResolved
<1>2. facts \in Facts
  BY <1>0, FactsAfterType DEF TurnFacts, TurnClosed
<1>3. ASSUME NEW s \in FactSlot, state.slots[s] # "absent"
      PROVE  TurnSlots(state, m, act, n)[s] # "absent"
  <2>1. s \in FactType /\ s \in Slot
    BY DEF FactSlot, FactType, Slot
  <2>2. facts[s].value # "absent"
    BY <1>2, <2>1 DEF Facts, FactValue
  <2> QED
    BY <1>1, <1>3, <2>1, <2>2 DEF TurnSlots, SlotsAfterFacts
<1>4. ASSUME state.slots["user_need"] = "absent"
      PROVE  TurnSlots(state, m, act, n)["user_need"] = "absent"
  <2>1. "user_need" \in Slot /\ "user_need" \notin FactSlot
    BY DEF FactSlot, Slot
  <2>2. SlotAnswer(state.slots, m, "user_need") = "none"
    BY <1>4, <2>1, AnsweredArePending DEF PendingSlots
  <2> QED
    BY <1>1, <1>4, <2>1, <2>2 DEF TurnSlots, SlotsAfterFacts
<1> QED
  BY <1>3, <1>4

-----------------------------------------------------------------------------
\* The mission whose two questions the facts answer.
ClaimType == "auto_claim_guidance"

\* The facts and slots bear out a status: an answered slot has its fact, a claim is
\* ready when both questions are answered, in progress on report and papers.
Warrants(facts, slots, status) ==
  /\ \A s \in FactSlot : slots[s] \in ClosedSlotState => s \in Known(facts)
  /\ status \in {"ready_to_progress", "progressing"} =>
       \A s \in FactSlot : s \in Known(facts) /\ slots[s] \in ClosedSlotState
  /\ status = "progressing" => /\ facts["claim_report_loaded"].value = "yes"
                               /\ facts["documentation_available"].value = "yes"

\* The slots of a claim: its two questions have been asked, the other one never is.
ClaimSlots(slots) == (\A s \in FactSlot : slots[s] # "absent") /\ slots["user_need"] = "absent"

\* The mission's type is the state's, its status an advance, and in a claim it
\* carries the slots of the turn.
LEMMA TurnMissionType ==
  ASSUME NEW state \in States, NEW m \in Message, NEW act, NEW n \in Turns,
         TurnAdvanced(state, m, act, n) \in Mission
  PROVE  /\ TurnAdvanced(state, m, act, n).type = state.mission.type
         /\ ResolveSlots(state, m, act, n).mission.type = state.mission.type
         /\ ResolveSlots(state, m, act, n).mission.status = state.mission.status
         /\ TurnMission(state, m, act, n).type = state.mission.type
<1>0. state.mission \in Mission /\ ResolveSlots(state, m, act, n).mission \in Mission
  BY ResolveSlotsType DEF States
<1>1. /\ ResolveSlots(state, m, act, n).mission.type = state.mission.type
      /\ ResolveSlots(state, m, act, n).mission.status = state.mission.status
  <2>1. /\ MissionResolved(state.mission, state.slots, m).type = state.mission.type
        /\ MissionResolved(state.mission, state.slots, m).status = state.mission.status
    BY <1>0 DEF MissionResolved, Mission
  <2>2. ResolveSlots(state, m, act, n).mission \in
          {state.mission, MissionResolved(state.mission, state.slots, m)}
    BY ResolvedParts
  <2> QED
    BY <2>1, <2>2
<1>2. TurnAdvanced(state, m, act, n).type = state.mission.type
  BY <1>0, <1>1 DEF TurnAdvanced, AdvancedMission, Mission
<1> QED
  BY <1>1, <1>2 DEF TurnMission, ClarifiedMission, Mission

\* A claim's status after a turn is borne out by its facts and slots if it was before.
LEMMA TurnClaimBacked ==
  ASSUME NEW state \in States, HasOneOpenTopic(state.topics), NEW m \in Message, NEW act,
         NEW active \in ActiveTopics(state.topics), NEW n \in Turns,
         state.mission.type = ClaimType, ClaimSlots(state.slots),
         Warrants(state.facts, state.slots, state.mission.status)
  PROVE  LET begun == BegunState(state, m, act, active, n)
         IN  /\ begun.mission.type = ClaimType /\ ClaimSlots(begun.slots)
             /\ begun.mission.slots = begun.slots
             /\ begun.mission.missing = PendingSlots(begun.slots)
             /\ Warrants(begun.facts, begun.slots, begun.mission.status)
<1> DEFINE resolved == ResolveSlots(state, m, act, n)
           facts    == TurnFacts(state, m, act, n)
           slots    == TurnSlots(state, m, act, n)
           advanced == TurnAdvanced(state, m, act, n)
           mission  == TurnMission(state, m, act, n)
           begun    == BegunState(state, m, act, active, n)
           target   == MissionStatusFor(facts, PendingSlots(slots))
<1>1. /\ begun.facts = facts /\ begun.slots = slots /\ begun.mission = mission
      /\ slots \in [Slot -> SlotState] /\ facts \in Facts /\ advanced \in Mission
      /\ mission \in Mission /\ resolved.mission \in Mission
  BY TurnParts DEF States
<1>2. /\ resolved.mission.type = ClaimType /\ resolved.mission.status = state.mission.status
      /\ mission.type = ClaimType
  BY <1>1, TurnMissionType
<1>3. ClaimSlots(slots)
  BY TurnSlotsKept DEF ClaimSlots
<1>4. \A s \in FactSlot : slots[s] \in ClosedSlotState => s \in Known(facts)
  BY TurnSlotsBacked DEF Warrants
<1>5. /\ advanced.slots = slots /\ advanced.missing = PendingSlots(slots)
      /\ advanced.status = SafeMissionTransition(state.mission.status, target)
  BY <1>1, <1>2 DEF TurnAdvanced, AdvancedMission, Mission, ClaimType
<1>6. /\ mission.slots = slots /\ mission.missing = PendingSlots(slots)
      /\ mission.status \in {advanced.status, "waiting_user"}
  BY <1>1, <1>5 DEF TurnMission, ClarifiedMission, Mission
<1> HIDE DEF resolved, facts, slots, advanced, mission, begun
<1>7. PendingSlots(slots) = {} => \A s \in FactSlot : slots[s] \in ClosedSlotState
  BY <1>1, <1>3 DEF PendingSlots, ClaimSlots, SlotState, ClosedSlotState, FactSlot, Slot
<1>8. FactSlot \subseteq FactType
  BY DEF FactSlot, FactType
<1>9. /\ Warrants(facts, slots, target)
      /\ target \in {"waiting_user", "ready_to_progress", "progressing"}
  BY <1>4, <1>7, <1>8 DEF Warrants, MissionStatusFor, Known
<1>10. advanced.status \in {"ready_to_progress", "progressing"} => advanced.status = target
  <2>1. state.mission.status \in MissionStatus
    BY DEF States, Mission
  <2> QED
    BY <1>5, <1>9, <2>1 DEF SafeMissionTransition, MISSION_LIFECYCLE, MissionStatus
<1>11. Warrants(facts, slots, mission.status)
  BY <1>4, <1>6, <1>9, <1>10 DEF Warrants
<1> QED
  BY <1>1, <1>2, <1>3, <1>6, <1>11 DEF begun

-----------------------------------------------------------------------------
\* What a proposal of a turn says of the mission the turn has come to: it is about a
\* mission of that type; and where nothing was rejected or unmatched, to maintain it
\* is to keep it as it is, to suspend or resume it changes its status only.
Follows(p, mission) ==
  /\ p.before.type = mission.type
  /\ p.kind = "maintain" =>
       \A f \in DeltaField : /\ f \in p.changes => p.after[f] = mission[f]
                             /\ f \notin p.changes => p.before[f] = mission[f]
  /\ p.kind # "maintain" => p.before = mission /\ p.changes = {"status"}
  /\ p.kind = "resume" => p.after.status \in {"waiting_user", "gathering_information"}

Fits(p, n, mission, plain) ==
  p.turn = n => /\ p.before.type = mission.type
                /\ plain => Follows(p, mission)

Fitting(n, mission, plain) == {p \in OwnProposals : Fits(p, n, mission, plain)}

\* A claim has no question a slot proposal could be about.
LEMMA ClaimNoSlotProposals ==
  ASSUME NEW mission \in Mission, NEW slots \in [Slot -> SlotState], NEW m \in Message,
         NEW n \in Turns, mission.type = ClaimType, slots["user_need"] = "absent"
  PROVE  SlotProposals(mission, slots, m, n) = <<>>
<1>1. "user_need" \notin PendingSlots(slots)
  BY DEF PendingSlots
<1>2. ~ RejectedAnswer(slots, m)
  <2> SUFFICES ASSUME RejectedAnswer(slots, m) PROVE FALSE
    OBVIOUS
  <2>1. PendingSlots(slots) # {} /\ PrimarySlot(PendingSlots(slots)) = "user_need"
    BY DEF RejectedAnswer, Unanswered
  <2>2. "injuries" \notin PendingSlots(slots) /\ "user_role" \notin PendingSlots(slots)
    BY <2>1 DEF PrimarySlot
  <2> QED
    BY <1>1, <2>1, <2>2, PendingSlotsType DEF Slot
<1> QED
  BY <1>2 DEF SlotProposals, ClaimType

\* The proposals of the slot answers fit, in a turn where a mission of the type goes on.
LEMMA SlotProposalsFit ==
  ASSUME NEW mission \in Mission, NEW slots \in [Slot -> SlotState], NEW m \in Message,
         NEW n \in Turns, NEW after \in Mission, after.type = mission.type,
         NEW plain \in BOOLEAN, plain => SlotProposals(mission, slots, m, n) = <<>>
  PROVE  SlotProposals(mission, slots, m, n) \in Seq(Fitting(n, after, plain))
<1> DEFINE list == SlotProposals(mission, slots, m, n)
<1>1. list \in Seq(OwnProposals)
  BY SlotProposalsType
<1>2. MissionResolved(mission, slots, m).type = mission.type
  BY DEF MissionResolved, Mission
<1>3. \A i \in DOMAIN list : list[i].before = MissionResolved(mission, slots, m)
  BY DEF SlotProposals, Proposal
<1>4. plain => DOMAIN list = {}
  OBVIOUS
<1> HIDE DEF list
<1>5. \A i \in DOMAIN list : list[i] \in Fitting(n, after, plain)
  BY <1>1, <1>2, <1>3, <1>4 DEF Fitting, Fits
<1> QED
  BY <1>1, <1>5 DEF list

\* So do those that report an advance.
LEMMA AdvancementProposalsFit ==
  ASSUME NEW mission \in Mission, NEW advanced \in Mission, NEW clarified \in Mission,
         NEW n \in Turns, mission.type = clarified.type, advanced.type = clarified.type,
         NEW plain \in BOOLEAN
  PROVE  AdvancementProposals(mission, advanced, clarified, n) \in Seq(Fitting(n, clarified, plain))
<1> DEFINE list    == AdvancementProposals(mission, advanced, clarified, n)
           before  == IF clarified # advanced THEN advanced ELSE mission
           changes == {f \in DeltaField : clarified[f] # before[f]}
<1>1. list \in Seq(OwnProposals)
  BY AdvancementProposalsType
<1>2. \A i \in DOMAIN list : /\ list[i].before = before /\ list[i].after = clarified
                             /\ list[i].kind = "maintain" /\ list[i].changes = changes
  BY DEF AdvancementProposals, Proposal
<1>3. before.type = clarified.type
  OBVIOUS
<1>4. \A f \in DeltaField : f \notin changes => before[f] = clarified[f]
  OBVIOUS
<1> HIDE DEF list, before, changes
<1>5. \A i \in DOMAIN list : list[i] \in Fitting(n, clarified, plain)
  BY <1>1, <1>2, <1>3, <1>4 DEF Fitting, Fits, Follows
<1> QED
  BY <1>1, <1>5 DEF list

\* And those of the topics.
LEMMA TopicProposalsFit ==
  ASSUME NEW mission \in Mission, NEW active, NEW move, NEW act, NEW n \in Turns,
         NEW plain \in BOOLEAN
  PROVE  TopicProposals(mission, active, move, act, n) \in Seq(Fitting(n, mission, plain))
<1> DEFINE list == TopicProposals(mission, active, move, act, n)
           back == IF mission.missing # {} THEN "waiting_user" ELSE "gathering_information"
<1>1. list \in Seq(OwnProposals)
  BY TopicProposalsType
<1>2. [mission EXCEPT !.status = back].status \in {"waiting_user", "gathering_information"}
  BY DEF Mission
<1>3. \A i \in DOMAIN list :
        /\ list[i].before = mission /\ list[i].changes = {"status"}
        /\ \/ list[i].kind = "suspend"
           \/ list[i].kind = "resume" /\ list[i].after = [mission EXCEPT !.status = back]
  BY DEF TopicProposals, Proposal
<1> HIDE DEF list, back
<1>4. ASSUME NEW i \in DOMAIN list PROVE list[i] \in Fitting(n, mission, plain)
  <2>1. list[i] \in OwnProposals
    BY <1>1
  <2>2. list[i].kind = "resume" => list[i].after.status \in {"waiting_user", "gathering_information"}
    BY <1>2, <1>3
  <2>3. Follows(list[i], mission)
    BY <1>3, <2>2 DEF Follows
  <2> QED
    BY <1>3, <2>1, <2>3 DEF Fitting, Fits
<1> QED
  BY <1>1, <1>4 DEF list

\* All proposals of a turn fit the mission it has come to.
LEMMA BegunFits ==
  ASSUME NEW state \in States, HasOneOpenTopic(state.topics), NEW m \in Message, NEW act,
         NEW active \in ActiveTopics(state.topics), NEW n \in Turns,
         \A i \in DOMAIN state.proposals : state.proposals[i].turn # n,
         state.mission.type = ClaimType => state.slots["user_need"] = "absent",
         NEW plain \in BOOLEAN,
         plain => SuppressesSlots(act) \/ state.mission.type = ClaimType
  PROVE  LET begun == BegunState(state, m, act, active, n)
         IN  begun.proposals \in Seq(Fitting(n, begun.mission, plain))
<1> DEFINE resolved == ResolveSlots(state, m, act, n)
           advanced == TurnAdvanced(state, m, act, n)
           mission  == TurnMission(state, m, act, n)
           move     == TurnMove(state, m, act, active, n)
           begun    == BegunState(state, m, act, active, n)
           fitting  == Fitting(n, mission, plain)
<1>1. /\ advanced \in Mission /\ mission \in Mission /\ begun.mission = mission
      /\ resolved \in States
      /\ begun.proposals
           = (resolved.proposals \o AdvancementProposals(resolved.mission, advanced, mission, n))
               \o TopicProposals(mission, active, move, act, n)
  BY TurnParts
<1>2. /\ state.mission \in Mission /\ resolved.mission \in Mission
      /\ state.slots \in [Slot -> SlotState] /\ state.proposals \in Seq(OwnProposals)
  BY <1>1 DEF States
<1>3. /\ mission.type = state.mission.type /\ resolved.mission.type = mission.type
      /\ advanced.type = mission.type
  BY <1>1, TurnMissionType
<1>4. state.proposals \in Seq(fitting)
  <2>1. \A i \in DOMAIN state.proposals : state.proposals[i] \in fitting
    BY <1>2 DEF Fitting, Fits
  <2> QED
    BY <1>2, <2>1
<1> HIDE DEF mission, advanced, begun, move
<1>5. resolved.proposals \in Seq(fitting)
  <2>1. CASE SuppressesSlots(act)
    BY <1>4, <2>1, ResolvedParts
  <2>2. CASE ~ SuppressesSlots(act)
    <3> DEFINE list == SlotProposals(state.mission, state.slots, m, n)
    <3>1. plain => list = <<>>
      BY <1>2, <2>2, ClaimNoSlotProposals
    <3>2. list \in Seq(fitting)
      BY <1>1, <1>2, <1>3, <3>1, SlotProposalsFit
    <3>3. resolved.proposals = state.proposals \o list
      BY <2>2, ResolvedParts
    <3> HIDE DEF list, fitting, resolved
    <3> QED
      BY <1>4, <3>2, <3>3, ConcatProperties
  <2> QED
    BY <2>1, <2>2
<1>6. AdvancementProposals(resolved.mission, advanced, mission, n) \in Seq(fitting)
  BY <1>1, <1>2, <1>3, AdvancementProposalsFit
<1>7. TopicProposals(mission, active, move, act, n) \in Seq(fitting)
  BY <1>1, TopicProposalsFit
<1> DEFINE advances == AdvancementProposals(resolved.mission, advanced, mission, n)
<1>8. resolved.proposals \o advances \in Seq(fitting)
  <2> HIDE DEF fitting, resolved, advances
  <2> QED
    BY <1>5, <1>6, ConcatProperties DEF advances
<1>9. begun.proposals \in Seq(fitting)
  <2> HIDE DEF fitting, resolved
  <2> QED
    BY <1>1, <1>7, <1>8, ConcatProperties
<1> QED
  BY <1>1, <1>9 DEF begun

-----------------------------------------------------------------------------
\* A mission is determined by its four fields.
LEMMA MissionFields ==
  ASSUME NEW a \in Mission, NEW b \in Mission, a.type = b.type, a.status = b.status,
         a.missing = b.missing, a.slots = b.slots
  PROVE  a = b
BY DEF Mission

\* When all proposals of a turn follow its mission, the decision keeps it, or changes
\* its status to the one that a suspension or a resume of the turn asks for.
LEMMA FollowingDecision ==
  ASSUME NEW mission \in Mission, NEW n \in Turns, NEW last \in Turns,
         NEW p \in Seq(SoundProposals(last)),
         \A i \in DOMAIN p : p[i].turn = n => Follows(p[i], mission),
         NEW d \in Decisions(mission, p, n)
  PROVE  \/ d.mission = mission
         \/ \E i \in DOMAIN p :
              /\ p[i].turn = n /\ p[i].kind \in {"suspend", "resume"}
              /\ d.mission = [mission EXCEPT !.status = p[i].after.status]
<1> DEFINE candidates == Candidates(p, n)
<1>1. CASE candidates = {}
  BY <1>1 DEF Decisions
<1>2. CASE candidates # {}
  <2>1. PICK i \in Winners(p, candidates) : d = Verdict(mission, p, candidates, i)
    BY <1>2 DEF Decisions
  <2> DEFINE indices == IF p[i].kind = "maintain" THEN candidates ELSE {i}
             merged  == Merged(p, indices, i)
  <2>2. i \in candidates /\ i \in DOMAIN p /\ candidates \in SUBSET DOMAIN p
    BY <2>1, WinnersType
  <2>3. d.mission = mission \/ d.mission = merged
    BY <2>1, VerdictCases
  <2>4. \A j \in DOMAIN p : /\ p[j] \in OwnProposals /\ p[j].before \in Mission
                            /\ p[j].after \in Mission
                            /\ p[j].kind \in {"maintain", "resume", "suspend"}
    <3>1. \A j \in DOMAIN p : p[j] \in SoundProposals(last)
      OBVIOUS
    <3> QED
      BY <3>1 DEF SoundProposals, Sound, OwnProposals, Proposals
  <2>5. \A j \in candidates : p[j].turn = n /\ Follows(p[j], mission)
    BY <2>2, CandidateOfTurn
  <2>6. p \in Seq(OwnProposals)
    BY DEF SoundProposals
  <2>7. CASE p[i].kind = "maintain"
    <3>1. \A j \in candidates : p[j].kind = "maintain"
      <4>1. \A j \in candidates :
               ~ (TRANSITION_PRECEDENCE[p[i].kind] < TRANSITION_PRECEDENCE[p[j].kind])
        BY <2>1, <2>2, <2>4 DEF Winners, TRANSITION_PRECEDENCE
      <4> QED
        BY <2>2, <2>4, <2>7, <4>1 DEF TRANSITION_PRECEDENCE
    <3>2. indices = candidates /\ indices \in SUBSET DOMAIN p
      BY <2>2, <2>7
    <3>3. ASSUME NEW f \in DeltaField PROVE MergedField(p, candidates, i, f) = mission[f]
      <4>1. \A j \in candidates : /\ f \in p[j].changes => p[j].after[f] = mission[f]
                                  /\ f \notin p[j].changes => p[j].before[f] = mission[f]
        BY <2>5, <3>1 DEF Follows
      <4> HIDE DEF candidates
      <4> QED
        BY <2>2, <2>6, <4>1, MergedFieldOrigin
    <3>4. merged = [p[i].before EXCEPT !.status = mission["status"], !.missing = mission["missing"],
                                       !.slots = mission["slots"]]
      BY <3>2, <3>3 DEF Merged, DeltaField
    <3>5. p[i].before.type = mission.type
      BY <2>2, <2>5 DEF Follows
    <3>6. merged = mission
      <4> HIDE DEF merged
      <4>1. /\ merged.type = mission.type /\ merged.status = mission.status
            /\ merged.missing = mission.missing /\ merged.slots = mission.slots
        BY <2>2, <2>4, <3>4, <3>5 DEF Mission
      <4>2. merged \in Mission
        BY <2>2, <2>6, <3>2, MergedType DEF merged
      <4> QED
        BY <4>1, <4>2, MissionFields
    <3> QED
      BY <2>3, <3>6
  <2>8. CASE p[i].kind # "maintain"
    <3>1. indices = {i} /\ p[i].before = mission /\ p[i].changes = {"status"}
      BY <2>2, <2>5, <2>8 DEF Follows
    <3>2. /\ MergedField(p, {i}, i, "status") = p[i].after.status
          /\ MergedField(p, {i}, i, "missing") = mission.missing
          /\ MergedField(p, {i}, i, "slots") = mission.slots
      <4>1. {"status", "missing", "slots"} \subseteq DeltaField
        BY DEF DeltaField
      <4>2. ASSUME NEW f \in DeltaField
            PROVE  /\ f = "status" => MergedField(p, {i}, i, f) = p[i].after[f]
                   /\ f # "status" => MergedField(p, {i}, i, f) = mission[f]
        <5> DEFINE one == {i}
        <5>1. one \in SUBSET DOMAIN p
          BY <2>2
        <5> HIDE DEF one
        <5>2. \/ \E j \in one : f \in p[j].changes /\ MergedField(p, one, i, f) = p[j].after[f]
              \/ /\ \A j \in one : f \notin p[j].changes
                 /\ MergedField(p, one, i, f) = p[i].before[f]
          BY <2>2, <2>6, <5>1, MergedFieldOrigin
        <5> QED
          BY <3>1, <5>2 DEF one
      <4> QED
        BY <4>1, <4>2
    <3>3. merged \in Mission
      BY <2>2, <2>6, <3>1, MergedType
    <3>4. merged = [mission EXCEPT !.status = p[i].after.status, !.missing = mission.missing,
                                   !.slots = mission.slots]
      BY <3>1, <3>2 DEF Merged
    <3> HIDE DEF merged
    <3>5. /\ merged.type = mission.type /\ merged.status = p[i].after.status
          /\ merged.missing = mission.missing /\ merged.slots = mission.slots
      BY <3>4 DEF Mission
    <3>6. p[i].after.status \in MissionStatus
      BY <2>2, <2>4 DEF Mission
    <3>7. merged = [mission EXCEPT !.status = p[i].after.status]
      <4> DEFINE moved == [mission EXCEPT !.status = p[i].after.status]
      <4>1. moved \in Mission
        BY <3>6, MissionStatusType
      <4>2. /\ moved.type = mission.type /\ moved.status = p[i].after.status
            /\ moved.missing = mission.missing /\ moved.slots = mission.slots
        BY DEF Mission
      <4> HIDE DEF moved
      <4>3. merged = moved
        BY <3>3, <3>5, <4>1, <4>2, MissionFields
      <4> QED
        BY <4>3 DEF moved
    <3> QED
      BY <2>2, <2>3, <2>4, <2>5, <2>8, <3>7
  <2> QED
    BY <2>7, <2>8
<1> QED
  BY <1>1, <1>2

\* A decision on proposals about missions of one type keeps the type.
LEMMA DecisionKeepsType ==
  ASSUME NEW mission \in Mission, NEW n \in Turns, NEW last \in Turns,
         NEW p \in Seq(SoundProposals(last)),
         \A i \in DOMAIN p : p[i].turn = n => p[i].before.type = mission.type,
         NEW d \in Decisions(mission, p, n)
  PROVE  d.mission.type = mission.type
<1> DEFINE candidates == Candidates(p, n)
<1>1. CASE candidates = {}
  BY <1>1 DEF Decisions
<1>2. CASE candidates # {}
  <2>1. PICK i \in Winners(p, candidates) : d = Verdict(mission, p, candidates, i)
    BY <1>2 DEF Decisions
  <2> DEFINE indices == IF p[i].kind = "maintain" THEN candidates ELSE {i}
  <2>2. i \in candidates /\ i \in DOMAIN p
    BY <2>1, WinnersType
  <2>3. d.mission = mission \/ d.mission = Merged(p, indices, i)
    BY <2>1, VerdictCases
  <2>4. p[i] \in SoundProposals(last) /\ p[i].turn = n
    BY <2>2, CandidateOfTurn
  <2>5. p[i].before \in Mission /\ p[i].before.type = mission.type
    BY <2>2, <2>4 DEF SoundProposals, OwnProposals, Proposals
  <2>6. Merged(p, indices, i).type = p[i].before.type
    BY <2>5 DEF Merged, Mission
  <2> QED
    BY <2>3, <2>5, <2>6
<1> QED
  BY <1>1, <1>2

LEMMA PercentOrder == \A a \in 0..100 : a >= 65 => ~ (a < 65)
OBVIOUS

\* A suspended mission with a resume proposed in the turn, and nothing that suspends
\* it, is resumed.
LEMMA ResumeDecides ==
  ASSUME NEW mission \in Mission, NEW n \in Turns, NEW last \in Turns,
         NEW p \in Seq(SoundProposals(last)),
         \A i \in DOMAIN p : p[i].turn = n => /\ Follows(p[i], mission)
                                            /\ p[i].kind # "suspend",
         mission.status = "suspended" =>
           \E i \in DOMAIN p : p[i].turn = n /\ p[i].kind = "resume",
         NEW d \in Decisions(mission, p, n)
  PROVE  d.mission.status # "suspended"
<1> DEFINE candidates == Candidates(p, n)
<1>1. \A i \in DOMAIN p : /\ p[i].after \in Mission
                          /\ p[i].kind \in {"maintain", "resume", "suspend"}
                          /\ p[i].confidence \in 0..100
                          /\ p[i].kind = "resume" => p[i].confidence >= MINIMUM_CONFIDENCE["resume"]
  <2>1. \A i \in DOMAIN p : p[i] \in SoundProposals(last)
    OBVIOUS
  <2> QED
    BY <2>1 DEF SoundProposals, Sound, OwnProposals, Proposals
<1>2. ASSUME NEW i \in DOMAIN p, p[i].turn = n, p[i].kind \in {"suspend", "resume"}
      PROVE  [mission EXCEPT !.status = p[i].after.status].status # "suspended"
  <2>1. p[i].after.status \in {"waiting_user", "gathering_information"}
    BY <1>2 DEF Follows
  <2>2. [mission EXCEPT !.status = p[i].after.status].status = p[i].after.status
    BY DEF Mission
  <2> QED
    BY <2>1, <2>2
<1>3. CASE mission.status # "suspended"
  <2>1. \A i \in DOMAIN p : p[i].turn = n => Follows(p[i], mission)
    OBVIOUS
  <2>2. \/ d.mission = mission
        \/ \E i \in DOMAIN p : /\ p[i].turn = n /\ p[i].kind \in {"suspend", "resume"}
                               /\ d.mission = [mission EXCEPT !.status = p[i].after.status]
    BY <2>1, FollowingDecision
  <2> QED
    BY <1>2, <1>3, <2>2
<1>4. CASE mission.status = "suspended"
  <2>1. PICK k \in candidates : p[k].kind = "resume"
    BY <1>4, CandidateOfKind
  <2>2. PICK i \in Winners(p, candidates) : d = Verdict(mission, p, candidates, i)
    BY <2>1 DEF Decisions
  <2>3. i \in DOMAIN p /\ k \in DOMAIN p /\ p[i].turn = n
    BY <2>1, <2>2, WinnersType, CandidateOfTurn
  <2>4. p[i].kind = "resume"
    <3>1. ~ (TRANSITION_PRECEDENCE[p[i].kind] < 2)
      BY <1>1, <2>1, <2>2, <2>3 DEF Winners, TRANSITION_PRECEDENCE
    <3> QED
      BY <1>1, <2>3, <3>1 DEF TRANSITION_PRECEDENCE
  <2>5. ~ (p[i].confidence < MINIMUM_CONFIDENCE["resume"])
    <3>1. MINIMUM_CONFIDENCE["resume"] = 65
      BY DEF MINIMUM_CONFIDENCE
    <3>2. p[i].confidence >= 65 /\ p[i].confidence \in 0..100
      BY <1>1, <2>3, <2>4, <3>1
    <3> QED
      BY <3>1, <3>2, PercentOrder
  <2>6. d.mission = Merged(p, {i}, i)
    <3> HIDE DEF candidates
    <3> QED
      BY <1>4, <2>2, <2>4, <2>5 DEF Verdict, AlreadyTerminal, IsLegalTransition, Rejected
  <2>7. p[i].changes = {"status"} /\ p[i].before = mission
    BY <2>3, <2>4 DEF Follows
  <2>8. MergedField(p, {i}, i, "status") = p[i].after.status
    BY <2>7 DEF MergedField
  <2>9. d.mission.status = p[i].after.status
    BY <2>6, <2>7, <2>8 DEF Merged, Mission
  <2>10. p[i].after.status \in {"waiting_user", "gathering_information"}
    BY <2>3, <2>4 DEF Follows
  <2> QED
    BY <2>9, <2>10
<1> QED
  BY <1>3, <1>4

-----------------------------------------------------------------------------
\* What the session holds of a claim is borne out; a conversation without a mission
\* has already no answer without a fact.
StoredBacked(state) ==
  /\ state.mission.type \in {ClaimType, NoType} =>
       /\ \A s \in FactSlot : state.slots[s] \in ClosedSlotState => s \in Known(state.facts)
       /\ state.slots["user_need"] = "absent"
  /\ state.mission.type = ClaimType =>
       ClaimSlots(state.slots) /\ Warrants(state.facts, state.slots, state.mission.status)

\* So is what a turn carries of one, by the slots in its mission: those are committed.
CarriedBacked(state) ==
  state.mission.type = ClaimType =>
    /\ ClaimSlots(MissionSlots(state.mission))
    /\ Warrants(state.facts, state.mission.slots, state.mission.status)

\* begin_turn leaves both.
LEMMA BegunBacked ==
  ASSUME NEW state \in States, HasOneOpenTopic(state.topics), NEW m \in Message, NEW act,
         NEW active \in ActiveTopics(state.topics), NEW n \in Turns, StoredBacked(state)
  PROVE  LET begun == BegunState(state, m, act, active, n)
         IN  /\ begun.mission.type = state.mission.type
             /\ StoredBacked(begun) /\ CarriedBacked(begun)
<1> DEFINE begun == BegunState(state, m, act, active, n)
<1>1. /\ begun.facts = TurnFacts(state, m, act, n) /\ begun.slots = TurnSlots(state, m, act, n)
      /\ begun.mission = TurnMission(state, m, act, n)
      /\ TurnAdvanced(state, m, act, n) \in Mission
  BY TurnParts
<1>2. begun.mission.type = state.mission.type
  BY <1>1, TurnMissionType
<1> HIDE DEF begun
<1>3. CASE state.mission.type \notin {ClaimType, NoType}
  BY <1>2, <1>3 DEF StoredBacked, CarriedBacked, begun
<1>4. CASE state.mission.type = NoType
  <2>1. \A s \in FactSlot : begun.slots[s] \in ClosedSlotState => s \in Known(begun.facts)
    BY <1>1, <1>4, TurnSlotsBacked DEF StoredBacked
  <2>2. begun.slots["user_need"] = "absent"
    BY <1>1, <1>4, TurnSlotsKept DEF StoredBacked
  <2> QED
    BY <1>2, <1>4, <2>1, <2>2 DEF StoredBacked, CarriedBacked, NoType, ClaimType, begun
<1>5. CASE state.mission.type = ClaimType
  <2>1. /\ ClaimSlots(begun.slots) /\ begun.mission.slots = begun.slots
        /\ begun.mission.missing = PendingSlots(begun.slots)
        /\ Warrants(begun.facts, begun.slots, begun.mission.status)
    BY <1>5, TurnClaimBacked DEF StoredBacked, begun
  <2>2. ClaimSlots(MissionSlots(begun.mission))
    BY <2>1 DEF MissionSlots, ClaimSlots, PendingSlots, FactSlot, Slot
  <2> QED
    BY <1>2, <2>1, <2>2 DEF StoredBacked, CarriedBacked, ClaimSlots, Warrants, begun
<1> QED
  BY <1>3, <1>4, <1>5

\* Facts that are merged forget nothing that either side holds.
LEMMA MergedFactsKeep ==
  ASSUME NEW previous \in Facts, NEW projected \in Facts
  PROVE  LET merged == MergedFacts(previous, projected)
         IN  /\ Known(previous) \subseteq Known(merged) /\ Known(projected) \subseteq Known(merged)
             /\ \A f \in FactType : projected[f].value = "yes" => merged[f].value = "yes"
BY DEF MergedFacts, Known, Facts

\* A decision that keeps the mission, or suspends or resumes it, keeps it borne out;
\* so does a merge of the facts.
LEMMA DecidedBacked ==
  ASSUME NEW mission \in Mission, NEW previous \in Facts, NEW facts \in Facts,
         ClaimSlots(MissionSlots(mission)),
         Warrants(facts, mission.slots, mission.status), NEW decided \in Mission,
         decided.slots = mission.slots, decided.missing = mission.missing,
         decided.status \in {mission.status, "suspended", "waiting_user", "gathering_information"}
  PROVE  /\ ClaimSlots(MissionSlots(decided))
         /\ Warrants(MergedFacts(previous, facts), decided.slots, decided.status)
<1>1. MissionSlots(decided) = MissionSlots(mission)
  BY DEF MissionSlots
<1> DEFINE merged == MergedFacts(previous, facts)
<1>2. /\ Known(facts) \subseteq Known(merged)
      /\ \A f \in FactType : facts[f].value = "yes" => merged[f].value = "yes"
  BY MergedFactsKeep
<1> HIDE DEF merged
<1>3. "claim_report_loaded" \in FactType /\ "documentation_available" \in FactType
  BY DEF FactType
<1>4. Warrants(merged, decided.slots, decided.status)
  BY <1>2, <1>3 DEF Warrants
<1> QED
  BY <1>1, <1>4 DEF merged

\* A commit of a claim into a session with that claim, or none yet, stores what is
\* borne out.
LEMMA CommittedBacked ==
  ASSUME NEW state \in States, NEW done \in States, StoredBacked(state), CarriedBacked(done),
         done.mission.type = ClaimType => state.mission.type \in {ClaimType, NoType},
         done.mission.type # NoType, NEW topics, NEW proposals
  PROVE  StoredBacked(StateRecord(MergedSlots(state.slots, MissionSlots(done.mission)),
                                  MergedFacts(state.facts, done.facts), done.mission,
                                  topics, proposals))
<1> DEFINE slots == MergedSlots(state.slots, MissionSlots(done.mission))
           facts == MergedFacts(state.facts, done.facts)
           new   == StateRecord(slots, facts, done.mission, topics, proposals)
<1>1. new.slots = slots /\ new.facts = facts /\ new.mission = done.mission
  BY DEF StateRecord
<1> HIDE DEF new
<1>2. CASE done.mission.type # ClaimType
  BY <1>1, <1>2 DEF StoredBacked, new
<1>3. CASE done.mission.type = ClaimType
  <2>1. /\ ClaimSlots(MissionSlots(done.mission))
        /\ Warrants(done.facts, done.mission.slots, done.mission.status)
    BY <1>3 DEF CarriedBacked
  <2>2. /\ state.slots["user_need"] = "absent"
        /\ \A s \in FactSlot : state.slots[s] \in ClosedSlotState => s \in Known(state.facts)
    BY <1>3 DEF StoredBacked
  <2>3. /\ Known(state.facts) \subseteq Known(facts) /\ Known(done.facts) \subseteq Known(facts)
        /\ \A f \in FactType : done.facts[f].value = "yes" => facts[f].value = "yes"
    BY MergedFactsKeep DEF States
  <2> HIDE DEF facts
  <2>4. \A s \in FactSlot : done.mission.slots[s] \in ClosedSlotState <=>
                              MissionSlots(done.mission)[s] \in ClosedSlotState
    BY DEF MissionSlots, ClosedSlotState, FactSlot, Slot
  <2>5. ClaimSlots(slots)
    BY <2>1, <2>2 DEF MergedSlots, ClaimSlots, ClosedSlotState, FactSlot, Slot
  <2>6. \A s \in FactSlot :
          /\ slots[s] \in ClosedSlotState => \/ state.slots[s] \in ClosedSlotState
                                             \/ MissionSlots(done.mission)[s] \in ClosedSlotState
          /\ MissionSlots(done.mission)[s] \in ClosedSlotState => slots[s] \in ClosedSlotState
    BY DEF MergedSlots, ClosedSlotState, FactSlot, Slot
  <2> HIDE DEF slots
  <2>7. "claim_report_loaded" \in FactType /\ "documentation_available" \in FactType
    BY DEF FactType
  <2>8. Warrants(facts, slots, done.mission.status)
    BY <2>1, <2>2, <2>3, <2>4, <2>6, <2>7 DEF Warrants
  <2>9. StoredBacked(new)
    BY <1>1, <1>3, <2>5, <2>8 DEF StoredBacked, ClaimSlots, Warrants
  <2> QED
    BY <2>9 DEF new, slots, facts
<1> QED
  BY <1>2, <1>3

\* A user who asks for the previous topic: the topic of the mission, if there is one,
\* is resumed, nothing suspends the mission, and if it is suspended its resume is proposed.
LEMMA BegunReturns ==
  ASSUME NEW state \in States, HasOneOpenTopic(state.topics), NEW m \in Message,
         NEW active \in ActiveTopics(state.topics), NEW n \in Turns,
         \A i \in DOMAIN state.proposals : state.proposals[i].turn # n,
         m.direction = "previous",
         BegunState(state, m, "topic_shift", active, n).topics[MissionTopic] # AbsentTopic
  PROVE  LET begun == BegunState(state, m, "topic_shift", active, n)
         IN  /\ begun.topics[MissionTopic] = "resumed"
             /\ \A i \in DOMAIN begun.proposals :
                  begun.proposals[i].turn = n => begun.proposals[i].kind # "suspend"
             /\ IsMission(begun.mission) /\ begun.mission.status = "suspended" =>
                  \E i \in DOMAIN begun.proposals : /\ begun.proposals[i].turn = n
                                                    /\ begun.proposals[i].kind = "resume"
<1> DEFINE act      == "topic_shift"
           resolved == ResolveSlots(state, m, act, n)
           advanced == TurnAdvanced(state, m, act, n)
           mission  == TurnMission(state, m, act, n)
           move     == TurnMove(state, m, act, active, n)
           begun    == BegunState(state, m, act, active, n)
           first    == AdvancementProposals(resolved.mission, advanced, mission, n)
           second   == TopicProposals(mission, active, move, act, n)
<1>1. /\ advanced \in Mission /\ mission \in Mission /\ begun.mission = mission
      /\ resolved \in States /\ begun.topics = TopicsAfter(state.topics, active, move)
      /\ begun.proposals = (resolved.proposals \o first) \o second
  BY TurnParts
<1>2. resolved = state
  BY ResolvedParts DEF SuppressesSlots
<1>3. MissionTopic \in Turns /\ MissionTopic # NoTopic /\ state.topics \in TopicStack
  BY MaxTurnsAssumption DEF MissionTopic, NoTopic, Turns, States
<1>4. move = [to |-> IF state.topics[MissionTopic] # AbsentTopic THEN MissionTopic ELSE NoTopic,
              status |-> "resumed"]
  BY DEF TurnMove, TopicMove
<1> HIDE DEF resolved, advanced, mission, begun, first, second
<1>5. state.topics[MissionTopic] # AbsentTopic
  <2> SUFFICES ASSUME state.topics[MissionTopic] = AbsentTopic PROVE FALSE
    OBVIOUS
  <2>1. begun.topics = state.topics
    BY <1>1, <1>4 DEF TopicsAfter
  <2> QED
    BY <2>1 DEF begun
<1>6. move = [to |-> MissionTopic, status |-> "resumed"]
  BY <1>4, <1>5
<1> HIDE DEF move
<1>7. begun.topics[MissionTopic] = "resumed"
  BY <1>1, <1>3, <1>6 DEF TopicsAfter, SwitchTopic
<1>8. \A i \in DOMAIN second : second[i].turn = n /\ second[i].kind = "resume"
  BY <1>6 DEF second, TopicProposals, Proposal
<1>9. IsMission(mission) /\ mission.status = "suspended" => Len(second) = 1
  BY <1>6 DEF second, TopicProposals
<1>10. \A i \in DOMAIN first : first[i].kind = "maintain"
  BY DEF first, AdvancementProposals, Proposal
<1>11. /\ first \in Seq(OwnProposals) /\ second \in Seq(OwnProposals)
       /\ state.proposals \in Seq(OwnProposals)
  <2>1. resolved.mission \in Mission
    BY <1>1 DEF States
  <2> QED
    BY <1>1, <2>1, AdvancementProposalsType, TopicProposalsType DEF first, second, States
<1> DEFINE both == state.proposals \o first
<1>12. /\ both \in Seq(OwnProposals)
       /\ \A i \in DOMAIN both : both[i].turn = n => both[i].kind # "suspend"
  <2>1. /\ both \in Seq(OwnProposals) /\ Len(both) = Len(state.proposals) + Len(first)
        /\ \A i \in 1..Len(both) : both[i] = IF i <= Len(state.proposals) THEN state.proposals[i]
                                             ELSE first[i - Len(state.proposals)]
    BY <1>11, ConcatProperties
  <2> HIDE DEF both
  <2>2. ASSUME NEW i \in DOMAIN both, both[i].turn = n PROVE both[i].kind # "suspend"
    <3>1. i \in 1..Len(both) /\ Len(state.proposals) \in Nat /\ Len(first) \in Nat
      BY <1>11, <2>1
    <3>2. CASE i <= Len(state.proposals)
      BY <1>11, <2>1, <2>2, <3>1, <3>2
    <3>3. CASE i > Len(state.proposals)
      <4>1. i - Len(state.proposals) \in DOMAIN first /\ both[i] = first[i - Len(state.proposals)]
        BY <1>11, <2>1, <3>1, <3>3
      <4> QED
        BY <1>10, <4>1
    <3> QED
      BY <3>1, <3>2, <3>3
  <2> QED
    BY <2>1, <2>2
<1>13. begun.proposals = both \o second
  BY <1>1, <1>2
<1> HIDE DEF both
<1>14. /\ begun.proposals \in Seq(OwnProposals) /\ Len(begun.proposals) = Len(both) + Len(second)
       /\ \A i \in 1..Len(begun.proposals) :
            begun.proposals[i] = IF i <= Len(both) THEN both[i] ELSE second[i - Len(both)]
  BY <1>11, <1>12, <1>13, ConcatProperties
<1>15. ASSUME NEW i \in DOMAIN begun.proposals, begun.proposals[i].turn = n
       PROVE  begun.proposals[i].kind # "suspend"
  <2>1. i \in 1..Len(begun.proposals) /\ Len(both) \in Nat /\ Len(second) \in Nat
    BY <1>11, <1>12, <1>14
  <2>2. CASE i <= Len(both)
    BY <1>12, <1>14, <1>15, <2>1, <2>2
  <2>3. CASE i > Len(both)
    <3>1. i - Len(both) \in DOMAIN second /\ begun.proposals[i] = second[i - Len(both)]
      BY <1>11, <1>14, <2>1, <2>3
    <3> QED
      BY <1>8, <3>1
  <2> QED
    BY <2>1, <2>2, <2>3
<1>16. ASSUME IsMission(mission), mission.status = "suspended"
       PROVE  \E i \in DOMAIN begun.proposals : begun.proposals[i].turn = n
                                              /\ begun.proposals[i].kind = "resume"
  <2>1. Len(second) = 1 /\ Len(both) \in Nat
    BY <1>9, <1>12, <1>16
  <2>2. Len(both) + 1 \in 1..Len(begun.proposals) /\ 1 \in DOMAIN second
    BY <1>11, <1>14, <2>1
  <2>3. begun.proposals[Len(both) + 1] = second[1]
    BY <1>14, <2>1, <2>2
  <2>4. Len(both) + 1 \in DOMAIN begun.proposals
    BY <1>14, <2>2
  <2> QED
    BY <1>8, <2>2, <2>3, <2>4
<1> QED
  BY <1>1, <1>7, <1>15, <1>16 DEF begun

-----------------------------------------------------------------------------
\* No turn is interleaved with the one that opens the conversation.
OpeningAlone ==
  ~ Opened => \A h, g \in Handlers : pc[h] # "idle" /\ pc[g] # "idle" => h = g

\* Once a conversation is opened every turn carries a mission of its type; the opening
\* turn carries none until its decision.
TypeKept(h) ==
  /\ pc[h] = "begun" /\ ~ Opened => ~ IsMission(Carried(h).mission)
  /\ pc[h] = "decided" => IsMission(Carried(h).mission)
  /\ pc[h] # "idle" /\ Opened => Carried(h).mission.type = session.mission.type

\* Where the proposals of a turn follow its mission.
Plain(h) == SuppressesSlots(work[h].act) \/ Carried(h).mission.type = ClaimType

ProposalsFit(h) ==
  pc[h] = "begun" =>
    Carried(h).proposals \in Seq(Fitting(work[h].turn, Carried(h).mission, Plain(h)))

TurnBacked(h) == pc[h] # "idle" => CarriedBacked(Carried(h))

\* A turn that asks for the previous topic, and finds one.
Returning(h) ==
  /\ work[h].act = "topic_shift" /\ work[h].direction = "previous"
  /\ Carried(h).topics[MissionTopic] # AbsentTopic

ReturnBegun(h) ==
  pc[h] = "begun" /\ Returning(h) =>
    /\ Carried(h).topics[MissionTopic] = "resumed"
    /\ ~ ThisTurns(h, "suspend")
    /\ IsMission(Carried(h).mission) /\ Carried(h).mission.status = "suspended" =>
         ThisTurns(h, "resume")

ReturnDecided(h) ==
  pc[h] = "decided" /\ Returning(h) => /\ MissionTopic \in OpenTopics(Carried(h).topics)
                                       /\ Carried(h).mission.status # "suspended"

Sustained(h) ==
  TypeKept(h) /\ ProposalsFit(h) /\ TurnBacked(h) /\ ReturnBegun(h) /\ ReturnDecided(h)

EvidenceInv ==
  /\ DecisionInv
  /\ OpeningAlone
  /\ StoredBacked(session)
  /\ \A h \in Handlers : Sustained(h)

\* A new conversation holds nothing yet.
LEMMA EvidenceInvInit == Init => EvidenceInv
<1> SUFFICES ASSUME Init PROVE EvidenceInv
  OBVIOUS
<1>1. session.mission = NoMission /\ session.slots = NoSlots
  BY DEF Init, NewState, StateRecord
<1>2. StoredBacked(session)
  BY <1>1 DEF StoredBacked, NoMission, NoType, ClaimType, NoSlots, FactSlot, Slot, ClosedSlotState
<1>3. \A h \in Handlers : pc[h] = "idle"
  BY DEF Init
<1> QED
  BY <1>2, <1>3, DecisionInvInit
     DEF EvidenceInv, OpeningAlone, Sustained, TypeKept, ProposalsFit, TurnBacked, ReturnBegun,
         ReturnDecided

\* What is true of a turn stays so while others begin and decide theirs.
LEMMA SustainedByOthers ==
  ASSUME NEW h \in Handlers, Sustained(h), work'[h] = work[h], pc'[h] = pc[h],
         session'.mission.type = session.mission.type
  PROVE  Sustained(h)'
BY DEF Sustained, TypeKept, ProposalsFit, Plain, TurnBacked, ReturnBegun, ReturnDecided, Returning,
       Carried, ThisTurns, Opened, IsMission

\* begin_turn establishes it.
LEMMA EvidenceBegins ==
  ASSUME EvidenceInv, DecisionInv', NEW h \in Handlers, BeginTurn(h)
  PROVE  EvidenceInv'
<1>1. PICK m \in Messages : \E a \in SelectedActs(session.slots, session.facts, m) :
        \E active \in ActiveTopics(session.topics) : BeginsWith(h, m, a, active)
  BY DEF BeginTurn, BeginTurnWith, BeginsWith
<1>2. PICK a \in SelectedActs(session.slots, session.facts, m) :
        \E active \in ActiveTopics(session.topics) : BeginsWith(h, m, a, active)
  BY <1>1
<1>3. PICK active \in ActiveTopics(session.topics) : BeginsWith(h, m, a, active)
  BY <1>2
<1> DEFINE begun == BegunState(session, m, a.act, active, turn + 1)
           n     == turn + 1
<1>4. /\ m \in Message /\ n \in Turns /\ session \in States /\ turn \in Turns
      /\ HasOneOpenTopic(session.topics) /\ TypeOK
  BY MessagesAssumption, MaxTurnsAssumption
     DEF EvidenceInv, DecisionInv, TopicInv, BeginTurn, BeginTurnWith, TypeOK, Turns, OneOpenTopic
<1>5. \A i \in DOMAIN session.proposals : session.proposals[i].turn # n
  <2>1. session.proposals \in Seq(SoundProposals(turn))
    BY DEF EvidenceInv, DecisionInv
  <2>2. \A i \in DOMAIN session.proposals : session.proposals[i].turn \in Turns
                                          /\ session.proposals[i].turn <= turn
    BY <2>1 DEF SoundProposals, OwnProposals, Proposals
  <2> QED
    BY <1>4, <2>2, MaxTurnsAssumption DEF Turns
<1>6. /\ session' = begun /\ work'[h].state = begun /\ work'[h].turn = n
      /\ work'[h].act = a.act /\ work'[h].direction = m.direction /\ pc'[h] = "begun"
      /\ \A g \in Handlers : g # h => work'[g] = work[g] /\ pc'[g] = pc[g]
  BY <1>3, <1>4 DEF BeginsWith, BeginTurn, BeginTurnWith, TypeOK
<1>7. pc[h] = "idle" /\ (Opened \/ \A g \in Handlers : pc[g] = "idle")
  BY DEF BeginTurn, BeginTurnWith
<1>8. begun.mission.type = session.mission.type /\ StoredBacked(begun) /\ CarriedBacked(begun)
  BY <1>4, BegunBacked DEF EvidenceInv
<1> DEFINE plain == SuppressesSlots(a.act) \/ session.mission.type = ClaimType
<1>9. begun.proposals \in Seq(Fitting(n, begun.mission, plain))
  <2>1. session.mission.type = ClaimType => session.slots["user_need"] = "absent"
    BY DEF EvidenceInv, StoredBacked
  <2>2. plain \in BOOLEAN
    BY DEF SuppressesSlots
  <2> QED
    BY <1>4, <1>5, <2>1, <2>2, BegunFits
<1>10. ASSUME a.act = "topic_shift", m.direction = "previous",
              begun.topics[MissionTopic] # AbsentTopic
       PROVE  /\ begun.topics[MissionTopic] = "resumed"
              /\ \A i \in DOMAIN begun.proposals :
                   begun.proposals[i].turn = n => begun.proposals[i].kind # "suspend"
              /\ IsMission(begun.mission) /\ begun.mission.status = "suspended" =>
                   \E i \in DOMAIN begun.proposals : /\ begun.proposals[i].turn = n
                                                     /\ begun.proposals[i].kind = "resume"
  BY <1>4, <1>5, <1>10, BegunReturns
<1> HIDE DEF begun, n
<1>11. Opened' <=> Opened
  BY <1>6, <1>8 DEF Opened, IsMission
<1>12. Sustained(h)'
  <2>1. TypeKept(h)'
    BY <1>6, <1>8, <1>11 DEF TypeKept, Carried, Opened, IsMission
  <2>2. ProposalsFit(h)'
    BY <1>6, <1>8, <1>9 DEF ProposalsFit, Plain, Carried
  <2>3. ReturnBegun(h)'
    BY <1>6, <1>10 DEF ReturnBegun, Returning, Carried, ThisTurns
  <2> QED
    BY <1>6, <1>8, <2>1, <2>2, <2>3 DEF Sustained, TurnBacked, ReturnDecided, Carried
<1>13. ASSUME NEW g \in Handlers, g # h PROVE Sustained(g)'
  BY <1>6, <1>8, <1>13, SustainedByOthers DEF EvidenceInv
<1>14. OpeningAlone'
  BY <1>6, <1>7, <1>11 DEF OpeningAlone
<1> QED
  BY <1>6, <1>8, <1>12, <1>13, <1>14 DEF EvidenceInv

-----------------------------------------------------------------------------
\* What a decision leaves of a turn: all but its mission and its facts.
LEMMA DecidedParts ==
  ASSUME TypeOK, TypeOK', NEW h \in Handlers, DecideMission(h)
  PROVE  /\ pc[h] = "begun" /\ pc'[h] = "decided" /\ IsMission(Carried(h).mission)
         /\ session' = session /\ turn' = turn
         /\ \A g \in Handlers : g # h => work'[g] = work[g] /\ pc'[g] = pc[g]
         /\ Carried(h) \in States /\ Carried(h)' \in States /\ session \in States
         /\ work[h].turn \in Turns
         /\ work'[h].turn = work[h].turn /\ work'[h].act = work[h].act
         /\ work'[h].direction = work[h].direction
         /\ Carried(h)'.topics = Carried(h).topics /\ Carried(h)'.slots = Carried(h).slots
         /\ Carried(h)'.proposals = Carried(h).proposals
         /\ Carried(h)'.facts = MergedFacts(session.facts, Carried(h).facts)
         /\ Carried(h)'.mission \in
              {d.mission : d \in Decisions(Carried(h).mission, Carried(h).proposals, work[h].turn)}
<1> USE DEF Carried
<1>1. work[h] \in Work /\ work[h].state \in States /\ session \in States
  BY DEF TypeOK, Work
<1>2. PICK d \in Decisions(work[h].state.mission, work[h].state.proposals, work[h].turn) :
        work' = [work EXCEPT
                   ![h].decision      = d,
                   ![h].state.mission = d.mission,
                   ![h].state.facts   = MergedFacts(session.facts, work[h].state.facts)]
  BY DEF DecideMission
<1>3. /\ work'[h].state.mission = d.mission /\ work'[h].turn = work[h].turn
      /\ work'[h].act = work[h].act /\ work'[h].direction = work[h].direction
      /\ work'[h].state.topics = work[h].state.topics
      /\ work'[h].state.slots = work[h].state.slots
      /\ work'[h].state.proposals = work[h].state.proposals
      /\ work'[h].state.facts = MergedFacts(session.facts, work[h].state.facts)
      /\ work[h].turn \in Turns
      /\ \A g \in Handlers : g # h => work'[g] = work[g]
  BY <1>1, <1>2 DEF TypeOK, Work, States
<1>4. /\ pc[h] = "begun" /\ pc'[h] = "decided" /\ IsMission(work[h].state.mission)
      /\ session' = session /\ turn' = turn
      /\ \A g \in Handlers : g # h => pc'[g] = pc[g]
  BY DEF DecideMission, TypeOK
<1>5. work'[h].state \in States
  BY DEF TypeOK, Work
<1> QED
  BY <1>1, <1>2, <1>3, <1>4, <1>5

\* A decision on a claim changes nothing of it but its status.
LEMMA ClaimDecision ==
  ASSUME EvidenceInv, TypeOK', NEW h \in Handlers, DecideMission(h),
         Carried(h).mission.type = ClaimType
  PROVE  LET mission == Carried(h).mission
             decided == Carried(h)'.mission
         IN  /\ decided.slots = mission.slots /\ decided.missing = mission.missing
             /\ decided.status \in {mission.status, "suspended", "waiting_user",
                                   "gathering_information"}
<1> DEFINE mission == Carried(h).mission
           n       == work[h].turn
           p       == Carried(h).proposals
<1>1. TypeOK
  BY DEF EvidenceInv, DecisionInv, TopicInv
<1>2. pc[h] = "begun" /\ n \in Turns /\ Carried(h) \in States
  BY <1>1, DecidedParts
<1>3. PICK d \in Decisions(mission, p, n) : Carried(h)'.mission = d.mission
  BY <1>1, DecidedParts
<1>4. /\ mission \in Mission /\ turn \in Turns /\ p \in Seq(SoundProposals(turn))
  BY <1>1, <1>2 DEF EvidenceInv, DecisionInv, TypeOK, States
<1>5. \A i \in DOMAIN p : p[i].turn = n => Follows(p[i], mission)
  <2>1. p \in Seq(Fitting(n, mission, Plain(h))) /\ Plain(h)
    <3>1. Plain(h)
      BY DEF Plain
    <3>2. Sustained(h)
      BY DEF EvidenceInv
    <3>3. ProposalsFit(h)
      BY <3>2 DEF Sustained
    <3>4. p \in Seq(Fitting(n, mission, Plain(h)))
      BY <1>2, <3>3 DEF ProposalsFit
    <3> QED
      BY <3>1, <3>4
  <2>2. \A i \in DOMAIN p : p[i] \in Fitting(n, mission, Plain(h))
    <3> DEFINE fitting == Fitting(n, mission, Plain(h))
    <3> HIDE DEF fitting, p
    <3>1. p \in Seq(fitting)
      BY <2>1 DEF fitting
    <3>2. \A i \in DOMAIN p : p[i] \in fitting
      BY <3>1
    <3> QED
      BY <3>2 DEF fitting
  <2> QED
    BY <2>1, <2>2 DEF Fitting, Fits
<1> HIDE DEF mission, n, p
<1>6. \/ d.mission = mission
      \/ \E i \in DOMAIN p : /\ p[i].turn = n /\ p[i].kind \in {"suspend", "resume"}
                             /\ d.mission = [mission EXCEPT !.status = p[i].after.status]
  BY <1>2, <1>3, <1>4, <1>5, FollowingDecision
<1>7. \A i \in DOMAIN p :
        p[i].turn = n /\ p[i].kind \in {"suspend", "resume"} =>
          p[i].after.status \in {"suspended", "waiting_user", "gathering_information"}
  <2>1. \A i \in DOMAIN p : p[i] \in SoundProposals(turn)
    BY <1>4
  <2> QED
    BY <1>5, <2>1 DEF SoundProposals, Sound, Follows
<1>8. /\ d.mission.slots = mission.slots /\ d.mission.missing = mission.missing
      /\ d.mission.status \in {mission.status, "suspended", "waiting_user", "gathering_information"}
  BY <1>4, <1>6, <1>7 DEF Mission
<1> QED
  BY <1>3, <1>8 DEF mission

\* A decision leaves a mission, not suspended after a return, and what bears it out.
LEMMA EvidenceDecides ==
  ASSUME EvidenceInv, DecisionInv', NEW h \in Handlers, DecideMission(h)
  PROVE  EvidenceInv'
<1> DEFINE before  == Carried(h)
           mission == before.mission
           n       == work[h].turn
           p       == before.proposals
<1>1. TypeOK /\ TypeOK'
  BY DEF EvidenceInv, DecisionInv, TopicInv
<1>2. /\ pc[h] = "begun" /\ pc'[h] = "decided" /\ IsMission(mission)
      /\ session' = session /\ turn' = turn
      /\ \A g \in Handlers : g # h => work'[g] = work[g] /\ pc'[g] = pc[g]
      /\ before \in States /\ Carried(h)' \in States /\ session \in States
      /\ n \in Turns /\ work'[h].act = work[h].act /\ work'[h].direction = work[h].direction
      /\ Carried(h)'.topics = before.topics
      /\ Carried(h)'.facts = MergedFacts(session.facts, before.facts)
  BY <1>1, DecidedParts
<1>3. PICK d \in Decisions(mission, p, n) : Carried(h)'.mission = d.mission
  BY <1>1, DecidedParts
<1>4. /\ mission \in Mission /\ d.mission \in Mission /\ before.facts \in Facts
      /\ session.facts \in Facts
  BY <1>2, <1>3 DEF States
<1>5. turn \in Turns /\ p \in Seq(SoundProposals(turn))
  BY <1>1 DEF EvidenceInv, DecisionInv, TypeOK
<1>6. p \in Seq(Fitting(n, mission, Plain(h)))
  BY <1>2 DEF EvidenceInv, Sustained, ProposalsFit
<1>7. /\ \A i \in DOMAIN p : p[i].turn = n => p[i].before.type = mission.type
      /\ Plain(h) => \A i \in DOMAIN p : p[i].turn = n => Follows(p[i], mission)
  <2>1. \A i \in DOMAIN p : p[i] \in Fitting(n, mission, Plain(h))
    BY <1>6
  <2> QED
    BY <2>1 DEF Fitting, Fits
<1> HIDE DEF before, n, p
<1>8. d.mission.type = mission.type
  <2>1. \A i \in DOMAIN p : p[i].turn = n => p[i].before.type = mission.type
    BY <1>7
  <2> QED
    BY <1>2, <1>3, <1>4, <1>5, <2>1, DecisionKeepsType
<1>9. Opened' = Opened
  BY <1>2 DEF Opened
<1>10. TypeKept(h)'
  BY <1>2, <1>3, <1>8, <1>9 DEF TypeKept, EvidenceInv, Sustained, IsMission, before
<1>11. ASSUME mission.type = ClaimType
       PROVE  CarriedBacked(Carried(h)')
  <2>4. /\ d.mission.slots = mission.slots /\ d.mission.missing = mission.missing
        /\ d.mission.status \in {mission.status, "suspended", "waiting_user",
                                  "gathering_information"}
    BY <1>1, <1>3, <1>11, ClaimDecision DEF before
  <2>5. /\ ClaimSlots(MissionSlots(mission))
        /\ Warrants(before.facts, mission.slots, mission.status)
    BY <1>2, <1>11 DEF EvidenceInv, Sustained, TurnBacked, CarriedBacked, before
  <2>6. /\ ClaimSlots(MissionSlots(d.mission))
        /\ Warrants(MergedFacts(session.facts, before.facts), d.mission.slots, d.mission.status)
    BY <1>4, <2>4, <2>5, DecidedBacked
  <2> QED
    BY <1>2, <1>3, <2>6 DEF CarriedBacked
<1>12. TurnBacked(h)'
  BY <1>2, <1>3, <1>8, <1>11 DEF TurnBacked, CarriedBacked
<1>13. ReturnDecided(h)'
  <2> SUFFICES ASSUME Returning(h)'
               PROVE  /\ MissionTopic \in OpenTopics(before.topics)
                      /\ d.mission.status # "suspended"
    BY <1>2, <1>3 DEF ReturnDecided
  <2>1. Returning(h)
    BY <1>2 DEF Returning, before
  <2>2. /\ before.topics[MissionTopic] = "resumed"
        /\ ~ ThisTurns(h, "suspend")
        /\ mission.status = "suspended" => ThisTurns(h, "resume")
    BY <1>2, <2>1 DEF EvidenceInv, Sustained, ReturnBegun, before
  <2>3. Plain(h)
    BY <2>1 DEF Plain, Returning, SuppressesSlots
  <2>4. \A i \in DOMAIN p : p[i].turn = n => Follows(p[i], mission) /\ p[i].kind # "suspend"
    <3>1. \A i \in DOMAIN p : p[i].turn = n => Follows(p[i], mission)
      BY <1>7, <2>3
    <3>2. \A i \in DOMAIN p : p[i].turn = n => p[i].kind # "suspend"
      BY <2>2 DEF ThisTurns, p, n, before
    <3> QED
      BY <3>1, <3>2
  <2>5. mission.status = "suspended" => \E i \in DOMAIN p : p[i].turn = n /\ p[i].kind = "resume"
    BY <2>2 DEF ThisTurns, p, n, before
  <2>6. d.mission.status # "suspended"
    BY <1>2, <1>3, <1>4, <1>5, <2>4, <2>5, ResumeDecides
  <2>7. MissionTopic \in OpenTopics(before.topics)
    BY <2>2, MaxTurnsAssumption DEF OpenTopics, MissionTopic, Turns
  <2> QED
    BY <2>6, <2>7
<1>14. Sustained(h)'
  BY <1>2, <1>10, <1>12, <1>13 DEF Sustained, ProposalsFit, ReturnBegun
<1>15. ASSUME NEW g \in Handlers, g # h PROVE Sustained(g)'
  BY <1>2, <1>15, SustainedByOthers DEF EvidenceInv
<1>16. OpeningAlone'
  BY <1>2, <1>9 DEF EvidenceInv, OpeningAlone
<1> QED
  BY <1>2, <1>14, <1>15, <1>16 DEF EvidenceInv

-----------------------------------------------------------------------------
\* The mission that opens a conversation claims nothing.
LEMMA NewMissionBacked ==
  ASSUME NEW type \in MissionType, NEW facts
  PROVE  LET mission == NewMission(type)
         IN  /\ IsMission(mission) /\ mission.status = "initialized"
             /\ mission.type = ClaimType => /\ ClaimSlots(MissionSlots(mission))
                                            /\ Warrants(facts, mission.slots, mission.status)
<1>1. /\ IsMission(NewMission(type)) /\ NewMission(type).status = "initialized"
      /\ NewMission(type).slots = NoSlots
      /\ NewMission(type).type = ClaimType => NewMission(type).missing = {"injuries", "user_role"}
  BY DEF NewMission, IsMission, MissionType, NoType, ClaimType
<1> HIDE DEF NewMission
<1>2. ASSUME NewMission(type).type = ClaimType PROVE ClaimSlots(MissionSlots(NewMission(type)))
  BY <1>1, <1>2 DEF MissionSlots, ClaimSlots, NoSlots, FactSlot, Slot
<1>3. Warrants(facts, NoSlots, "initialized")
  BY DEF Warrants, NoSlots, FactSlot, Slot, ClosedSlotState
<1> QED
  BY <1>1, <1>2, <1>3

\* The mission of the opening turn bears nothing out yet, and is not suspended.
LEMMA EvidenceCreates ==
  ASSUME EvidenceInv, DecisionInv', NEW h \in Handlers, CreateMission(h)
  PROVE  EvidenceInv'
<1>1. TypeOK /\ work[h] \in Work /\ work[h].state \in States /\ work[h].opens \in MissionType
  BY DEF EvidenceInv, DecisionInv, TopicInv, TypeOK, Work
<1>2. /\ pc[h] = "begun" /\ pc'[h] = "decided" /\ session' = session /\ turn' = turn
      /\ ~ IsMission(Carried(h).mission)
      /\ \A g \in Handlers : g # h => work'[g] = work[g] /\ pc'[g] = pc[g]
      /\ work'[h].act = work[h].act /\ work'[h].direction = work[h].direction
      /\ Carried(h)'.topics = Carried(h).topics
      /\ Carried(h)'.mission = NewMission(work[h].opens)
  BY <1>1 DEF CreateMission, TypeOK, Work, States, Carried
<1>3. Opened' = Opened
  BY <1>2 DEF Opened
<1>4. ~ Opened
  BY <1>2 DEF EvidenceInv, Sustained, TypeKept, Opened, IsMission
<1>5. /\ IsMission(Carried(h)'.mission) /\ Carried(h)'.mission.status = "initialized"
      /\ CarriedBacked(Carried(h)')
  BY <1>1, <1>2, NewMissionBacked DEF CarriedBacked
<1>6. ReturnDecided(h)'
  <2>1. Returning(h)' => Carried(h).topics[MissionTopic] = "resumed"
    BY <1>2 DEF EvidenceInv, Sustained, ReturnBegun, Returning
  <2> QED
    BY <1>2, <1>5, <2>1, MaxTurnsAssumption DEF ReturnDecided, OpenTopics, MissionTopic, Turns
<1>7. Sustained(h)'
  BY <1>2, <1>3, <1>4, <1>5, <1>6
     DEF Sustained, TypeKept, ProposalsFit, TurnBacked, ReturnBegun
<1>8. ASSUME NEW g \in Handlers, g # h PROVE Sustained(g)'
  BY <1>2, <1>8, SustainedByOthers DEF EvidenceInv
<1>9. OpeningAlone'
  BY <1>2, <1>3 DEF EvidenceInv, OpeningAlone
<1> QED
  BY <1>2, <1>7, <1>8, <1>9 DEF EvidenceInv

\* A commit stores what the turn bears out in a session with the same mission type, or
\* opens the conversation when no other turn is in progress.
LEMMA EvidenceCommits ==
  ASSUME EvidenceInv, DecisionInv', NEW h \in Handlers, CommitTurn(h)
  PROVE  EvidenceInv'
<1> DEFINE done == Carried(h)
<1>1. TypeOK /\ session \in States /\ done \in States
  BY DEF EvidenceInv, DecisionInv, TopicInv, TypeOK, Work, Carried
<1>2. /\ pc[h] = "decided" /\ pc'[h] = "idle"
      /\ session' = StateRecord(MergedSlots(session.slots, MissionSlots(done.mission)),
                                MergedFacts(session.facts, done.facts), done.mission,
                                ProjectedTopics(done.topics, done.mission), session.proposals)
      /\ session'.mission = done.mission
      /\ \A g \in Handlers : g # h => work'[g] = work[g] /\ pc'[g] = pc[g]
  BY <1>1 DEF CommitTurn, TypeOK, Carried, StateRecord
<1>3. /\ IsMission(done.mission) /\ CarriedBacked(done)
      /\ Opened => done.mission.type = session.mission.type
  BY <1>2 DEF EvidenceInv, Sustained, TypeKept, TurnBacked
<1>4. StoredBacked(session)'
  <2>1. StoredBacked(session)
    BY DEF EvidenceInv
  <2>2. done.mission.type = ClaimType => session.mission.type \in {ClaimType, NoType}
    BY <1>3 DEF Opened, IsMission
  <2>3. done.mission.type # NoType
    BY <1>3 DEF IsMission
  <2> HIDE DEF done
  <2>4. StoredBacked(StateRecord(MergedSlots(session.slots, MissionSlots(done.mission)),
                                 MergedFacts(session.facts, done.facts), done.mission,
                                 ProjectedTopics(done.topics, done.mission), session.proposals))
    BY <1>1, <1>3, <2>1, <2>2, <2>3, CommittedBacked
  <2>5. StoredBacked(session')
    BY <1>2, <2>4
  <2> QED
    BY <2>5
<1>5. Opened'
  BY <1>2, <1>3 DEF Opened
<1>6. Sustained(h)'
  BY <1>2 DEF Sustained, TypeKept, ProposalsFit, TurnBacked, ReturnBegun, ReturnDecided
<1>7. ASSUME NEW g \in Handlers, g # h PROVE Sustained(g)'
  <2>1. CASE Opened
    BY <1>2, <1>3, <1>7, <2>1, SustainedByOthers DEF EvidenceInv
  <2>2. CASE ~ Opened
    <3>1. pc[g] = "idle"
      BY <1>2, <1>7, <2>2 DEF EvidenceInv, OpeningAlone
    <3>2. pc'[g] = "idle"
      BY <1>2, <1>7, <3>1
    <3> QED
      BY <3>2 DEF Sustained, TypeKept, ProposalsFit, TurnBacked, ReturnBegun, ReturnDecided
  <2> QED
    BY <2>1, <2>2
<1> QED
  BY <1>4, <1>5, <1>6, <1>7 DEF EvidenceInv, OpeningAlone

\* A turn that fails leaves the session as its beginning made it.
LEMMA EvidenceFails ==
  ASSUME EvidenceInv, DecisionInv', NEW h \in Handlers, FailTurn(h)
  PROVE  EvidenceInv'
<1>1. /\ pc'[h] = "idle" /\ session' = session /\ Opened
      /\ \A g \in Handlers : g # h => work'[g] = work[g] /\ pc'[g] = pc[g]
  BY DEF EvidenceInv, DecisionInv, TopicInv, TypeOK, FailTurn
<1>2. Sustained(h)'
  BY <1>1 DEF Sustained, TypeKept, ProposalsFit, TurnBacked, ReturnBegun, ReturnDecided
<1>3. ASSUME NEW g \in Handlers, g # h PROVE Sustained(g)'
  BY <1>1, <1>3, SustainedByOthers DEF EvidenceInv
<1>4. Opened'
  BY <1>1 DEF Opened
<1> QED
  BY <1>1, <1>2, <1>3, <1>4 DEF EvidenceInv, OpeningAlone

\* Every step keeps the evidence.
LEMMA EvidenceInvStep == EvidenceInv /\ [Next]_vars => EvidenceInv'
<1> SUFFICES ASSUME EvidenceInv, [Next]_vars PROVE EvidenceInv'
  OBVIOUS
<1>1. DecisionInv'
  BY DecisionInvStep DEF EvidenceInv
<1>2. CASE UNCHANGED vars
  <2>1. turn' = turn /\ session' = session /\ pc' = pc /\ work' = work
    BY <1>2 DEF vars
  <2>2. \A h \in Handlers : Sustained(h)'
    BY <2>1, SustainedByOthers DEF EvidenceInv
  <2> QED
    BY <1>1, <2>1, <2>2 DEF EvidenceInv, OpeningAlone, Opened
<1>3. CASE Next
  BY <1>1, <1>3, EvidenceBegins, EvidenceDecides, EvidenceCreates, EvidenceCommits, EvidenceFails
     DEF Next
<1> QED
  BY <1>2, <1>3

\* What a claim takes for answered it remembers, and its progress rests on facts that
\* the session holds.
THEOREM EvidenceStaysBacked == Spec => []EvidenceBacked
<1>1. EvidenceInv => EvidenceBacked
  <2> SUFFICES ASSUME EvidenceInv, session.mission.type = ClaimType
               PROVE  Warrants(session.facts, session.slots, session.mission.status)
    BY DEF EvidenceBacked, Warrants, ClaimType, Status
  <2> QED
    BY DEF EvidenceInv, StoredBacked
<1> QED
  BY <1>1, EvidenceInvInit, EvidenceInvStep, PTL DEF Spec

\* A return to the previous topic, where the mission has one, opens that topic and
\* leaves the mission resumed.
THEOREM ReturnAlwaysResumes == Spec => []ReturnResumes
<1>1. EvidenceInv => ReturnResumes
  BY DEF EvidenceInv, Sustained, ReturnDecided, Returning, ReturnResumes
<1> QED
  BY <1>1, EvidenceInvInit, EvidenceInvStep, PTL DEF Spec

-----------------------------------------------------------------------------
(* With one handler: a closed question of a claim holds the value of its fact,  *)
(* and the status of a mission moves along its lifecycle.                       *)

\* A question is closed exactly when its fact is known, on the fact's own value.
Agree(slots, facts) ==
  \A s \in FactSlot : /\ slots[s] \in ClosedSlotState => slots[s] = facts[s].value
                      /\ s \in Known(facts) => slots[s] \in ClosedSlotState

\* begin_turn keeps the two together.
LEMMA TurnSlotsAgree ==
  ASSUME NEW state \in States, NEW m \in Message, NEW act, NEW n \in Turns,
         Agree(state.slots, state.facts)
  PROVE  Agree(TurnSlots(state, m, act, n), TurnFacts(state, m, act, n))
<1> DEFINE resolved  == ResolveSlots(state, m, act, n)
           closed    == TurnClosed(state, m, act)
           facts     == TurnFacts(state, m, act, n)
           slots     == TurnSlots(state, m, act, n)
           withdrawn == Withdrawn(state.facts, closed, m)
<1> SUFFICES ASSUME NEW s \in FactSlot
             PROVE  /\ slots[s] \in ClosedSlotState => slots[s] = facts[s].value
                    /\ s \in Known(facts) => slots[s] \in ClosedSlotState
  BY DEF Agree
<1>0. /\ s \in FactType /\ s \in Slot /\ state.slots \in [Slot -> SlotState]
      /\ state.facts \in Facts /\ Values(m, s) \subseteq {"yes", "no"}
  BY ValuesType DEF FactSlot, FactType, Slot, States
<1>1. facts[s] = FactAfter(state.facts, closed, state.slots, m, n, s)
  BY <1>0 DEF TurnFacts, FactsAfter
<1>2. CASE s \in withdrawn
  <2>1. "withdrawal" \in m.cues /\ s \notin closed
    BY <1>2 DEF Withdrawn, WithdrawalTargets, LatestFacts
  <2>2. Values(m, s) = {}
    BY <1>0, <2>1, ValuesType
  <2>3. facts[s] = NoFact
    BY <1>1, <1>2, <2>1, <2>2 DEF FactAfter, FactBefore
  <2>4. slots[s] = "pending"
    BY <1>0, <1>2 DEF TurnSlots, SlotsAfterFacts
  <2> QED
    BY <1>0, <2>3, <2>4 DEF Known, NoFact, ClosedSlotState
<1>3. CASE s \notin withdrawn /\ (s \in closed \/ facts[s] # state.facts[s])
  <2>1. slots[s] = facts[s].value
    BY <1>0, <1>3 DEF TurnSlots, SlotsAfterFacts
  <2>2. s \in closed => SlotAnswer(state.slots, m, s) \in ClosedSlotState
    BY DEF TurnClosed, JustClosed
  <2>3. facts[s].value \in ClosedSlotState
    <3> HIDE DEF facts, closed, withdrawn
    <3> QED
      BY <1>0, <1>1, <1>3, <2>2, FactAfterIs DEF FactBefore, ClosedSlotState, withdrawn
  <2> QED
    BY <2>1, <2>3
<1>4. CASE s \notin withdrawn /\ s \notin closed /\ facts[s] = state.facts[s]
  <2>1. slots[s] = resolved.slots[s]
    BY <1>0, <1>4 DEF TurnSlots, SlotsAfterFacts
  <2>2. /\ state.slots[s] \in ClosedSlotState => state.slots[s] = state.facts[s].value
        /\ state.facts[s].value # "none" => state.slots[s] \in ClosedSlotState
    BY <1>0 DEF Agree, Known
  <2>3. \/ resolved.slots[s] = state.slots[s]
        \/ resolved.slots[s] = "partially_filled" /\ state.slots[s] \notin ClosedSlotState
    <3>1. CASE SuppressesSlots(act)
      BY <3>1, ResolvedParts
    <3>2. CASE ~ SuppressesSlots(act)
      <4>1. SlotAnswer(state.slots, m, s) \notin ClosedSlotState
        BY <1>4, <3>2 DEF TurnClosed, JustClosed
      <4>2. resolved.slots[s] = SlotsResolved(state.slots, m)[s]
        BY <3>2, ResolvedParts
      <4>3. SlotAnswer(state.slots, m, s) \in {"none", "unsure"}
        BY <1>0, <4>1, SlotAnswerType DEF ClosedSlotState
      <4>4. SlotAnswer(state.slots, m, s) = "unsure" => state.slots[s] \notin ClosedSlotState
        <5>1. SlotAnswer(state.slots, m, s) = "unsure" => s \in PendingSlots(state.slots)
          BY <1>0, AnsweredArePending
        <5> QED
          BY <5>1 DEF PendingSlots, ClosedSlotState
      <4> QED
        BY <1>0, <4>2, <4>3, <4>4 DEF SlotsResolved
    <3> QED
      BY <3>1, <3>2
  <2> HIDE DEF facts, slots, resolved
  <2> QED
    BY <1>0, <1>4, <2>1, <2>2, <2>3 DEF Known, ClosedSlotState
<1> QED
  BY <1>2, <1>3, <1>4

\* A commit adds no answer to a session when what it projects has none of its own.
LEMMA MergedSlotsAgree ==
  ASSUME NEW slots \in [Slot -> SlotState], NEW facts \in Facts, NEW projected \in [Slot -> SlotState],
         Agree(slots, facts),
         \A s \in FactSlot : projected[s] \in ClosedSlotState => projected[s] = slots[s]
  PROVE  Agree(MergedSlots(slots, projected), facts)
BY DEF Agree, MergedSlots, ClosedSlotState, FactSlot, Slot

LEMMA MergedFactsSame ==
  ASSUME NEW facts \in Facts
  PROVE  MergedFacts(facts, facts) = facts
BY DEF MergedFacts, Facts

-----------------------------------------------------------------------------
\* begin_turn moves the status of a mission along an edge, and never completes it.
LEMMA TurnStatusMoves ==
  ASSUME NEW state \in States, HasOneOpenTopic(state.topics), NEW m \in Message, NEW act,
         NEW active \in ActiveTopics(state.topics), NEW n \in Turns,
         state.mission.status # "completed"
  PROVE  LET status == BegunState(state, m, act, active, n).mission.status
         IN  /\ status # "completed"
             /\ status = state.mission.status \/ status \in MISSION_LIFECYCLE[state.mission.status]
<1> DEFINE resolved == ResolveSlots(state, m, act, n)
           facts    == TurnFacts(state, m, act, n)
           slots    == TurnSlots(state, m, act, n)
           advanced == TurnAdvanced(state, m, act, n)
           mission  == TurnMission(state, m, act, n)
           old      == state.mission.status
           target   == MissionStatusFor(facts, PendingSlots(slots))
<1>1. /\ BegunState(state, m, act, active, n).mission = mission
      /\ advanced \in Mission /\ mission \in Mission /\ resolved.mission \in Mission
  <2>1. /\ BegunState(state, m, act, active, n).mission = mission
        /\ advanced \in Mission /\ mission \in Mission /\ resolved \in States
    BY TurnParts
  <2> HIDE DEF resolved, mission, advanced
  <2> QED
    BY <2>1 DEF States
<1>2. resolved.mission.status = old /\ old \in MissionStatus
  BY <1>1, TurnMissionType DEF Mission
<1>3. advanced.status \in {old, SafeMissionTransition(old, target)}
  BY <1>1, <1>2 DEF TurnAdvanced, AdvancedMission, Mission
<1>4. mission.status \in {advanced.status, "waiting_user"}
  BY <1>1 DEF TurnMission, ClarifiedMission, Mission
<1>5. target \in {"waiting_user", "progressing", "ready_to_progress", "gathering_information"}
  BY DEF MissionStatusFor
<1> HIDE DEF advanced, mission, target, old
<1>6. /\ SafeMissionTransition(old, target) # "completed"
      /\ \/ SafeMissionTransition(old, target) = old
         \/ SafeMissionTransition(old, target) \in MISSION_LIFECYCLE[old]
  BY <1>2, <1>5 DEF SafeMissionTransition, MISSION_LIFECYCLE, MissionStatus, old
<1>7. old = "waiting_user" \/ "waiting_user" \in MISSION_LIFECYCLE[old]
  BY <1>2 DEF MISSION_LIFECYCLE, MissionStatus, old
<1> QED
  BY <1>1, <1>3, <1>4, <1>6, <1>7 DEF old

-----------------------------------------------------------------------------
\* Where a decision may take a status that begin_turn left.
Moves(from, to) ==
  \/ to = from
  \/ from # "suspended" /\ to = "suspended"
  \/ from = "suspended" /\ to \in {"waiting_user", "gathering_information"}

LEMMA MovesAlongEdges ==
  ASSUME NEW from \in MissionStatus, from # "completed", NEW to, Moves(from, to)
  PROVE  to # "completed" /\ (to = from \/ to \in MISSION_LIFECYCLE[from])
BY DEF Moves, MISSION_LIFECYCLE, MissionStatus

\* What the proposals of a turn say of the status the turn has come to. "moved": a
\* rejected answer was reported on the mission as it was before the status moved; then
\* the move was reported too.
Steers(p, n, mission, moved) ==
  p.turn = n =>
    /\ p.kind = "maintain" =>
         IF "status" \in p.changes THEN p.after.status = mission.status
                                   ELSE p.before.status = mission.status \/ moved
    /\ p.id[1] = "advancement" /\ moved => "status" \in p.changes
    /\ p.kind = "resume" => p.after.status \in {"waiting_user", "gathering_information"}
    /\ p.kind # "maintain" => "status" \in p.changes

Steering(n, mission, moved) == {p \in OwnProposals : Steers(p, n, mission, moved)}

LEMMA SlotProposalsSteer ==
  ASSUME NEW mission \in Mission, NEW slots \in [Slot -> SlotState], NEW m \in Message,
         NEW n \in Turns, NEW after, NEW moved \in BOOLEAN,
         moved \/ after.status = mission.status \/ SlotProposals(mission, slots, m, n) = <<>>
  PROVE  SlotProposals(mission, slots, m, n) \in Seq(Steering(n, after, moved))
<1> DEFINE list == SlotProposals(mission, slots, m, n)
<1>1. list \in Seq(OwnProposals)
  BY SlotProposalsType
<1>2. MissionResolved(mission, slots, m).status = mission.status
  BY DEF MissionResolved, Mission
<1>3. \A i \in DOMAIN list :
        /\ list[i].before = MissionResolved(mission, slots, m)
        /\ \/ list[i].kind = "maintain" /\ list[i].changes = {} /\ list[i].id[1] = "slot_rejection"
           \/ list[i].kind = "suspend" /\ list[i].changes = {"status"} /\ list[i].id[1] = "slot_unmatched"
  BY DEF SlotProposals, Proposal
<1>4. list = <<>> => DOMAIN list = {}
  OBVIOUS
<1> HIDE DEF list
<1>5. \A i \in DOMAIN list : list[i] \in Steering(n, after, moved)
  BY <1>1, <1>2, <1>3, <1>4 DEF Steering, Steers, list
<1> QED
  BY <1>1, <1>5 DEF list

LEMMA AdvancementProposalsSteer ==
  ASSUME NEW mission \in Mission, NEW advanced \in Mission, NEW clarified \in Mission,
         NEW n \in Turns, NEW moved \in BOOLEAN,
         moved => clarified # advanced /\ clarified.status # advanced.status
  PROVE  LET list == AdvancementProposals(mission, advanced, clarified, n)
         IN  /\ list \in Seq(Steering(n, clarified, moved))
             /\ moved => \E i \in DOMAIN list : /\ list[i].turn = n
                                                /\ list[i].id[1] = "advancement"
<1> DEFINE list    == AdvancementProposals(mission, advanced, clarified, n)
           before  == IF clarified # advanced THEN advanced ELSE mission
           changes == {f \in DeltaField : clarified[f] # before[f]}
<1>1. list \in Seq(OwnProposals)
  BY AdvancementProposalsType
<1>2. \A i \in DOMAIN list : /\ list[i].before = before /\ list[i].after = clarified
                             /\ list[i].kind = "maintain" /\ list[i].changes = changes
  BY DEF AdvancementProposals, Proposal
<1>3. "status" \in DeltaField
  BY DEF DeltaField
<1>4. "status" \notin changes => before.status = clarified.status
  BY <1>3
<1>5. moved => "status" \in changes
  BY <1>3
<1>6. moved => \E i \in DOMAIN list : list[i].turn = n /\ list[i].id[1] = "advancement"
  <2> SUFFICES ASSUME moved PROVE \E i \in DOMAIN list : list[i].turn = n /\ list[i].id[1] = "advancement"
    OBVIOUS
  <2>1. changes # {}
    BY <1>5
  <2>2. list = <<Proposal("advancement", n, "maintain", 100, before, clarified, changes)>>
    BY <2>1 DEF AdvancementProposals
  <2>3. 1 \in DOMAIN list /\ list[1] = Proposal("advancement", n, "maintain", 100, before, clarified, changes)
    BY <2>2
  <2> HIDE DEF list, before, changes
  <2> QED
    BY <2>3, ProposalFields
<1> HIDE DEF list, before, changes
<1>7. \A i \in DOMAIN list : list[i] \in Steering(n, clarified, moved)
  BY <1>1, <1>2, <1>4, <1>5 DEF Steering, Steers
<1> QED
  BY <1>1, <1>6, <1>7 DEF list

LEMMA TopicProposalsSteer ==
  ASSUME NEW mission \in Mission, NEW active, NEW move, NEW act, NEW n \in Turns,
         NEW moved \in BOOLEAN
  PROVE  TopicProposals(mission, active, move, act, n) \in Seq(Steering(n, mission, moved))
<1> DEFINE list == TopicProposals(mission, active, move, act, n)
           back == IF mission.missing # {} THEN "waiting_user" ELSE "gathering_information"
<1>1. list \in Seq(OwnProposals)
  BY TopicProposalsType
<1>2. [mission EXCEPT !.status = back].status \in {"waiting_user", "gathering_information"}
  BY DEF Mission
<1>3. \A i \in DOMAIN list :
        /\ list[i].changes = {"status"}
        /\ \/ list[i].kind = "suspend"
           \/ list[i].kind = "resume" /\ list[i].after = [mission EXCEPT !.status = back]
  BY DEF TopicProposals, Proposal
<1> HIDE DEF list, back
<1>4. ASSUME NEW i \in DOMAIN list PROVE list[i] \in Steering(n, mission, moved)
  <2>1. list[i] \in OwnProposals
    BY <1>1
  <2>2. list[i].kind = "resume" => list[i].after.status \in {"waiting_user", "gathering_information"}
    BY <1>2, <1>3
  <2> QED
    BY <1>3, <2>1, <2>2 DEF Steering, Steers
<1> QED
  BY <1>1, <1>4 DEF list

\* All proposals of a turn steer by the mission it has come to.
LEMMA BegunSteers ==
  ASSUME NEW state \in States, HasOneOpenTopic(state.topics), NEW m \in Message, NEW act,
         NEW active \in ActiveTopics(state.topics), NEW n \in Turns,
         \A i \in DOMAIN state.proposals : state.proposals[i].turn # n,
         state.mission.type = ClaimType => state.slots["user_need"] = "absent"
  PROVE  LET begun == BegunState(state, m, act, active, n)
         IN  \E moved \in BOOLEAN :
               /\ begun.proposals \in Seq(Steering(n, begun.mission, moved))
               /\ moved => \E i \in DOMAIN begun.proposals :
                             /\ begun.proposals[i].turn = n
                             /\ begun.proposals[i].id[1] = "advancement"
<1> DEFINE resolved == ResolveSlots(state, m, act, n)
           advanced == TurnAdvanced(state, m, act, n)
           mission  == TurnMission(state, m, act, n)
           move     == TurnMove(state, m, act, active, n)
           begun    == BegunState(state, m, act, active, n)
           moved    == state.mission.type # ClaimType /\ mission.status # state.mission.status
           steering == Steering(n, mission, moved)
           advances == AdvancementProposals(resolved.mission, advanced, mission, n)
           moves    == TopicProposals(mission, active, move, act, n)
<1>1. /\ advanced \in Mission /\ mission \in Mission /\ begun.mission = mission
      /\ resolved \in States
      /\ begun.proposals = (resolved.proposals \o advances) \o moves
  BY TurnParts
<1>2. /\ state.mission \in Mission /\ resolved.mission \in Mission
      /\ state.slots \in [Slot -> SlotState] /\ state.proposals \in Seq(OwnProposals)
  BY <1>1 DEF States
<1>3. /\ resolved.mission.type = state.mission.type
      /\ resolved.mission.status = state.mission.status
  BY <1>1, TurnMissionType
<1>4. moved \in BOOLEAN
  OBVIOUS
<1>5. moved => mission # advanced /\ mission.status # advanced.status
  <2>1. state.mission.type # ClaimType => advanced = resolved.mission
    BY <1>3 DEF TurnAdvanced, AdvancedMission, ClaimType
  <2> QED
    BY <1>3, <2>1
<1>6. state.proposals \in Seq(steering)
  <2>1. \A i \in DOMAIN state.proposals : state.proposals[i] \in steering
    BY <1>2 DEF Steering, Steers
  <2> QED
    BY <1>2, <2>1
<1> HIDE DEF mission, advanced, begun, move
<1>7. resolved.proposals \in Seq(steering)
  <2>1. CASE SuppressesSlots(act)
    BY <1>6, <2>1, ResolvedParts
  <2>2. CASE ~ SuppressesSlots(act)
    <3> DEFINE list == SlotProposals(state.mission, state.slots, m, n)
    <3>1. state.mission.type = ClaimType => list = <<>>
      BY <1>2, ClaimNoSlotProposals
    <3>2. list \in Seq(steering)
      <4>1. moved \/ mission.status = state.mission.status \/ list = <<>>
        BY <3>1
      <4> HIDE DEF moved
      <4> QED
        BY <1>2, <1>4, <4>1, SlotProposalsSteer
    <3>3. resolved.proposals = state.proposals \o list
      BY <2>2, ResolvedParts
    <3> HIDE DEF list, steering, resolved
    <3> QED
      BY <1>6, <3>2, <3>3, ConcatProperties
  <2> QED
    BY <2>1, <2>2
<1> HIDE DEF moved
<1>8. /\ advances \in Seq(steering)
      /\ moved => \E i \in DOMAIN advances : /\ advances[i].turn = n
                                             /\ advances[i].id[1] = "advancement"
  <2> HIDE DEF resolved, steering
  <2>1. /\ advances \in Seq(Steering(n, mission, moved))
        /\ moved => \E i \in DOMAIN advances : /\ advances[i].turn = n
                                               /\ advances[i].id[1] = "advancement"
    <3>1. moved => mission # advanced /\ mission.status # advanced.status
      BY <1>5
    <3>2. resolved.mission \in Mission /\ advanced \in Mission /\ mission \in Mission
      BY <1>1, <1>2
    <3>3. ASSUME NEW from \in Mission, NEW to \in Mission, NEW onto \in Mission, NEW mv \in BOOLEAN,
                 mv => onto # to /\ onto.status # to.status
          PROVE  /\ AdvancementProposals(from, to, onto, n) \in Seq(Steering(n, onto, mv))
                 /\ mv => \E i \in DOMAIN AdvancementProposals(from, to, onto, n) :
                            /\ AdvancementProposals(from, to, onto, n)[i].turn = n
                            /\ AdvancementProposals(from, to, onto, n)[i].id[1] = "advancement"
      BY <3>3, AdvancementProposalsSteer
    <3> QED
      BY <1>4, <3>1, <3>2, <3>3
  <2> QED
    BY <2>1 DEF steering
<1>9. moves \in Seq(steering)
  BY <1>1, <1>4, TopicProposalsSteer
<1> HIDE DEF steering, resolved, advances, moves
<1>10. /\ resolved.proposals \o advances \in Seq(steering)
       /\ Len(resolved.proposals \o advances) = Len(resolved.proposals) + Len(advances)
       /\ \A i \in 1..Len(advances) :
            (resolved.proposals \o advances)[i + Len(resolved.proposals)] = advances[i]
  BY <1>7, <1>8, ConcatProperties
<1>11. /\ begun.proposals \in Seq(steering)
       /\ Len(begun.proposals) = Len(resolved.proposals \o advances) + Len(moves)
       /\ \A i \in 1..Len(resolved.proposals \o advances) :
            begun.proposals[i] = (resolved.proposals \o advances)[i]
  BY <1>1, <1>9, <1>10, ConcatProperties
<1>12. moved => \E i \in DOMAIN begun.proposals : /\ begun.proposals[i].turn = n
                                                  /\ begun.proposals[i].id[1] = "advancement"
  <2> SUFFICES ASSUME moved
               PROVE  \E i \in DOMAIN begun.proposals : /\ begun.proposals[i].turn = n
                                                        /\ begun.proposals[i].id[1] = "advancement"
    OBVIOUS
  <2>1. PICK i \in DOMAIN advances : advances[i].turn = n /\ advances[i].id[1] = "advancement"
    BY <1>8
  <2> DEFINE k == i + Len(resolved.proposals)
  <2>2. i \in 1..Len(advances) /\ Len(resolved.proposals) \in Nat /\ Len(advances) \in Nat
        /\ Len(moves) \in Nat
    BY <1>7, <1>8, <1>9
  <2>3. k \in 1..Len(resolved.proposals \o advances) /\ k \in 1..Len(begun.proposals)
    BY <1>10, <1>11, <2>2
  <2>4. begun.proposals[k] = advances[i]
    BY <1>10, <1>11, <2>2, <2>3
  <2>5. k \in DOMAIN begun.proposals
    BY <1>11, <2>3
  <2> QED
    BY <2>1, <2>4, <2>5
<1>13. \E v \in BOOLEAN :
         /\ begun.proposals \in Seq(Steering(n, begun.mission, v))
         /\ v => \E i \in DOMAIN begun.proposals : /\ begun.proposals[i].turn = n
                                                   /\ begun.proposals[i].id[1] = "advancement"
  BY <1>1, <1>4, <1>11, <1>12 DEF steering
<1> QED
  BY <1>13 DEF begun

\* A verdict lets the winner's way only pass where it is legal.
LEMMA LegalVerdict ==
  ASSUME NEW mission, NEW p, NEW candidates, NEW i, p[i].kind \in {"suspend", "resume"},
         Verdict(mission, p, candidates, i).mission # mission
  PROVE  p[i].kind = "suspend" <=> mission.status # "suspended"
BY DEF Verdict, Rejected, IsLegalTransition

\* A decision on proposals that steer moves the status along, at most.
LEMMA SteeredDecision ==
  ASSUME NEW mission \in Mission, NEW n \in Turns, NEW last \in Turns,
         NEW p \in Seq(SoundProposals(last)), NEW moved \in BOOLEAN,
         \A i \in DOMAIN p : Steers(p[i], n, mission, moved),
         moved => \E i \in DOMAIN p : p[i].turn = n /\ p[i].id[1] = "advancement",
         NEW d \in Decisions(mission, p, n)
  PROVE  Moves(mission.status, d.mission.status)
<1> DEFINE candidates == Candidates(p, n)
<1>1. CASE candidates = {}
  BY <1>1 DEF Decisions, Moves
<1>2. CASE candidates # {}
  <2>1. PICK i \in Winners(p, candidates) : d = Verdict(mission, p, candidates, i)
    BY <1>2 DEF Decisions
  <2> DEFINE indices == IF p[i].kind = "maintain" THEN candidates ELSE {i}
             merged  == Merged(p, indices, i)
             status  == MergedField(p, indices, i, "status")
  <2>2. i \in candidates /\ i \in DOMAIN p /\ candidates \in SUBSET DOMAIN p
    BY <2>1, WinnersType
  <2>3. d.mission = mission \/ d.mission = merged
    BY <2>1, VerdictCases
  <2>4. \A j \in DOMAIN p : p[j] \in OwnProposals /\ Sound(p[j]) /\ p[j].before \in Mission
    <3>1. \A j \in DOMAIN p : p[j] \in SoundProposals(last)
      OBVIOUS
    <3> QED
      BY <3>1 DEF SoundProposals, OwnProposals, Proposals
  <2>5. p \in Seq(OwnProposals) /\ indices \in SUBSET DOMAIN p /\ "status" \in DeltaField
    BY <2>2 DEF SoundProposals, DeltaField
  <2>6. merged.status = status
    BY <2>2, <2>4 DEF Merged, Mission
  <2>7. \/ \E j \in indices : "status" \in p[j].changes /\ status = p[j].after["status"]
        \/ (\A j \in indices : "status" \notin p[j].changes) /\ status = p[i].before["status"]
    <3> HIDE DEF indices
    <3> QED
      BY <2>2, <2>5, MergedFieldOrigin
  <2>8. \A j \in candidates : p[j].turn = n /\ Steers(p[j], n, mission, moved)
    BY <2>2, CandidateOfTurn
  <2>9. p[i].kind \in {"maintain", "resume", "suspend"}
    BY <2>2, <2>4 DEF Sound
  <2> HIDE DEF merged, status
  <2>10. CASE p[i].kind = "maintain"
    <3>1. \A j \in candidates : p[j].kind = "maintain"
      <4>1. \A j \in candidates :
               ~ (TRANSITION_PRECEDENCE[p[i].kind] < TRANSITION_PRECEDENCE[p[j].kind])
        BY <2>1, <2>2, <2>4 DEF Winners, TRANSITION_PRECEDENCE, Sound
      <4>2. \A j \in candidates : p[j].kind \in {"maintain", "resume", "suspend"}
        BY <2>2, <2>4 DEF Sound
      <4> QED
        BY <2>10, <4>1, <4>2 DEF TRANSITION_PRECEDENCE
    <3>2. CASE \E j \in indices : "status" \in p[j].changes /\ status = p[j].after["status"]
      <4>1. status = mission.status
        BY <2>8, <2>10, <3>1, <3>2 DEF Steers
      <4> QED
        BY <2>3, <2>6, <4>1 DEF Moves
    <3>3. CASE (\A j \in indices : "status" \notin p[j].changes) /\ status = p[i].before["status"]
      <4>1. ~ moved
        <5> SUFFICES ASSUME moved PROVE FALSE
          OBVIOUS
        <5>1. PICK k \in DOMAIN p : p[k].turn = n /\ p[k].id[1] = "advancement"
          OBVIOUS
        <5>2. PICK j \in candidates : p[j].id = p[k].id
          BY <5>1, CandidateWithId
        <5> QED
          BY <2>8, <2>10, <3>3, <5>1, <5>2 DEF Steers
      <4>2. status = mission.status
        BY <2>2, <2>8, <2>10, <3>3, <4>1 DEF Steers
      <4> QED
        BY <2>3, <2>6, <4>2 DEF Moves
    <3> QED
      BY <2>7, <3>2, <3>3
  <2>11. CASE p[i].kind \in {"suspend", "resume"}
    <3>1. indices = {i}
      BY <2>11
    <3>2. status = p[i].after["status"]
      BY <2>2, <2>7, <2>8, <2>11, <3>1 DEF Steers
    <3>3. p[i].kind = "suspend" => status = "suspended"
      BY <2>2, <2>4, <3>2 DEF Sound
    <3>4. p[i].kind = "resume" => status \in {"waiting_user", "gathering_information"}
      BY <2>2, <2>8, <3>2 DEF Steers
    <3>5. d.mission # mission => (p[i].kind = "suspend" <=> mission.status # "suspended")
      BY <2>1, <2>11, LegalVerdict
    <3> QED
      BY <2>3, <2>6, <2>11, <3>3, <3>4, <3>5 DEF Moves
  <2> QED
    BY <2>9, <2>10, <2>11
<1> QED
  BY <1>1, <1>2

-----------------------------------------------------------------------------
\* The turn has a proposal of that source.
ThisTurnsFrom(h, source) ==
  \E i \in DOMAIN Carried(h).proposals : /\ Carried(h).proposals[i].turn = work[h].turn
                                        /\ Carried(h).proposals[i].id[1] = source

\* What a turn carries when no other turn is in progress: what the session holds, but
\* for the mission it has decided or created.
StepsAlone(h) ==
  /\ pc[h] # "idle" => Carried(h).slots = session.slots /\ Carried(h).facts = session.facts
  /\ pc[h] = "begun" =>
       /\ Carried(h).mission = session.mission
       /\ session.mission.type = ClaimType =>
            /\ session.mission.slots = session.slots
            /\ session.mission.missing = PendingSlots(session.slots)
       /\ \E moved \in BOOLEAN :
            /\ Carried(h).proposals \in Seq(Steering(work[h].turn, session.mission, moved))
            /\ moved => ThisTurnsFrom(h, "advancement")
  /\ pc[h] = "decided" /\ Opened =>
       /\ Moves(session.mission.status, Carried(h).mission.status)
       /\ session.mission.type = ClaimType =>
            /\ Carried(h).mission.slots = session.slots
            /\ Carried(h).mission.missing = PendingSlots(session.slots)
  /\ pc[h] = "decided" /\ ~ Opened => \E type \in MissionType : Carried(h).mission = NewMission(type)

AloneInv ==
  /\ EvidenceInv
  /\ session.mission.status # "completed"
  /\ session.mission.type \in {ClaimType, NoType} => Agree(session.slots, session.facts)
  /\ \A h \in Handlers : StepsAlone(h)

LEMMA AloneInvInit == Init => AloneInv
<1> SUFFICES ASSUME Init PROVE AloneInv
  OBVIOUS
<1>1. /\ session.mission = NoMission /\ session.slots = NoSlots
      /\ session.facts = [f \in FactType |-> NoFact]
  BY DEF Init, NewState, StateRecord
<1>2. session.mission.status # "completed"
  BY <1>1 DEF NoMission
<1>3. Agree(session.slots, session.facts)
  BY <1>1 DEF Agree, NoSlots, NoFact, Known, FactSlot, FactType, Slot, ClosedSlotState
<1>4. \A h \in Handlers : pc[h] = "idle"
  BY DEF Init
<1> QED
  BY <1>2, <1>3, <1>4, EvidenceInvInit DEF AloneInv, StepsAlone

\* begin_turn leaves in the session what the turn carries.
LEMMA AloneBegins ==
  ASSUME OneHandler, AloneInv, EvidenceInv', NEW h \in Handlers, BeginTurn(h)
  PROVE  /\ AloneInv'
         /\ \/ session'.mission.status = session.mission.status
            \/ session'.mission.status \in MISSION_LIFECYCLE[session.mission.status]
<1>1. PICK m \in Messages : \E a \in SelectedActs(session.slots, session.facts, m) :
        \E active \in ActiveTopics(session.topics) : BeginsWith(h, m, a, active)
  BY DEF BeginTurn, BeginTurnWith, BeginsWith
<1>2. PICK a \in SelectedActs(session.slots, session.facts, m) :
        \E active \in ActiveTopics(session.topics) : BeginsWith(h, m, a, active)
  BY <1>1
<1>3. PICK active \in ActiveTopics(session.topics) : BeginsWith(h, m, a, active)
  BY <1>2
<1> DEFINE begun == BegunState(session, m, a.act, active, turn + 1)
           n     == turn + 1
<1>4. /\ m \in Message /\ n \in Turns /\ session \in States /\ turn \in Turns
      /\ HasOneOpenTopic(session.topics) /\ TypeOK
  BY MessagesAssumption, MaxTurnsAssumption
     DEF AloneInv, EvidenceInv, DecisionInv, TopicInv, BeginTurn, BeginTurnWith, TypeOK, Turns,
         OneOpenTopic
<1>5. \A i \in DOMAIN session.proposals : session.proposals[i].turn # n
  <2>1. session.proposals \in Seq(SoundProposals(turn))
    BY DEF AloneInv, EvidenceInv, DecisionInv
  <2>2. \A i \in DOMAIN session.proposals : session.proposals[i].turn \in Turns
                                          /\ session.proposals[i].turn <= turn
    BY <2>1 DEF SoundProposals, OwnProposals, Proposals
  <2> QED
    BY <1>4, <2>2, MaxTurnsAssumption DEF Turns
<1>6. /\ session' = begun /\ work'[h].state = begun /\ work'[h].turn = n /\ pc'[h] = "begun"
  BY <1>3, <1>4 DEF BeginsWith, BeginTurn, BeginTurnWith, TypeOK
<1>7. /\ begun.facts = TurnFacts(session, m, a.act, n) /\ begun.slots = TurnSlots(session, m, a.act, n)
      /\ begun.mission.type = session.mission.type
  <2>1. /\ begun.facts = TurnFacts(session, m, a.act, n)
        /\ begun.slots = TurnSlots(session, m, a.act, n)
        /\ begun.mission = TurnMission(session, m, a.act, n)
        /\ TurnAdvanced(session, m, a.act, n) \in Mission
    BY <1>4, TurnParts
  <2> QED
    BY <1>4, <2>1, TurnMissionType
<1>8. session.mission.type \in {ClaimType, NoType} => Agree(begun.slots, begun.facts)
  BY <1>4, <1>7, TurnSlotsAgree DEF AloneInv
<1>9. /\ begun.mission.status # "completed"
      /\ \/ begun.mission.status = session.mission.status
         \/ begun.mission.status \in MISSION_LIFECYCLE[session.mission.status]
  BY <1>4, TurnStatusMoves DEF AloneInv
<1>10. session.mission.type = ClaimType => /\ begun.mission.slots = begun.slots
                                           /\ begun.mission.missing = PendingSlots(begun.slots)
  BY <1>4, TurnClaimBacked DEF AloneInv, EvidenceInv, StoredBacked
<1>11. \E moved \in BOOLEAN :
         /\ begun.proposals \in Seq(Steering(n, begun.mission, moved))
         /\ moved => \E i \in DOMAIN begun.proposals :
                       /\ begun.proposals[i].turn = n /\ begun.proposals[i].id[1] = "advancement"
  BY <1>4, <1>5, BegunSteers DEF AloneInv, EvidenceInv, StoredBacked
<1> HIDE DEF begun, n
<1>12. StepsAlone(h)'
  BY <1>6, <1>7, <1>10, <1>11 DEF StepsAlone, Carried, ThisTurnsFrom
<1>13. \A g \in Handlers : StepsAlone(g)'
  BY <1>12 DEF OneHandler
<1> QED
  BY <1>6, <1>7, <1>8, <1>9, <1>13 DEF AloneInv

\* A decision moves the status along, and leaves a claim its slots.
LEMMA AloneDecides ==
  ASSUME OneHandler, AloneInv, EvidenceInv', NEW h \in Handlers, DecideMission(h)
  PROVE  AloneInv' /\ session' = session
<1> DEFINE mission == Carried(h).mission
           n       == work[h].turn
           p       == Carried(h).proposals
<1>1. TypeOK /\ TypeOK'
  BY DEF AloneInv, EvidenceInv, DecisionInv, TopicInv
<1>2. /\ pc[h] = "begun" /\ pc'[h] = "decided" /\ IsMission(mission) /\ session' = session
      /\ Carried(h) \in States /\ session \in States /\ n \in Turns
      /\ Carried(h)'.slots = Carried(h).slots
      /\ Carried(h)'.facts = MergedFacts(session.facts, Carried(h).facts)
  BY <1>1, DecidedParts
<1>3. PICK d \in Decisions(mission, p, n) : Carried(h)'.mission = d.mission
  BY <1>1, DecidedParts
<1>4. /\ mission = session.mission /\ Carried(h).slots = session.slots
      /\ Carried(h).facts = session.facts
      /\ session.mission.type = ClaimType =>
           /\ session.mission.slots = session.slots
           /\ session.mission.missing = PendingSlots(session.slots)
  BY <1>2 DEF AloneInv, StepsAlone
<1>5. PICK moved \in BOOLEAN :
         /\ p \in Seq(Steering(n, session.mission, moved))
         /\ moved => ThisTurnsFrom(h, "advancement")
  BY <1>2 DEF AloneInv, StepsAlone
<1>6. mission \in Mission /\ session.facts \in Facts /\ turn \in Turns /\ p \in Seq(SoundProposals(turn))
  BY <1>1, <1>2 DEF AloneInv, EvidenceInv, DecisionInv, TypeOK, States
<1>7. Moves(session.mission.status, d.mission.status)
  <2>1. \A i \in DOMAIN p : Steers(p[i], n, mission, moved)
    <3>1. \A i \in DOMAIN p : p[i] \in Steering(n, session.mission, moved)
      BY <1>5
    <3> QED
      BY <1>4, <3>1 DEF Steering
  <2>2. moved => \E i \in DOMAIN p : p[i].turn = n /\ p[i].id[1] = "advancement"
    BY <1>5 DEF ThisTurnsFrom
  <2> HIDE DEF p, n, mission
  <2>3. Moves(mission.status, d.mission.status)
    BY <1>2, <1>3, <1>6, <2>1, <2>2, SteeredDecision
  <2> QED
    BY <1>4, <2>3
<1>8. session.mission.type = ClaimType => /\ d.mission.slots = session.slots
                                          /\ d.mission.missing = PendingSlots(session.slots)
  BY <1>1, <1>3, <1>4, ClaimDecision DEF AloneInv
<1>9. Opened /\ Opened' = Opened
  BY <1>2, <1>4 DEF Opened
<1>10. Carried(h)'.slots = session'.slots /\ Carried(h)'.facts = session'.facts
  BY <1>2, <1>4, <1>6, MergedFactsSame
<1>11. StepsAlone(h)'
  BY <1>2, <1>3, <1>7, <1>8, <1>9, <1>10 DEF StepsAlone
<1>12. \A g \in Handlers : StepsAlone(g)'
  BY <1>11 DEF OneHandler
<1> QED
  BY <1>2, <1>12 DEF AloneInv

LEMMA AloneCreates ==
  ASSUME OneHandler, AloneInv, EvidenceInv', NEW h \in Handlers, CreateMission(h)
  PROVE  AloneInv' /\ session' = session
<1>1. TypeOK /\ work[h] \in Work /\ work[h].state \in States /\ work[h].opens \in MissionType
      /\ session \in States
  BY DEF AloneInv, EvidenceInv, DecisionInv, TopicInv, TypeOK, Work
<1>2. /\ pc[h] = "begun" /\ pc'[h] = "decided" /\ session' = session
      /\ ~ IsMission(Carried(h).mission)
      /\ Carried(h)'.mission = NewMission(work[h].opens)
      /\ Carried(h)'.slots = Carried(h).slots
      /\ Carried(h)'.facts = MergedFacts(session.facts, Carried(h).facts)
  BY <1>1 DEF CreateMission, TypeOK, Work, States, Carried
<1>3. /\ Carried(h).mission = session.mission /\ Carried(h).slots = session.slots
      /\ Carried(h).facts = session.facts /\ session.facts \in Facts
  BY <1>1, <1>2 DEF AloneInv, StepsAlone, States
<1>4. ~ Opened /\ Opened' = Opened
  BY <1>2, <1>3 DEF Opened
<1>5. Carried(h)'.slots = session'.slots /\ Carried(h)'.facts = session'.facts
  BY <1>2, <1>3, MergedFactsSame
<1>6. StepsAlone(h)'
  BY <1>1, <1>2, <1>4, <1>5 DEF StepsAlone
<1>7. \A g \in Handlers : StepsAlone(g)'
  BY <1>6 DEF OneHandler
<1> QED
  BY <1>2, <1>7 DEF AloneInv

\* A commit stores the slots and facts the session had when the turn ended its beginning.
LEMMA AloneCommits ==
  ASSUME OneHandler, AloneInv, EvidenceInv', NEW h \in Handlers, CommitTurn(h)
  PROVE  /\ AloneInv'
         /\ Opened => Moves(session.mission.status, session'.mission.status)
<1> DEFINE done == Carried(h)
<1>1. TypeOK /\ session \in States /\ done \in States
  BY DEF AloneInv, EvidenceInv, DecisionInv, TopicInv, TypeOK, Work, Carried
<1>2. /\ pc[h] = "decided" /\ pc'[h] = "idle"
      /\ session'.mission = done.mission
      /\ session'.slots = MergedSlots(session.slots, MissionSlots(done.mission))
      /\ session'.facts = MergedFacts(session.facts, done.facts)
  BY <1>1 DEF CommitTurn, TypeOK, Carried, StateRecord
<1>3. /\ done.slots = session.slots /\ done.facts = session.facts
      /\ Opened =>
           /\ Moves(session.mission.status, done.mission.status)
           /\ session.mission.type = ClaimType => done.mission.slots = session.slots
      /\ ~ Opened => \E type \in MissionType : done.mission = NewMission(type)
  BY <1>2 DEF AloneInv, StepsAlone
<1>4. /\ IsMission(done.mission)
      /\ Opened => done.mission.type = session.mission.type
  BY <1>2 DEF AloneInv, EvidenceInv, Sustained, TypeKept
<1>5. session'.mission.status # "completed"
  <2>1. CASE Opened
    <3>1. session.mission.status \in MissionStatus
      BY <1>1 DEF States, Mission
    <3> QED
      BY <1>2, <1>3, <2>1, <3>1, MovesAlongEdges DEF AloneInv
  <2>2. CASE ~ Opened
    BY <1>2, <1>3, <2>2, NewMissionBacked
  <2> QED
    BY <2>1, <2>2
<1>6. session'.facts = session.facts /\ session.facts \in Facts /\ session.slots \in [Slot -> SlotState]
  BY <1>1, <1>2, <1>3, MergedFactsSame DEF States
<1>7. ASSUME done.mission.type = ClaimType PROVE Agree(session'.slots, session'.facts)
  <2>1. session.mission.type \in {ClaimType, NoType}
    BY <1>4, <1>7 DEF Opened, IsMission
  <2>2. Agree(session.slots, session.facts)
    BY <2>1 DEF AloneInv
  <2>3. MissionSlots(done.mission) \in [Slot -> SlotState]
    BY <1>1 DEF MissionSlots, States, Mission, SlotState
  <2>4. \A s \in FactSlot : MissionSlots(done.mission)[s] \in ClosedSlotState =>
                              MissionSlots(done.mission)[s] = done.mission.slots[s]
    BY DEF MissionSlots, ClosedSlotState, FactSlot, Slot
  <2>5. \A s \in FactSlot : MissionSlots(done.mission)[s] \in ClosedSlotState =>
                              MissionSlots(done.mission)[s] = session.slots[s]
    <3>1. CASE Opened
      BY <1>3, <1>4, <1>7, <2>4, <3>1
    <3>2. CASE ~ Opened
      <4>1. done.mission.slots = NoSlots
        <5>1. PICK type \in MissionType : done.mission = NewMission(type)
          BY <1>3, <3>2
        <5> HIDE DEF done
        <5> QED
          BY <5>1 DEF NewMission
      <4>2. \A s \in FactSlot : NoSlots[s] \notin ClosedSlotState
        BY DEF NoSlots, ClosedSlotState, FactSlot, Slot
      <4> QED
        <5> HIDE DEF done
        <5> QED
          BY <2>4, <4>1, <4>2
    <3> QED
      BY <3>1, <3>2
  <2>6. Agree(MergedSlots(session.slots, MissionSlots(done.mission)), session.facts)
    BY <1>6, <2>2, <2>3, <2>5, MergedSlotsAgree
  <2> QED
    BY <1>2, <1>6, <2>6
<1>8. session'.mission.type \in {ClaimType, NoType} => Agree(session'.slots, session'.facts)
  BY <1>2, <1>4, <1>7 DEF IsMission
<1>9. \A g \in Handlers : StepsAlone(g)'
  BY <1>2 DEF OneHandler, StepsAlone
<1> QED
  BY <1>2, <1>3, <1>5, <1>8, <1>9 DEF AloneInv

LEMMA AloneFails ==
  ASSUME OneHandler, AloneInv, EvidenceInv', NEW h \in Handlers, FailTurn(h)
  PROVE  AloneInv' /\ session' = session
<1>1. pc'[h] = "idle" /\ session' = session
  BY DEF AloneInv, EvidenceInv, DecisionInv, TopicInv, TypeOK, FailTurn
<1>2. \A g \in Handlers : StepsAlone(g)'
  BY <1>1 DEF OneHandler, StepsAlone
<1> QED
  BY <1>1, <1>2 DEF AloneInv

LEMMA AloneInvStep ==
  ASSUME OneHandler, AloneInv, [Next]_vars
  PROVE  /\ AloneInv'
         /\ IsMission(session.mission) /\ session'.mission.status # session.mission.status =>
              session'.mission.status \in MISSION_LIFECYCLE[session.mission.status]
<1>1. EvidenceInv'
  BY EvidenceInvStep DEF AloneInv
<1>2. CASE UNCHANGED vars
  <2>1. session' = session /\ pc' = pc /\ work' = work
    BY <1>2 DEF vars
  <2>2. \A h \in Handlers : StepsAlone(h)'
    BY <2>1 DEF AloneInv, StepsAlone, Carried, ThisTurnsFrom, Opened
  <2> QED
    BY <1>1, <2>1, <2>2 DEF AloneInv
<1>3. CASE Next
  <2>1. PICK h \in Handlers : \/ BeginTurn(h)
                              \/ DecideMission(h)
                              \/ CreateMission(h)
                              \/ CommitTurn(h)
                              \/ FailTurn(h)
    BY <1>3 DEF Next
  <2>2. CASE BeginTurn(h)
    BY <1>1, <2>2, AloneBegins
  <2>3. CASE DecideMission(h)
    BY <1>1, <2>3, AloneDecides
  <2>4. CASE CreateMission(h)
    BY <1>1, <2>4, AloneCreates
  <2>5. CASE CommitTurn(h)
    <3>1. AloneInv' /\ (Opened => Moves(session.mission.status, session'.mission.status))
      BY <1>1, <2>5, AloneCommits
    <3>2. session.mission.status \in MissionStatus /\ session.mission.status # "completed"
      BY DEF AloneInv, EvidenceInv, DecisionInv, TopicInv, TypeOK, States, Mission
    <3> QED
      BY <3>1, <3>2, MovesAlongEdges DEF Opened
  <2>6. CASE FailTurn(h)
    BY <1>1, <2>6, AloneFails
  <2> QED
    BY <2>1, <2>2, <2>3, <2>4, <2>5, <2>6
<1> QED
  BY <1>2, <1>3

\* With one handler a closed question of a claim holds the very value of its fact.
THEOREM SlotsAlwaysAgree ==
  ASSUME OneHandler
  PROVE  Spec => []SlotsAgree
<1>1. AloneInv => SlotsAgree
  BY DEF AloneInv, SlotsAgree, Agree, ClaimType
<1>2. AloneInv /\ [Next]_vars => AloneInv'
  BY AloneInvStep
<1> QED
  BY <1>1, <1>2, AloneInvInit, PTL DEF Spec

\* With one handler a stored mission moves along the edges of its lifecycle only, up
\* to three moves a turn and failed turns included.
THEOREM LifecycleAlwaysRespected ==
  ASSUME OneHandler
  PROVE  Spec => LifecycleRespected
<1>1. AloneInv /\ [Next]_vars => AloneInv'
  BY AloneInvStep
<1>2. AloneInv /\ [Next]_vars =>
        [IsMission(session.mission) /\ Status # session'.mission.status =>
           session'.mission.status \in MISSION_LIFECYCLE[Status]]_vars
  BY AloneInvStep DEF Status
<1> QED
  BY <1>1, <1>2, AloneInvInit, PTL DEF Spec, LifecycleRespected

-----------------------------------------------------------------------------
\* No recogniser answers the open question of what the user needs: where its slot is
\* kept, it is pending or not there at all.
NeedOpen(slots) == slots["user_need"] \in {"absent", "pending"}

NeedProposals == {p \in OwnProposals : NeedOpen(p.before.slots) /\ NeedOpen(p.after.slots)}

NeedState(state) ==
  NeedOpen(state.slots) /\ NeedOpen(state.mission.slots) /\ state.proposals \in Seq(NeedProposals)

LEMMA NeedProposal ==
  ASSUME NEW p \in OwnProposals, NeedOpen(p.before.slots), NeedOpen(p.after.slots)
  PROVE  p \in NeedProposals
BY DEF NeedProposals

LEMMA NeedUnanswered ==
  ASSUME NEW slots, NEW m
  PROVE  SlotAnswer(slots, m, "user_need") = "none"
BY DEF SlotAnswer, ExplicitMatches, ExplicitAnswer, FactSlot

LEMMA NeedResolved ==
  ASSUME NEW mission \in Mission, NEW slots \in [Slot -> SlotState], NEW m \in Message,
         NeedOpen(slots), NeedOpen(mission.slots)
  PROVE  /\ NeedOpen(SlotsResolved(slots, m))
         /\ NeedOpen(MissionResolved(mission, slots, m).slots)
<1>1. NeedOpen(SlotsResolved(slots, m))
  <2>1. SlotAnswer(slots, m, "user_need") = "none" /\ "user_need" \in Slot
    BY NeedUnanswered DEF Slot
  <2>2. SlotsResolved(slots, m)["user_need"] = slots["user_need"]
    BY <2>1 DEF SlotsResolved
  <2> QED
    BY <2>2 DEF NeedOpen
<1>2. MissionResolved(mission, slots, m).slots \in {mission.slots, SlotsResolved(slots, m)}
  BY DEF MissionResolved, Mission
<1> QED
  BY <1>1, <1>2

LEMMA SlotProposalsNeed ==
  ASSUME NEW mission \in Mission, NEW slots \in [Slot -> SlotState], NEW m \in Message,
         NEW n \in Turns, NeedOpen(slots), NeedOpen(mission.slots)
  PROVE  SlotProposals(mission, slots, m, n) \in Seq(NeedProposals)
<1> DEFINE list   == SlotProposals(mission, slots, m, n)
           before == MissionResolved(mission, slots, m)
<1>1. list \in Seq(OwnProposals) /\ before \in Mission
  BY SlotProposalsType, MissionResolvedType
<1>2. NeedOpen(before.slots)
  BY NeedResolved
<1> DEFINE held == [before EXCEPT !.status = "suspended"]
<1> HIDE DEF before, held
<1>3. \A i \in DOMAIN list : list[i].before = before /\ list[i].after \in {before, held}
  <2>1. \/ list = <<>>
        \/ list = <<Proposal("slot_rejection", n, "maintain", 100, before, before, {})>>
        \/ list = <<Proposal("slot_unmatched", n, "suspend", 100, before, held, {"status"})>>
    BY Zenon DEF SlotProposals, before, held
  <2> QED
    BY <2>1 DEF Proposal
<1>4. held.slots = before.slots
  BY <1>1 DEF Mission, held
<1> HIDE DEF list
<1>5. \A i \in DOMAIN list : list[i] \in NeedProposals
  BY <1>1, <1>2, <1>3, <1>4, NeedProposal
<1> QED
  BY <1>1, <1>5 DEF list

LEMMA AdvancementProposalsNeed ==
  ASSUME NEW mission \in Mission, NEW advanced \in Mission, NEW clarified \in Mission,
         NEW n \in Turns, NeedOpen(mission.slots), NeedOpen(advanced.slots),
         NeedOpen(clarified.slots)
  PROVE  AdvancementProposals(mission, advanced, clarified, n) \in Seq(NeedProposals)
<1> DEFINE list == AdvancementProposals(mission, advanced, clarified, n)
<1>1. list \in Seq(OwnProposals)
  BY AdvancementProposalsType
<1>2. \A i \in DOMAIN list : list[i].before \in {mission, advanced} /\ list[i].after = clarified
  BY DEF AdvancementProposals, Proposal
<1> HIDE DEF list
<1>3. \A i \in DOMAIN list : list[i] \in NeedProposals
  BY <1>1, <1>2, NeedProposal
<1> QED
  BY <1>1, <1>3 DEF list

LEMMA TopicProposalsNeed ==
  ASSUME NEW mission \in Mission, NEW active, NEW move, NEW act, NEW n \in Turns,
         NeedOpen(mission.slots)
  PROVE  TopicProposals(mission, active, move, act, n) \in Seq(NeedProposals)
<1> DEFINE list == TopicProposals(mission, active, move, act, n)
           back == IF mission.missing # {} THEN "waiting_user" ELSE "gathering_information"
<1>1. list \in Seq(OwnProposals)
  BY TopicProposalsType
<1> DEFINE open == [mission EXCEPT !.status = back]
           held == [mission EXCEPT !.status = "suspended"]
<1> HIDE DEF back
<1>2. open.slots = mission.slots /\ held.slots = mission.slots
  BY DEF Mission
<1> HIDE DEF open, held
<1>3. \A i \in DOMAIN list : list[i].before = mission /\ list[i].after \in {open, held}
  <2> DEFINE confidence == ActConfidence(act)
  <2>1. \/ list = <<>>
        \/ list = <<Proposal("topic_resume", n, "resume", confidence, mission, open, {"status"})>>
        \/ list = <<Proposal("topic_suspend", n, "suspend", confidence, mission, held, {"status"})>>
    BY Zenon DEF TopicProposals, open, held, back
  <2> HIDE DEF confidence
  <2> QED
    BY <2>1 DEF Proposal
<1> HIDE DEF list
<1>4. \A i \in DOMAIN list : list[i] \in NeedProposals
  BY <1>1, <1>2, <1>3, NeedProposal
<1> QED
  BY <1>1, <1>4 DEF list

\* begin_turn leaves the question open.
LEMMA BegunNeed ==
  ASSUME NEW state \in States, HasOneOpenTopic(state.topics), NEW m \in Message, NEW act,
         NEW active \in ActiveTopics(state.topics), NEW n \in Turns, NeedState(state)
  PROVE  NeedState(BegunState(state, m, act, active, n))
<1> DEFINE resolved == ResolveSlots(state, m, act, n)
           advanced == TurnAdvanced(state, m, act, n)
           mission  == TurnMission(state, m, act, n)
           slots    == TurnSlots(state, m, act, n)
           move     == TurnMove(state, m, act, active, n)
           begun    == BegunState(state, m, act, active, n)
           advances == AdvancementProposals(resolved.mission, advanced, mission, n)
           moves    == TopicProposals(mission, active, move, act, n)
<1>1. /\ advanced \in Mission /\ mission \in Mission /\ begun.mission = mission
      /\ resolved \in States /\ begun.slots = slots
      /\ begun.proposals = (resolved.proposals \o advances) \o moves
  BY TurnParts
<1>2. /\ state.mission \in Mission /\ resolved.mission \in Mission
      /\ state.slots \in [Slot -> SlotState]
      /\ NeedOpen(state.slots) /\ NeedOpen(state.mission.slots)
      /\ state.proposals \in Seq(NeedProposals)
  BY <1>1 DEF States, NeedState
<1>3. /\ NeedOpen(resolved.slots) /\ NeedOpen(resolved.mission.slots)
      /\ resolved.proposals \in Seq(NeedProposals)
  <2>1. CASE SuppressesSlots(act)
    BY <1>2, <2>1, ResolvedParts
  <2>2. CASE ~ SuppressesSlots(act)
    <3> DEFINE list == SlotProposals(state.mission, state.slots, m, n)
    <3>1. /\ resolved.slots = SlotsResolved(state.slots, m)
          /\ resolved.mission = MissionResolved(state.mission, state.slots, m)
          /\ resolved.proposals = state.proposals \o list
      BY <2>2, ResolvedParts
    <3>2. list \in Seq(NeedProposals)
      BY <1>2, SlotProposalsNeed
    <3>3. NeedOpen(resolved.slots) /\ NeedOpen(resolved.mission.slots)
      BY <1>2, <3>1, NeedResolved
    <3> HIDE DEF list, resolved
    <3> QED
      BY <1>2, <3>1, <3>2, <3>3, ConcatProperties
  <2> QED
    BY <2>1, <2>2
<1>4. NeedOpen(slots)
  BY <1>3 DEF TurnSlots, SlotsAfterFacts, NeedOpen, FactSlot, Slot
<1>5. NeedOpen(advanced.slots)
  <2>1. advanced.slots \in {resolved.mission.slots, slots}
    BY <1>2 DEF TurnAdvanced, AdvancedMission, Mission
  <2> QED
    BY <1>3, <1>4, <2>1
<1>6. NeedOpen(mission.slots)
  <2>1. mission.slots = advanced.slots
    BY <1>1 DEF TurnMission, ClarifiedMission, Mission
  <2> QED
    BY <1>5, <2>1
<1> HIDE DEF mission, advanced, begun, move, slots
<1>7. advances \in Seq(NeedProposals)
  BY <1>1, <1>2, <1>3, <1>5, <1>6, AdvancementProposalsNeed
<1>8. moves \in Seq(NeedProposals)
  BY <1>1, <1>6, TopicProposalsNeed
<1> HIDE DEF resolved, advances, moves
<1>9. resolved.proposals \o advances \in Seq(NeedProposals)
  BY <1>3, <1>7, ConcatProperties
<1>10. begun.proposals \in Seq(NeedProposals)
  BY <1>1, <1>8, <1>9, ConcatProperties
<1>11. NeedState(begun)
  BY <1>1, <1>4, <1>6, <1>10 DEF NeedState
<1> QED
  BY <1>11 DEF begun

\* Decisions keep it open.
LEMMA DecisionNeed ==
  ASSUME NEW mission \in Mission, NEW n \in Turns, NEW last \in Turns,
         NEW p \in Seq(SoundProposals(last)), p \in Seq(NeedProposals), NeedOpen(mission.slots),
         NEW d \in Decisions(mission, p, n)
  PROVE  NeedOpen(d.mission.slots)
<1> DEFINE candidates == Candidates(p, n)
<1>1. CASE candidates = {}
  BY <1>1 DEF Decisions
<1>2. CASE candidates # {}
  <2>1. PICK i \in Winners(p, candidates) : d = Verdict(mission, p, candidates, i)
    BY <1>2 DEF Decisions
  <2> DEFINE indices == IF p[i].kind = "maintain" THEN candidates ELSE {i}
             merged  == Merged(p, indices, i)
             slots   == MergedField(p, indices, i, "slots")
  <2>2. i \in candidates /\ i \in DOMAIN p /\ candidates \in SUBSET DOMAIN p
    BY <2>1, WinnersType
  <2>3. d.mission = mission \/ d.mission = merged
    BY <2>1, VerdictCases
  <2>4. \A j \in DOMAIN p : /\ p[j] \in NeedProposals /\ p[j].before \in Mission
                            /\ NeedOpen(p[j].before["slots"]) /\ NeedOpen(p[j].after["slots"])
    <3>1. \A j \in DOMAIN p : p[j] \in NeedProposals
      OBVIOUS
    <3> QED
      BY <3>1 DEF NeedProposals, OwnProposals, Proposals
  <2>5. p \in Seq(OwnProposals) /\ indices \in SUBSET DOMAIN p /\ "slots" \in DeltaField
    BY <2>2 DEF SoundProposals, DeltaField
  <2>6. merged.slots = slots
    BY <2>2, <2>4 DEF Merged, Mission
  <2>7. \/ \E j \in indices : "slots" \in p[j].changes /\ slots = p[j].after["slots"]
        \/ slots = p[i].before["slots"]
    <3> HIDE DEF indices
    <3> QED
      BY <2>2, <2>5, MergedFieldOrigin
  <2>8. NeedOpen(slots)
    <3> HIDE DEF slots, indices
    <3> QED
      BY <2>2, <2>4, <2>5, <2>7
  <2> HIDE DEF merged, slots
  <2> QED
    BY <2>3, <2>6, <2>8
<1> QED
  BY <1>1, <1>2

NeedInv ==
  NeedState(session) /\ \A h \in Handlers : NeedState(Carried(h))

LEMMA NeedInvInit == Init => NeedInv
<1> SUFFICES ASSUME Init PROVE NeedInv
  OBVIOUS
<1>1. NeedState(NewState)
  <2>1. NewState.slots = NoSlots /\ NewState.mission = NoMission /\ NewState.proposals = <<>>
    BY DEF NewState, StateRecord
  <2>2. NoMission.slots = NoSlots
    BY DEF NoMission
  <2>3. NeedOpen(NoSlots)
    BY DEF NeedOpen, NoSlots, Slot
  <2> QED
    BY <2>1, <2>2, <2>3 DEF NeedState
<1>2. session = NewState /\ \A h \in Handlers : work[h].state = NewState
  BY DEF Init, Idle
<1> QED
  BY <1>1, <1>2 DEF NeedInv, Carried

LEMMA NeedInvStep == EvidenceInv /\ NeedInv /\ EvidenceInv' /\ [Next]_vars => NeedInv'
<1> SUFFICES ASSUME EvidenceInv, NeedInv, EvidenceInv', [Next]_vars PROVE NeedInv'
  OBVIOUS
<1>1. TypeOK /\ TypeOK' /\ session \in States /\ turn \in Turns
  BY DEF EvidenceInv, DecisionInv, TopicInv, TypeOK
<1>2. CASE UNCHANGED vars
  BY <1>2 DEF vars, NeedInv, Carried
<1>3. ASSUME NEW h \in Handlers, NeedState(Carried(h))', NeedState(session'),
             \A g \in Handlers : g # h => work'[g] = work[g]
      PROVE  NeedInv'
  BY <1>3 DEF NeedInv, Carried
<1>4. ASSUME NEW h \in Handlers, BeginTurn(h) PROVE NeedInv'
  <2>1. PICK m \in Messages : \E a \in SelectedActs(session.slots, session.facts, m) :
          \E active \in ActiveTopics(session.topics) : BeginsWith(h, m, a, active)
    BY <1>4 DEF BeginTurn, BeginTurnWith, BeginsWith
  <2>2. PICK a \in SelectedActs(session.slots, session.facts, m) :
          \E active \in ActiveTopics(session.topics) : BeginsWith(h, m, a, active)
    BY <2>1
  <2>3. PICK active \in ActiveTopics(session.topics) : BeginsWith(h, m, a, active)
    BY <2>2
  <2> DEFINE begun == BegunState(session, m, a.act, active, turn + 1)
  <2>4. m \in Message /\ turn + 1 \in Turns /\ HasOneOpenTopic(session.topics)
    BY <1>1, <1>4, MessagesAssumption, MaxTurnsAssumption
       DEF EvidenceInv, DecisionInv, TopicInv, BeginTurn, BeginTurnWith, Turns, OneOpenTopic
  <2>5. /\ session' = begun /\ work'[h].state = begun
        /\ \A g \in Handlers : g # h => work'[g] = work[g]
    BY <1>1, <2>3 DEF BeginsWith, TypeOK
  <2>6. NeedState(begun)
    BY <1>1, <2>4, BegunNeed DEF NeedInv
  <2> QED
    BY <1>3, <2>5, <2>6 DEF Carried
<1>5. ASSUME NEW h \in Handlers, DecideMission(h) PROVE NeedInv'
  <2> DEFINE mission == Carried(h).mission
             n       == work[h].turn
             p       == Carried(h).proposals
  <2>1. /\ session' = session /\ Carried(h) \in States /\ Carried(h)' \in States /\ n \in Turns
        /\ Carried(h)'.slots = Carried(h).slots
        /\ Carried(h)'.proposals = p
        /\ \A g \in Handlers : g # h => work'[g] = work[g]
    BY <1>1, <1>5, DecidedParts
  <2>2. PICK d \in Decisions(mission, p, n) : Carried(h)'.mission = d.mission
    BY <1>1, <1>5, DecidedParts
  <2>3. pc[h] = "begun"
    BY <1>5 DEF DecideMission
  <2>4. /\ mission \in Mission /\ p \in Seq(SoundProposals(turn)) /\ NeedState(Carried(h))
    BY <2>1, <2>3 DEF EvidenceInv, DecisionInv, NeedInv, States
  <2>5. NeedOpen(d.mission.slots)
    BY <1>1, <2>1, <2>2, <2>4, DecisionNeed DEF NeedState
  <2>6. NeedState(Carried(h)')
    BY <2>1, <2>2, <2>4, <2>5 DEF NeedState
  <2> QED
    BY <1>3, <2>1, <2>6 DEF NeedInv
<1>6. ASSUME NEW h \in Handlers, CreateMission(h) PROVE NeedInv'
  <2>1. work[h] \in Work /\ work[h].state \in States
    BY <1>1 DEF TypeOK, Work
  <2>2. /\ session' = session
        /\ Carried(h)'.mission = NewMission(work[h].opens)
        /\ Carried(h)'.slots = Carried(h).slots /\ Carried(h)'.proposals = Carried(h).proposals
        /\ \A g \in Handlers : g # h => work'[g] = work[g]
    BY <1>1, <1>6, <2>1 DEF CreateMission, TypeOK, Work, States, Carried
  <2>3. NeedOpen(NewMission(work[h].opens).slots)
    BY DEF NewMission, NeedOpen, NoSlots, Slot
  <2>4. NeedState(Carried(h)')
    BY <2>2, <2>3 DEF NeedState, NeedInv
  <2> QED
    BY <1>3, <2>2, <2>4 DEF NeedInv
<1>7. ASSUME NEW h \in Handlers, CommitTurn(h) PROVE NeedInv'
  <2> DEFINE done == Carried(h)
  <2>1. /\ session'.mission = done.mission
        /\ session'.slots = MergedSlots(session.slots, MissionSlots(done.mission))
        /\ session'.proposals = session.proposals
        /\ work'[h] = Idle
        /\ \A g \in Handlers : g # h => work'[g] = work[g]
    BY <1>1, <1>7 DEF CommitTurn, TypeOK, Carried, StateRecord
  <2>2. NeedOpen(MissionSlots(done.mission))
    BY DEF NeedInv, NeedState, NeedOpen, MissionSlots, Slot
  <2>3. NeedOpen(session'.slots)
    BY <2>1, <2>2 DEF NeedInv, NeedState, NeedOpen, MergedSlots, Slot
  <2>4. NeedState(session')
    BY <2>1, <2>3 DEF NeedState, NeedInv
  <2>5. NeedState(Idle.state)
    <3>1. /\ Idle.state.slots = NoSlots /\ Idle.state.mission = NoMission
          /\ Idle.state.proposals = <<>>
      BY DEF Idle, NewState, StateRecord
    <3> QED
      BY <3>1 DEF NeedState, NeedOpen, NoMission, NoSlots, Slot
  <2> QED
    BY <1>3, <2>1, <2>4, <2>5 DEF Carried
<1>8. ASSUME NEW h \in Handlers, FailTurn(h) PROVE NeedInv'
  <2>1. /\ session' = session /\ work'[h] = Idle
        /\ \A g \in Handlers : g # h => work'[g] = work[g]
    BY <1>1, <1>8 DEF FailTurn, TypeOK
  <2>2. NeedState(Idle.state)
    <3>1. /\ Idle.state.slots = NoSlots /\ Idle.state.mission = NoMission
          /\ Idle.state.proposals = <<>>
      BY DEF Idle, NewState, StateRecord
    <3> QED
      BY <3>1 DEF NeedState, NeedOpen, NoMission, NoSlots, Slot
  <2> QED
    BY <1>3, <2>1, <2>2 DEF NeedInv, Carried
<1>9. CASE Next
  BY <1>4, <1>5, <1>6, <1>7, <1>8, <1>9 DEF Next
<1> QED
  BY <1>2, <1>9

-----------------------------------------------------------------------------
\* Planned turns are turns: what is invariant under the steps of a conversation is
\* invariant under those of a planned one.
LEMMA PlannedBegins ==
  ASSUME NEW h \in Handlers, BeginPlannedTurn(h, Sayings)
  PROVE  BeginTurn(h)
<1>1. PICK s \in Sayings : BeginTurnWith(h, {s.message})
  BY DEF BeginPlannedTurn
<1>2. s.message \in Messages
  BY SayingsAssumption
<1> QED
  BY <1>1, <1>2 DEF BeginTurn, BeginTurnWith

LEMMA PlannedStep == [PlanNext]_planVars => [Next]_vars
<1> SUFFICES ASSUME [PlanNext]_planVars PROVE [Next]_vars
  OBVIOUS
<1>1. CASE UNCHANGED planVars
  BY <1>1 DEF planVars
<1>2. CASE PlanNext
  <2>1. PICK h \in Handlers : \/ BeginPlannedTurn(h, Sayings)
                              \/ DecideAndPlan(h)
                              \/ CreateAndPlan(h)
                              \/ FinishPlannedTurn(h)
                              \/ FailPlannedTurn(h)
    BY <1>2 DEF PlanNext
  <2>2. BeginPlannedTurn(h, Sayings) => BeginTurn(h)
    BY PlannedBegins
  <2>3. /\ DecideAndPlan(h) => DecideMission(h)
        /\ CreateAndPlan(h) => CreateMission(h)
        /\ FinishPlannedTurn(h) => CommitTurn(h)
        /\ FailPlannedTurn(h) => FailTurn(h)
    BY DEF DecideAndPlan, CreateAndPlan, FinishPlannedTurn, FailPlannedTurn
  <2>4. Next
    BY <2>1, <2>2, <2>3 DEF Next
  <2> QED
    BY <2>4
<1> QED
  BY <1>1, <1>2

\* What is proved of the turns holds of the turns that also plan: planning only
\* adds to what the steps of a turn do.
THEOREM PlannedTurnsAreTurns == PlanSpec => Spec
<1>1. PlanInit => Init
  BY DEF PlanInit
<1> QED
  BY <1>1, PlannedStep, PTL DEF PlanSpec, Spec

LEMMA PlannedEvidence == PlanSpec => []EvidenceInv
<1>1. PlanInit => EvidenceInv
  BY EvidenceInvInit DEF PlanInit
<1>2. EvidenceInv /\ [PlanNext]_planVars => EvidenceInv'
  BY PlannedStep, EvidenceInvStep
<1> QED
  BY <1>1, <1>2, PTL DEF PlanSpec

\* What a message that is begun comes to, with the traces it leaves.
PlannedWith(h, s, a, active) ==
  LET m     == s.message
      begun == BegunState(session, m, a.act, active, turn + 1)
  IN  /\ s \in Sayings /\ a \in SelectedActs(session.slots, session.facts, m)
      /\ active \in ActiveTopics(session.topics)
      /\ session' = begun /\ work'[h].state = begun /\ work'[h].act = a.act
      /\ work'[h].turn = turn + 1
      /\ heard'.saying = s
      /\ heard'.slots = session.slots /\ heard'.facts = session.facts
      /\ heard'.resolved = (/\ ~ SuppressesSlots(a.act)
                            /\ \/ Answered(session.slots, m) # {}
                               \/ RepeatedAnswer(session.slots, m))
      /\ heard'.assimilated =
           (\/ TurnClosed(session, m, a.act) # {}
            \/ \E f \in FactType :
                 Assimilates(m, f, KnownBefore(session.facts, session.slots,
                                               TurnClosed(session, m, a.act), m, f)))
      /\ agenda' = AgendaAfter(agenda, begun.mission, begun.facts,
                               AmbiguousWithdrawal(session.facts, TurnClosed(session, m, a.act), m))
      /\ heard'.strategy = Strategy(a.act, agenda'.nextAct, RequiresClarification(session.facts, m))

LEMMA PlannedTraces ==
  ASSUME TypeOK, NEW h \in Handlers, BeginPlannedTurn(h, Sayings)
  PROVE  \E s, a, active : PlannedWith(h, s, a, active)
<1> DEFINE its          == work'[h].act
           carried      == work'[h].state
           shutBy(s)    == IF SuppressesSlots(its) THEN {} ELSE JustClosed(session.slots, s.message)
           knew(s, f)   == KnownBefore(session.facts, session.slots, shutBy(s), s.message, f)
           after(s)     == AgendaAfter(agenda, carried.mission, carried.facts,
                                       AmbiguousWithdrawal(session.facts, shutBy(s), s.message))
           before(s)    == ResolveSlots(session, s.message, its, turn').mission
           settled(s)   == ~SuppressesSlots(its) /\ \/ Answered(session.slots, s.message) # {}
                                                    \/ RepeatedAnswer(session.slots, s.message)
           taken(s)     == shutBy(s) # {} \/ \E f \in FactType :
                                                Assimilates(s.message, f, knew(s, f))
           revises(s)   == "withdrawal" \in s.message.cues \/ \E f \in FactType :
                                                Revises(s.message, f, knew(s, f))
           chosen(s)    == Strategy(its, after(s).nextAct, RequiresClarification(session.facts, s.message))
<1>1. PICK s \in Sayings :
        /\ BeginTurnWith(h, {s.message})
        /\ agenda' = after(s)
        /\ heard' = [saying |-> s, resolved |-> settled(s), assimilated |-> taken(s),
                     revised |-> revises(s), advanced |-> before(s) # carried.mission \/ after(s) # agenda,
                     strategy |-> chosen(s), slots |-> session.slots, facts |-> session.facts]
  BY Zenon DEF BeginPlannedTurn
<1> HIDE DEF settled, taken, revises, chosen, after, before
<1>2. /\ heard'.saying = s /\ heard'.resolved = settled(s) /\ heard'.assimilated = taken(s)
      /\ heard'.strategy = chosen(s) /\ heard'.slots = session.slots /\ heard'.facts = session.facts
  BY <1>1
<1> DEFINE m == s.message
           carries(b, a) == [turn |-> turn + 1, act |-> a.act, direction |-> m.direction,
                             opens |-> m.opens, state |-> b, decision |-> NoDecision]
<1>3. \E a \in SelectedActs(session.slots, session.facts, m) :
      \E active \in ActiveTopics(session.topics) :
         /\ session' = BegunState(session, m, a.act, active, turn + 1)
         /\ work' = [work EXCEPT ![h] = carries(BegunState(session, m, a.act, active, turn + 1), a)]
  BY <1>1, Zenon DEF BeginTurnWith
<1>4. PICK a \in SelectedActs(session.slots, session.facts, m) :
      \E active \in ActiveTopics(session.topics) :
         /\ session' = BegunState(session, m, a.act, active, turn + 1)
         /\ work' = [work EXCEPT ![h] = carries(BegunState(session, m, a.act, active, turn + 1), a)]
  BY <1>3
<1>5. PICK active \in ActiveTopics(session.topics) :
         /\ session' = BegunState(session, m, a.act, active, turn + 1)
         /\ work' = [work EXCEPT ![h] = carries(BegunState(session, m, a.act, active, turn + 1), a)]
  BY <1>4
<1>6. work'[h] = carries(BegunState(session, m, a.act, active, turn + 1), a)
  <2> HIDE DEF carries
  <2> QED
    BY <1>5 DEF TypeOK
<1>7. /\ work'[h].state = session' /\ work'[h].act = a.act /\ work'[h].turn = turn + 1
  BY <1>5, <1>6
<1>8. /\ shutBy(s) = TurnClosed(session, m, a.act)
      /\ after(s) = AgendaAfter(agenda, session'.mission, session'.facts,
                                AmbiguousWithdrawal(session.facts, TurnClosed(session, m, a.act), m))
  BY <1>7 DEF TurnClosed, after
<1> DEFINE shut == TurnClosed(session, m, a.act)
<1>9. heard'.resolved = (/\ ~ SuppressesSlots(a.act)
                         /\ \/ Answered(session.slots, m) # {}
                            \/ RepeatedAnswer(session.slots, m))
  BY <1>2, <1>7 DEF settled
<1>10. heard'.assimilated =
         (\/ shut # {}
          \/ \E f \in FactType :
               Assimilates(m, f, KnownBefore(session.facts, session.slots, shut, m, f)))
  BY <1>2, <1>8 DEF taken
<1>11. heard'.strategy = Strategy(a.act, agenda'.nextAct, RequiresClarification(session.facts, m))
  BY <1>1, <1>2, <1>7 DEF chosen
<1> HIDE DEF shutBy, knew, its, carried
<1> QED
  BY <1>1, <1>2, <1>4, <1>5, <1>7, <1>8, <1>9, <1>10, <1>11, Zenon DEF PlannedWith

\* Only begin_turn begins a turn.
LEMMA PlannedBeginning ==
  ASSUME TypeOK, NEW h \in Handlers, pc[h] = "idle", pc'[h] = "begun", [PlanNext]_planVars
  PROVE  BeginPlannedTurn(h, Sayings)
<1>1. PlanNext
  BY DEF planVars, vars
<1>2. PICK g \in Handlers : \/ BeginPlannedTurn(g, Sayings)
                            \/ DecideAndPlan(g)
                            \/ CreateAndPlan(g)
                            \/ FinishPlannedTurn(g)
                            \/ FailPlannedTurn(g)
  BY <1>1 DEF PlanNext
<1>3. /\ DecideAndPlan(g) => pc' = [pc EXCEPT ![g] = "decided"]
      /\ CreateAndPlan(g) => pc' = [pc EXCEPT ![g] = "decided"]
      /\ FinishPlannedTurn(g) => pc' = [pc EXCEPT ![g] = "idle"]
      /\ FailPlannedTurn(g) => pc' = [pc EXCEPT ![g] = "idle"]
      /\ BeginPlannedTurn(g, Sayings) => pc' = [pc EXCEPT ![g] = "begun"]
  BY DEF DecideAndPlan, CreateAndPlan, FinishPlannedTurn, FailPlannedTurn, BeginPlannedTurn,
         DecideMission, CreateMission, CommitTurn, FailTurn, BeginTurnWith
<1> QED
  BY <1>2, <1>3 DEF TypeOK

-----------------------------------------------------------------------------
\* A turn that asks what was meant takes nothing back: either no withdrawal was
\* recognised, or the facts it could mean are not exactly one.
LEMMA AskingWithdrawsNothing ==
  ASSUME NEW slots, NEW facts, NEW m \in Message,
         MentionsNothing(m),
         NEW a \in SelectedActs(slots, facts, m),
         \/ a.act = "clarification_request"
         \/ a.act = "correction" /\ \/ AmbiguousWithdrawal(facts, {}, m)
                                    \/ RequiresClarification(facts, m)
  PROVE  Withdrawn(facts, {}, m) = {}
<1> DEFINE latest == LatestFacts(facts, Known(facts))
<1>1. WithdrawalTargets(facts, {}) = latest
  BY DEF WithdrawalTargets
<1> SUFFICES ASSUME "withdrawal" \in m.cues, Cardinality(latest) = 1
             PROVE  FALSE
  BY <1>1 DEF Withdrawn
<1>2. Revisable(facts, m) = latest
  BY DEF Revisable, Known, MentionsNothing, Values
<1>3. ~ AmbiguousWithdrawal(facts, {}, m) /\ ~ RequiresClarification(facts, m)
  BY <1>1, <1>2 DEF AmbiguousWithdrawal, RequiresClarification
<1>4. a.act = "clarification_request"
  BY <1>3
<1>5. latest # {}
  <2>1. Cardinality({}) = 0
    BY FS_EmptySet
  <2> QED
    BY <2>1
<1> HIDE DEF latest
<1> DEFINE correction == [act |-> "correction", confidence |-> 91, priority |-> 100]
<1>6. Correction(facts, m) = {correction}
  BY <1>2, <1>5 DEF Correction
<1>7. correction \in CandidateActs(slots, facts, m)
  BY <1>6 DEF CandidateActs
<1>8. /\ a \in CandidateActs(slots, facts, m)
      /\ correction.confidence < a.confidence \/ correction.confidence = a.confidence
  BY <1>7 DEF SelectedActs
<1>9. a.confidence = 82
  BY <1>4, <1>6, <1>8 DEF CandidateActs, PendingAnswer, CueActs
<1> QED
  BY <1>8, <1>9

\* The strategy to ask what was meant.
LEMMA AskingStrategy ==
  ASSUME NEW act, NEW nextAct, NEW unclear \in BOOLEAN,
         Strategy(act, nextAct, unclear) = "ask_clarification"
  PROVE  \/ act = "clarification_request"
         \/ act = "correction" /\ (nextAct = "clarify_fact_revision" \/ unclear)
BY DEF Strategy

\* The next act of a claim asks about a revision only when a withdrawal was ambiguous.
LEMMA ClaimAgenda ==
  ASSUME NEW before, NEW mission, NEW facts, NEW unclear \in BOOLEAN, mission.type = ClaimType,
         AgendaAfter(before, mission, facts, unclear).nextAct = "clarify_fact_revision"
  PROVE  unclear
BY DEF AgendaAfter, NextActFor, ClaimType

\* A message that mentions nothing and withdraws nothing leaves the facts alone.
LEMMA NothingHeard ==
  ASSUME NEW facts \in Facts, NEW slots, NEW m \in Message, NEW n,
         MentionsNothing(m), Withdrawn(facts, {}, m) = {}
  PROVE  FactsAfter(facts, {}, slots, m, n) = facts
BY DEF FactsAfter, FactAfter, FactBefore, Facts, MentionsNothing

\* A claim turn that asks what the user meant changes no fact on a message that
\* mentions none.
THEOREM NothingEverGuessed == PlanSpec => GuessNothing
<1> DEFINE Guarded(h) == /\ pc[h] = "idle" /\ pc'[h] = "begun"
                         /\ heard'.strategy = "ask_clarification"
                         /\ session.mission.type = "auto_claim_guidance"
                         /\ MentionsNothing(heard'.saying.message)
           NoGuess == \A h \in Handlers : Guarded(h) => session'.facts = session.facts
<1>1. EvidenceInv /\ [PlanNext]_planVars => [NoGuess]_planVars
  <2> SUFFICES ASSUME EvidenceInv, [PlanNext]_planVars, NEW h \in Handlers, Guarded(h)
               PROVE  session'.facts = session.facts
    OBVIOUS
  <2>1. TypeOK /\ session \in States /\ session.facts \in Facts /\ HasOneOpenTopic(session.topics)
    BY DEF EvidenceInv, DecisionInv, TopicInv, TypeOK, OneOpenTopic, States
  <2>2. BeginPlannedTurn(h, Sayings)
    BY <2>1, PlannedBeginning
  <2>3. PICK s, a, active : PlannedWith(h, s, a, active)
    BY <2>1, <2>2, PlannedTraces
  <2> DEFINE m      == s.message
             begun  == BegunState(session, m, a.act, active, turn + 1)
             closed == TurnClosed(session, m, a.act)
  <2>4. /\ s \in Sayings /\ a \in SelectedActs(session.slots, session.facts, m)
        /\ active \in ActiveTopics(session.topics) /\ session' = begun /\ heard'.saying = s
        /\ agenda' = AgendaAfter(agenda, begun.mission, begun.facts,
                                 AmbiguousWithdrawal(session.facts, closed, m))
        /\ Strategy(a.act, agenda'.nextAct, RequiresClarification(session.facts, m))
             = "ask_clarification"
    BY <2>3 DEF PlannedWith
  <2>5. m \in Message /\ turn + 1 \in Turns
    BY <2>2, <2>4, SayingsAssumption, MessagesAssumption, MaxTurnsAssumption, <2>1
       DEF BeginPlannedTurn, BeginTurnWith, TypeOK, Turns
  <2>6. /\ begun.facts = TurnFacts(session, m, a.act, turn + 1)
        /\ begun.mission = TurnMission(session, m, a.act, turn + 1)
        /\ begun.mission.type = session.mission.type
    <3> HIDE DEF m
    <3>1. /\ begun.facts = TurnFacts(session, m, a.act, turn + 1)
          /\ begun.mission = TurnMission(session, m, a.act, turn + 1)
          /\ TurnAdvanced(session, m, a.act, turn + 1) \in Mission
      BY <2>1, <2>4, <2>5, TurnParts
    <3>2. TurnMission(session, m, a.act, turn + 1).type = session.mission.type
      BY <2>1, <2>5, <3>1, TurnMissionType
    <3> QED
      BY <3>1, <3>2
  <2>7. MentionsNothing(m)
    BY <2>4
  <2> HIDE DEF begun
  <2>8. \/ a.act = "clarification_request"
        \/ a.act = "correction" /\ \/ AmbiguousWithdrawal(session.facts, closed, m)
                                   \/ RequiresClarification(session.facts, m)
    <3>1. /\ AmbiguousWithdrawal(session.facts, closed, m) \in BOOLEAN
          /\ RequiresClarification(session.facts, m) \in BOOLEAN
      BY DEF AmbiguousWithdrawal, RequiresClarification
    <3>2. \/ a.act = "clarification_request"
          \/ a.act = "correction" /\ \/ agenda'.nextAct = "clarify_fact_revision"
                                     \/ RequiresClarification(session.facts, m)
      BY <2>4, <3>1, AskingStrategy
    <3>3. agenda'.nextAct = "clarify_fact_revision" => AmbiguousWithdrawal(session.facts, closed, m)
      BY <2>4, <2>6, <3>1, ClaimAgenda DEF ClaimType
    <3> QED
      BY <3>2, <3>3
  <2>9. closed = {}
    BY <2>8 DEF TurnClosed, SuppressesSlots
  <2> HIDE DEF closed
  <2>10. Withdrawn(session.facts, {}, m) = {}
    BY <2>4, <2>5, <2>7, <2>8, <2>9, AskingWithdrawsNothing
  <2>11. FactsAfter(session.facts, {}, session.slots, m, turn + 1) = session.facts
    BY <2>1, <2>5, <2>7, <2>10, NothingHeard
  <2> QED
    BY <2>4, <2>6, <2>9, <2>11 DEF TurnFacts, closed
<1> QED
  BY <1>1, PlannedEvidence, PTL DEF PlanSpec, GuessNothing
-----------------------------------------------------------------------------
\* The operators a plan is made of.

\* The first of some steps is one of them.
LEMMA FirstOf ==
  ASSUME NEW S \in SUBSET Step, S # {}
  PROVE  First(S) \in S /\ \A other \in S : StepOrder[First(S)] <= StepOrder[other]
<1> DEFINE orders == {StepOrder[s] : s \in S}
<1>1. \A s \in Step : StepOrder[s] \in Nat
  BY DEF Step, StepOrder
<1>2. orders \subseteq Nat /\ orders # {}
  BY <1>1
<1>3. \E low \in orders : \A o \in orders : low <= o
  <2> HIDE DEF orders
  <2>1. PICK low \in orders : \A o \in orders : ~ (<<o, low>> \in OpToRel(<, Nat))
    BY <1>2, NatLessThanWellFounded, WFMin
  <2>2. \A o \in orders : ~ (o < low)
    BY <1>2, <2>1 DEF OpToRel
  <2> QED
    BY <1>2, <2>2
<1>4. PICK low \in orders : \A o \in orders : low <= o
  BY <1>3
<1>5. \E s \in S : \A other \in S : StepOrder[s] <= StepOrder[other]
  BY <1>4
<1> QED
  BY <1>5, Zenon DEF First

\* The question that is selected is one of the candidates.
LEMMA SelectedIsCandidate ==
  ASSUME NEW candidates, NEW required, NEW need
  PROVE  SelectedQuestion(candidates, required, need) \in candidates \union {None}
<1> DEFINE worth(key) == Priority(key, required, need)
           eligible   == {key \in candidates : worth(key) >= SelectionThreshold}
           ranks      == {112 - worth(key) : key \in eligible}
<1>1. \A key : worth(key) \in {112, 97, 82, 69, 66, 65, 41}
  BY DEF Priority
<1>2. CASE eligible = {}
  BY <1>2 DEF SelectedQuestion
<1>3. CASE eligible # {}
  <2> HIDE DEF worth
  <2>1. ranks \subseteq Nat /\ ranks # {}
    BY <1>1, <1>3
  <2>2. \E low \in ranks : \A r \in ranks : low <= r
    <3> HIDE DEF ranks
    <3>1. PICK low \in ranks : \A r \in ranks : ~ (<<r, low>> \in OpToRel(<, Nat))
      BY <2>1, NatLessThanWellFounded, WFMin
    <3>2. \A r \in ranks : ~ (r < low)
      BY <2>1, <3>1 DEF OpToRel
    <3> QED
      BY <2>1, <3>2
  <2>3. PICK low \in ranks : \A r \in ranks : low <= r
    BY <2>2
  <2>4. PICK key \in eligible : low = 112 - worth(key)
    BY <2>3
  <2>5. \A other \in eligible : worth(other) <= worth(key)
    <3> TAKE other \in eligible
    <3>1. 112 - worth(key) <= 112 - worth(other)
      BY <2>3, <2>4
    <3>2. worth(key) \in Int /\ worth(other) \in Int
      BY <1>1
    <3> QED
      BY <3>1, <3>2
  <2>6. SelectedQuestion(candidates, required, need) \in eligible
    <3>1. SelectedQuestion(candidates, required, need) =
            CHOOSE k \in eligible : \A other \in eligible : worth(other) <= worth(k)
      BY <1>3, Zenon DEF SelectedQuestion, worth
    <3> HIDE DEF eligible
    <3> QED
      BY <2>4, <2>5, <3>1, Zenon
  <2> QED
    BY <2>6
<1> QED
  BY <1>2, <1>3

\* What a plan owes to the state it was laid out on.
LaidOut(p, previous, mission, facts, slots) ==
  /\ p.previous = CurrentStep(previous.steps)
  /\ DOMAIN p.steps \subseteq Step
  /\ \A s \in SlotStep \union FactStep :
       s \in Pending(p.steps) => /\ s \in StepsFor(mission.type, facts)
                                 /\ ~ IsDone(s, slots, facts, None)
  /\ \A s \in SlotStep :
       s = CurrentStep(p.steps) /\ s = p.previous /\ p.asks = Subject(s) => p.reworded
  /\ \/ p.asks = None
     \/ p.asks \in PendingSlots(MissionSlots(mission))
     \/ p.asks \notin FactSlot /\ IsUnknown(facts, p.asks)

LEMMA PlanLaidOut ==
  ASSUME NEW state, NEW slots, NEW nextAct, NEW act
  PROVE  LaidOut(PlanOf(state, slots, nextAct, act), plan, state.mission, state.facts, slots)
<1> DEFINE p          == PlanOf(state, slots, nextAct, act)
           mission    == state.mission
           facts      == state.facts
           signals    == heard.saying.signals
           need       == PrimaryNeed(heard.saying, mission)
           required   == RequiredInformation(PendingSlots(MissionSlots(mission)), facts, nextAct, need)
           candidates == Candidate(required, facts, signals)
           asks       == SelectedQuestion(candidates, required, need)
           inserted   == Inserted(mission.type, signals, act)
           steps      == [s \in inserted \union StepsFor(mission.type, facts) |->
                            IF s \notin inserted /\ IsDone(s, slots, facts, nextAct)
                            THEN "completed" ELSE "pending"]
           reason     == ReplanningReason(plan, inserted, steps, candidates, asks)
           reworded   == IsReworded(plan, reason, mission.type, asks, act)
<1>1. p = [steps |-> steps, inserted |-> inserted, previous |-> CurrentStep(plan.steps),
           reason |-> reason, asks |-> asks, need |-> need, reworded |-> reworded]
  BY Zenon DEF PlanOf
<1>2. inserted \subseteq SideQuestion \union {"handle_topic_shift"} /\ StepsFor(mission.type, facts) \subseteq Step
  BY DEF Inserted, StepsFor
<1> HIDE DEF p, need, required, inserted, reason
<1>3. DOMAIN steps = inserted \union StepsFor(mission.type, facts)
  OBVIOUS
<1>4. ASSUME NEW s \in SlotStep \union FactStep, s \in Pending(steps)
      PROVE  s \in StepsFor(mission.type, facts) /\ ~ IsDone(s, slots, facts, None)
  <2>1. s \notin inserted
    BY <1>2 DEF SideQuestion, SlotStep, FactStep
  <2>2. s \in StepsFor(mission.type, facts) /\ ~ IsDone(s, slots, facts, nextAct)
    BY <1>4, <2>1 DEF Pending
  <2> QED
    BY <2>2 DEF IsDone, SlotStep, FactStep
<1>5. \A s \in inserted : s \in Pending(steps)
  BY DEF Pending
<1>6. Pending(steps) \subseteq Step
  <2>1. SideQuestion \union {"handle_topic_shift"} \subseteq Step
    BY DEF SideQuestion, Step, StepOrder
  <2> QED
    BY <1>2, <1>3, <2>1 DEF Pending
<1> HIDE DEF steps, asks
<1>7. ASSUME NEW s \in SlotStep, s = CurrentStep(steps), s = CurrentStep(plan.steps), asks = Subject(s)
      PROVE  reworded
  <2>1. Pending(steps) # {}
    BY <1>7 DEF CurrentStep, First, SlotStep, None
  <2>2. s \in Pending(steps) /\ \A other \in Pending(steps) : StepOrder[s] <= StepOrder[other]
    BY <1>6, <1>7, <2>1, FirstOf DEF CurrentStep
  <2>3. inserted = {}
    <3> SUFFICES ASSUME NEW i \in inserted PROVE FALSE
      OBVIOUS
    <3>1. StepOrder[s] <= StepOrder[i]
      BY <1>5, <2>2
    <3>2. StepOrder[s] >= 10
      BY DEF SlotStep, StepOrder
    <3>3. StepOrder[i] < 10 /\ StepOrder[i] \in Int /\ StepOrder[s] \in Int
      BY <1>2 DEF SideQuestion, SlotStep, StepOrder
    <3> QED
      BY <3>1, <3>2, <3>3
  <2>4. reason # "side_step_inserted_preserve_active_plan"
    BY <2>3, Zenon DEF reason, ReplanningReason
  <2>5. s \in StepsFor(mission.type, facts)
    BY <1>4, <2>2
  <2>6. HasOtherWording(mission.type, asks)
    BY <1>7, <2>5 DEF HasOtherWording, StepsFor, Subject, SlotStep, FactType
  <2> QED
    BY <1>7, <2>4, <2>6 DEF IsReworded
<1>8. \/ asks = None
      \/ asks \in PendingSlots(MissionSlots(mission))
      \/ asks \notin FactSlot /\ IsUnknown(facts, asks)
  <2>1. asks \in candidates \union {None}
    BY SelectedIsCandidate DEF asks
  <2>2. ASSUME asks \in required
        PROVE  \/ asks \in PendingSlots(MissionSlots(mission))
               \/ asks \notin FactSlot /\ IsUnknown(facts, asks)
    BY <2>2 DEF required, RequiredInformation, AskedByMission, IsUnknown, FactSlot, FactType
  <2>3. ASSUME asks \in MissingInformation(signals), IsUnknown(facts, asks)
        PROVE  asks \notin FactSlot /\ IsUnknown(facts, asks)
    BY <2>3 DEF MissingInformation, FactSlot
  <2> QED
    BY <2>1, <2>2, <2>3 DEF Candidate
<1>9. p.previous = CurrentStep(plan.steps) /\ p.steps = steps /\ p.asks = asks /\ p.reworded = reworded
  BY <1>1
<1>10. DOMAIN steps \subseteq Step
  BY <1>2, <1>3 DEF SideQuestion, Step, StepOrder
<1> HIDE DEF reworded
<1> QED
  BY <1>4, <1>7, <1>8, <1>9, <1>10 DEF LaidOut, p

-----------------------------------------------------------------------------
\* What a message that neither answers nor tells anything new leaves of a slot and of
\* a fact: what was there, nothing, the contrary, or the same denied once more by a text
\* that holds the affirmation.
Reopened(before, after) == after \in {before, "pending"} \union ClosedSlotState

Reversed(before, after) ==
  /\ before.value \in {"yes", "no"} /\ after.value \in {"yes", "no"}
  /\ before.value # after.value

DeniedAgain(values, before, after) ==
  values = {"yes", "no"} /\ before.value = "no" /\ after.value = "no"

Unmoved(values, before, after) ==
  \/ after \in {before, NoFact}
  \/ Reversed(before, after)
  \/ DeniedAgain(values, before, after)

LEMMA KnownBeforeIs ==
  ASSUME NEW facts \in Facts, NEW slots, NEW m \in Message, NEW f \in FactType
  PROVE  KnownBefore(facts, slots, {}, m, f) =
           IF f \in Withdrawn(facts, {}, m) THEN "none" ELSE facts[f].value
BY DEF KnownBefore, FactBefore, NoFact

LEMMA UnheardTurn ==
  ASSUME NEW state \in States, NEW m \in Message, NEW act, NEW n \in Turns,
         ~ (~ SuppressesSlots(act) /\ Answered(state.slots, m) # {}),
         TurnClosed(state, m, act) = {},
         \A f \in FactType :
           ~ Assimilates(m, f, KnownBefore(state.facts, state.slots, {}, m, f))
  PROVE  /\ \A s \in Slot : Reopened(state.slots[s], TurnSlots(state, m, act, n)[s])
         /\ \A f \in FactType :
              Unmoved(Values(m, f), state.facts[f], TurnFacts(state, m, act, n)[f])
<1> DEFINE before    == state.facts
           slots     == state.slots
           resolved  == ResolveSlots(state, m, act, n)
           withdrawn == Withdrawn(before, {}, m)
           facts     == TurnFacts(state, m, act, n)
           after     == TurnSlots(state, m, act, n)
<1>1. before \in Facts /\ slots \in [Slot -> SlotState]
  BY DEF States
<1>2. facts = FactsAfter(before, {}, slots, m, n)
  BY DEF TurnFacts
<1>3. resolved.slots = slots
  <2>1. CASE SuppressesSlots(act)
    <3>1. resolved = state
      BY <2>1, Zenon DEF ResolveSlots
    <3> QED
      BY <3>1
  <2>2. CASE ~ SuppressesSlots(act)
    <3>1. Answered(slots, m) = {}
      BY <2>2, Zenon
    <3>2. \A s \in Slot : SlotAnswer(slots, m, s) = "none"
      BY <3>1 DEF Answered
    <3>3. SlotsResolved(slots, m) = slots
      BY <1>1, <3>2 DEF SlotsResolved
    <3> QED
      BY <2>2, <3>3, ResolvedParts
  <2> QED
    BY <2>1, <2>2
<1>4. after = SlotsAfterFacts(slots, before, facts, withdrawn, {})
  BY <1>3 DEF TurnSlots
<1> HIDE DEF before, slots, resolved, withdrawn, facts, after
<1>5. ASSUME NEW f \in FactType
      PROVE  \/ f \in withdrawn /\ facts[f] = NoFact
             \/ f \notin withdrawn /\ facts[f] = before[f]
             \/ f \notin withdrawn /\ Reversed(before[f], facts[f])
             \/ /\ f \notin withdrawn /\ f \notin FactSlot
                /\ DeniedAgain(Values(m, f), before[f], facts[f])
  <2>1. facts[f] = FactAfter(before, {}, slots, m, n, f)
    BY <1>2 DEF FactsAfter
  <2>2. /\ before[f].value \in {"none", "yes", "no"} /\ Values(m, f) \subseteq {"yes", "no"}
        /\ f \in FactSlot => Values(m, f) # {"yes", "no"}
    BY <1>1, ValuesType DEF Facts, FactValue
  <2>3. CASE f \in withdrawn
    <3>1. Values(m, f) = {}
      BY <2>3, ValuesType DEF withdrawn, Withdrawn
    <3> QED
      BY <2>1, <2>3, <3>1 DEF FactAfter, FactBefore, withdrawn
  <2>4. CASE f \notin withdrawn
    <3>1. ~ Assimilates(m, f, before[f].value)
      BY <1>1, <2>4, KnownBeforeIs DEF before, slots, withdrawn
    <3>2. \A v \in Values(m, f) :
            before[f].value \in {"none", v} => v = "no" /\ "yes" \in Values(m, f)
      BY <3>1, <2>2 DEF Assimilates
    <3>3. \/ Values(m, f) \subseteq {before[f].value}
          \/ Values(m, f) = {"yes"} /\ before[f].value = "no"
          \/ Values(m, f) = {"no"} /\ before[f].value = "yes"
          \/ Values(m, f) = {"yes", "no"} /\ before[f].value = "no"
      BY <2>2, <3>2
    <3> QED
      BY <2>1, <2>2, <2>4, <3>3 DEF FactAfter, FactBefore, withdrawn, Reversed, DeniedAgain
  <2> QED
    BY <2>3, <2>4
<1>6. \A f \in FactType : Unmoved(Values(m, f), before[f], facts[f])
  BY <1>5 DEF Unmoved
<1>7. ASSUME NEW s \in Slot PROVE Reopened(slots[s], after[s])
  <2>1. CASE s \notin FactSlot
    BY <1>4, <2>1 DEF SlotsAfterFacts, Reopened
  <2>2. CASE s \in FactSlot
    <3>1. s \in FactType
      BY <2>2 DEF FactSlot, FactType
    <3>2. CASE s \in withdrawn
      BY <1>4, <2>2, <3>2 DEF SlotsAfterFacts, Reopened
    <3>3. CASE s \notin withdrawn /\ facts[s] = before[s]
      BY <1>4, <2>2, <3>3 DEF SlotsAfterFacts, Reopened
    <3>4. CASE s \notin withdrawn /\ facts[s] # before[s] /\ Reversed(before[s], facts[s])
      BY <1>4, <2>2, <3>4 DEF SlotsAfterFacts, Reopened, Reversed, ClosedSlotState
    <3> QED
      BY <1>5, <2>2, <3>1, <3>2, <3>3, <3>4
  <2> QED
    BY <2>1, <2>2
<1> QED
  BY <1>6, <1>7 DEF before, slots, facts, after

-----------------------------------------------------------------------------
\* With one handler: what the turn in progress has found and planned.
HeardRight ==
  ~ heard.resolved /\ ~ heard.assimilated =>
    /\ \A s \in Slot : Reopened(heard.slots[s], session.slots[s])
    /\ \A f \in FactType :
         Unmoved(Values(heard.saying.message, f), heard.facts[f], session.facts[f])

\* The slots the turn will leave in the session.
SlotsLeft(h) == MergedSlots(session.slots, MissionSlots(Carried(h).mission))

PlansAlone(h) ==
  /\ pc[h] # "decided" => asking = NoPlan
  /\ pc[h] # "idle" => outcome.failed = {} /\ HeardRight
  /\ pc[h] = "decided" =>
       LaidOut(asking, plan, Carried(h).mission, Carried(h).facts, SlotsLeft(h))

PlanInv ==
  /\ AloneInv
  /\ NeedInv
  /\ IsPlanned => \E h \in Handlers : pc[h] = "decided"
  /\ \A h \in Handlers : PlansAlone(h)

LEMMA PlanInvInit == PlanInit => PlanInv
<1> SUFFICES ASSUME PlanInit PROVE PlanInv
  OBVIOUS
<1>1. Init /\ asking = NoPlan /\ \A h \in Handlers : pc[h] = "idle"
  BY DEF PlanInit, Init
<1> QED
  BY <1>1, AloneInvInit, NeedInvInit DEF PlanInv, PlansAlone, IsPlanned

LEMMA PlanBegins ==
  ASSUME OneHandler, PlanInv, AloneInv', NeedInv', NEW h \in Handlers, BeginPlannedTurn(h, Sayings)
  PROVE  PlanInv'
<1>1. TypeOK /\ session \in States /\ HasOneOpenTopic(session.topics)
  BY DEF PlanInv, AloneInv, EvidenceInv, DecisionInv, TopicInv, TypeOK, OneOpenTopic
<1>2. /\ pc[h] = "idle" /\ pc'[h] = "begun" /\ turn < MaxTurns
      /\ outcome' = NoOutcome /\ asking' = asking
  BY <1>1 DEF BeginPlannedTurn, BeginTurnWith, TypeOK
<1>3. PICK s, a, active : PlannedWith(h, s, a, active)
  BY <1>1, PlannedTraces
<1> DEFINE m     == s.message
           n     == turn + 1
           begun == BegunState(session, m, a.act, active, n)
           shut  == TurnClosed(session, m, a.act)
<1>4. /\ s \in Sayings /\ active \in ActiveTopics(session.topics) /\ session' = begun
      /\ heard'.slots = session.slots /\ heard'.facts = session.facts
      /\ heard'.resolved = (/\ ~ SuppressesSlots(a.act)
                            /\ \/ Answered(session.slots, m) # {}
                               \/ RepeatedAnswer(session.slots, m))
      /\ heard'.assimilated =
           (\/ shut # {}
            \/ \E f \in FactType :
                 Assimilates(m, f, KnownBefore(session.facts, session.slots, shut, m, f)))
      /\ heard'.saying = s
  BY <1>3 DEF PlannedWith
<1>5. m \in Message /\ n \in Turns
  BY <1>1, <1>2, <1>4, SayingsAssumption, MessagesAssumption, MaxTurnsAssumption DEF TypeOK, Turns
<1> HIDE DEF m, n
<1>6. begun.slots = TurnSlots(session, m, a.act, n) /\ begun.facts = TurnFacts(session, m, a.act, n)
  <2> HIDE DEF shut
  <2>1. active \in ActiveTopics(session.topics)
    BY <1>4
  <2> QED
    BY <1>1, <1>5, <2>1, TurnParts
<1> HIDE DEF begun, shut
<1>7. HeardRight'
  <2> SUFFICES ASSUME ~ heard'.resolved, ~ heard'.assimilated
               PROVE  /\ \A x \in Slot : Reopened(session.slots[x], begun.slots[x])
                      /\ \A f \in FactType :
                           Unmoved(Values(m, f), session.facts[f], begun.facts[f])
    BY <1>4 DEF HeardRight, m
  <2>1. ~ (~ SuppressesSlots(a.act) /\ Answered(session.slots, m) # {})
    BY <1>4
  <2>2. shut = {}
    BY <1>4
  <2>3. \A f \in FactType :
          ~ Assimilates(m, f, KnownBefore(session.facts, session.slots, {}, m, f))
    BY <1>4, <2>2
  <2> QED
    BY <1>1, <1>5, <1>6, <2>1, <2>2, <2>3, UnheardTurn DEF shut
<1>8. PlansAlone(h)'
  BY <1>2, <1>7 DEF PlanInv, PlansAlone, NoOutcome
<1> QED
  BY <1>2, <1>8 DEF PlanInv, PlansAlone, OneHandler, IsPlanned

LEMMA PlanLays ==
  ASSUME OneHandler, PlanInv, AloneInv', NeedInv', NEW h \in Handlers,
         DecideAndPlan(h) \/ CreateAndPlan(h)
  PROVE  PlanInv'
<1>1. TypeOK
  BY DEF PlanInv, AloneInv, EvidenceInv, DecisionInv, TopicInv
<1>2. /\ pc[h] = "begun" /\ pc' = [pc EXCEPT ![h] = "decided"] /\ session' = session
      /\ plan' = plan /\ heard' = heard /\ outcome' = outcome /\ LayOutPlan(h)
  BY DEF DecideAndPlan, CreateAndPlan, DecideMission, CreateMission
<1>3. pc'[h] = "decided"
  BY <1>1, <1>2 DEF TypeOK
<1>4. LaidOut(asking', plan, Carried(h)'.mission, Carried(h)'.facts, SlotsLeft(h)')
  <2> DEFINE state == work'[h].state
  <2>1. /\ Carried(h)' = state
        /\ SlotsLeft(h)' = MergedSlots(session.slots, MissionSlots(state.mission))
    BY <1>2 DEF Carried, SlotsLeft
  <2>2. asking' = PlanOf(state, MergedSlots(session.slots, MissionSlots(state.mission)),
                         agenda'.nextAct, work[h].act)
    BY <1>2, Zenon DEF LayOutPlan
  <2> HIDE DEF state
  <2> QED
    BY <2>1, <2>2, PlanLaidOut
<1>5. PlansAlone(h)'
  <2>1. HeardRight' /\ outcome'.failed = {}
    BY <1>2 DEF PlanInv, PlansAlone, HeardRight
  <2>2. LaidOut(asking, plan, Carried(h).mission, Carried(h).facts, SlotsLeft(h))'
    BY <1>2, <1>4 DEF LaidOut
  <2> QED
    BY <1>3, <2>1, <2>2 DEF PlansAlone
<1> QED
  BY <1>3, <1>5 DEF PlanInv, OneHandler

LEMMA PlanEnds ==
  ASSUME OneHandler, PlanInv, AloneInv', NeedInv', NEW h \in Handlers,
         FinishPlannedTurn(h) \/ FailPlannedTurn(h)
  PROVE  PlanInv'
<1>1. TypeOK
  BY DEF PlanInv, AloneInv, EvidenceInv, DecisionInv, TopicInv
<1>2. pc' = [pc EXCEPT ![h] = "idle"] /\ asking' = NoPlan
  BY DEF FinishPlannedTurn, FailPlannedTurn, CommitTurn, FailTurn
<1>3. pc'[h] = "idle"
  BY <1>1, <1>2 DEF TypeOK
<1> QED
  BY <1>2, <1>3 DEF PlanInv, PlansAlone, OneHandler, IsPlanned

LEMMA PlanInvStep ==
  ASSUME OneHandler, PlanInv, [PlanNext]_planVars
  PROVE  PlanInv'
<1>1. [Next]_vars
  BY PlannedStep
<1>2. AloneInv'
  BY <1>1, AloneInvStep DEF PlanInv
<1>3. NeedInv'
  BY <1>1, <1>2, NeedInvStep DEF PlanInv, AloneInv
<1>4. CASE UNCHANGED planVars
  <2>1. /\ session' = session /\ pc' = pc /\ work' = work /\ plan' = plan /\ asking' = asking
        /\ heard' = heard /\ outcome' = outcome
    BY <1>4 DEF planVars, vars
  <2>2. \A h \in Handlers : PlansAlone(h)'
    BY <2>1 DEF PlanInv, PlansAlone, HeardRight, LaidOut, SlotsLeft, Carried
  <2> QED
    BY <1>2, <1>3, <2>1, <2>2 DEF PlanInv, IsPlanned
<1>5. CASE PlanNext
  <2>1. PICK h \in Handlers : \/ BeginPlannedTurn(h, Sayings)
                              \/ DecideAndPlan(h)
                              \/ CreateAndPlan(h)
                              \/ FinishPlannedTurn(h)
                              \/ FailPlannedTurn(h)
    BY <1>5 DEF PlanNext
  <2>2. CASE BeginPlannedTurn(h, Sayings)
    BY <1>2, <1>3, <2>2, PlanBegins
  <2>3. CASE DecideAndPlan(h) \/ CreateAndPlan(h)
    BY <1>2, <1>3, <2>3, PlanLays
  <2>4. CASE FinishPlannedTurn(h) \/ FailPlannedTurn(h)
    BY <1>2, <1>3, <2>4, PlanEnds
  <2> QED
    BY <2>1, <2>2, <2>3, <2>4
<1> QED
  BY <1>4, <1>5

-----------------------------------------------------------------------------
\* With one handler, a claim that was open before the turn asks for nothing it knows:
\* its slots and facts agree, and what is asked is open or unknown on the very state
\* the turn is going to store.
LEMMA PlannedAsksUnknown ==
  ASSUME PlanInv
  PROVE  NeverAsksTheKnown
<1> SUFFICES ASSUME IsPlanned, session.mission.type = ClaimType
             PROVE  /\ asking.asks \in FactType => session.facts[asking.asks].value = "none"
                    /\ asking.asks \in FactSlot => session.slots[asking.asks] \notin ClosedSlotState
  BY DEF NeverAsksTheKnown, ClaimType
<1>1. PICK h \in Handlers : pc[h] = "decided"
  BY DEF PlanInv
<1> DEFINE mission == Carried(h).mission
           asks    == asking.asks
<1>2. LaidOut(asking, plan, mission, Carried(h).facts, SlotsLeft(h))
  BY <1>1 DEF PlanInv, PlansAlone
<1>3. Carried(h).facts = session.facts /\ mission.slots = session.slots
  BY <1>1 DEF PlanInv, AloneInv, StepsAlone, Opened, IsMission, ClaimType, NoType
<1>4. session \in States /\ Agree(session.slots, session.facts)
  BY DEF PlanInv, AloneInv, EvidenceInv, DecisionInv, TopicInv, TypeOK
<1> HIDE DEF mission, asks
<1>5. \/ asks = None
      \/ asks \in PendingSlots(MissionSlots(mission))
      \/ asks \notin FactSlot /\ IsUnknown(session.facts, asks)
  BY <1>2, <1>3 DEF LaidOut, asks
<1>6. asks \in FactSlot => session.slots[asks] \notin ClosedSlotState
  <2> SUFFICES ASSUME asks \in FactSlot, asks \in PendingSlots(MissionSlots(mission))
               PROVE  session.slots[asks] \notin ClosedSlotState
    BY <1>5 DEF None, FactSlot
  <2>1. asks \in Slot /\ MissionSlots(mission)[asks] \in {"pending", "partially_filled"}
    BY DEF PendingSlots
  <2> QED
    BY <1>3, <2>1 DEF MissionSlots, ClosedSlotState
<1>7. asks \in FactType => session.facts[asks].value = "none"
  <2>1. CASE asks \in FactSlot
    BY <1>4, <1>6, <2>1 DEF Agree, Known
  <2>2. CASE asks \in FactType /\ asks \notin FactSlot
    <3>1. asks # None /\ asks \notin Slot
      BY <2>2 DEF None, FactType, FactSlot, Slot
    <3>2. IsUnknown(session.facts, asks)
      BY <1>5, <3>1 DEF PendingSlots
    <3> QED
      BY <2>2, <3>2 DEF IsUnknown
  <2> QED
    BY <2>1, <2>2
<1> QED
  BY <1>6, <1>7 DEF asks

THEOREM KnownNeverAsked ==
  ASSUME OneHandler
  PROVE  PlanSpec => []NeverAsksTheKnown
<1>1. PlanInv => NeverAsksTheKnown
  BY PlannedAsksUnknown
<1>2. PlanInv /\ [PlanNext]_planVars => PlanInv'
  BY PlanInvStep
<1> QED
  BY <1>1, <1>2, PlanInvInit, PTL DEF PlanSpec

\* A step that is judged failed.
LEMMA FailedInVain ==
  ASSUME OneHandler, PlanInv, NEW h \in Handlers, FinishPlannedTurn(h), NEW s \in FailedSteps(asking)
  PROVE  /\ s = CurrentStep(plan.steps) /\ s \in Pending(plan'.steps)
         /\ Subject(s) \in Slot =>
              session'.slots[Subject(s)] \in {heard.slots[Subject(s)], "pending"}
         /\ Subject(s) \in FactType =>
              \/ session'.facts[Subject(s)] \in {heard.facts[Subject(s)], NoFact}
              \/ /\ session'.facts[Subject(s)].value = "no"
                 /\ \/ heard.facts[Subject(s)].value = "yes"
                    \/ /\ heard.facts[Subject(s)].value = "no"
                       /\ Values(heard.saying.message, Subject(s)) = {"yes", "no"}
         /\ asking.asks = Subject(s) /\ s \in SlotStep => asking.reworded
<1> DEFINE done    == Carried(h)
           mission == done.mission
           left    == SlotsLeft(h)
           x       == Subject(s)
<1>1. /\ TypeOK /\ session \in States /\ done \in States
      /\ pc[h] = "decided" /\ plan' = asking
      /\ session'.slots = left /\ session'.facts = MergedFacts(session.facts, done.facts)
  BY DEF FinishPlannedTurn, CommitTurn, StateRecord, Carried, SlotsLeft, PlanInv, AloneInv, EvidenceInv,
         DecisionInv, TopicInv, TypeOK, Work
<1>2. /\ done.facts = session.facts
      /\ Opened /\ session.mission.type = ClaimType => mission.slots = session.slots
      /\ ~ Opened => mission.slots = NoSlots
  <2>1. StepsAlone(h)
    BY DEF PlanInv, AloneInv
  <2>2. ~ Opened => \E type \in MissionType : mission = NewMission(type)
    BY <1>1, <2>1 DEF StepsAlone
  <2>3. \A type \in MissionType : NewMission(type).slots = NoSlots
    BY DEF NewMission
  <2>4. done.facts = session.facts
    BY <1>1, <2>1 DEF StepsAlone
  <2>5. Opened /\ session.mission.type = ClaimType => mission.slots = session.slots
    BY <1>1, <2>1 DEF StepsAlone
  <2> QED
    BY <2>2, <2>3, <2>4, <2>5
<1>3. Opened => mission.type = session.mission.type
  BY <1>1 DEF PlanInv, AloneInv, EvidenceInv, Sustained, TypeKept
<1>4. NeedOpen(session.slots) /\ NeedOpen(mission.slots)
  BY DEF PlanInv, NeedInv, NeedState
<1>5. LaidOut(asking, plan, mission, session.facts, left)
  BY <1>1, <1>2 DEF PlanInv, PlansAlone
<1>6. HeardRight
  BY <1>1 DEF PlanInv, PlansAlone
<1> HIDE DEF done, mission, left
<1>7. session'.facts = session.facts
  BY <1>1, <1>2, MergedFactsSame DEF States
<1>8. /\ ~ heard.resolved /\ ~ heard.assimilated /\ s = asking.previous
      /\ s = CurrentStep(asking.steps) /\ s \in SlotStep \union FactStep
  BY DEF FailedSteps
<1>9. s \in Pending(asking.steps)
  <2>1. Pending(asking.steps) # {}
    BY <1>8 DEF CurrentStep, First, SlotStep, FactStep, None
  <2>2. Pending(asking.steps) \in SUBSET Step
    BY <1>5 DEF LaidOut, Pending
  <2> QED
    BY <1>8, <2>1, <2>2, FirstOf DEF CurrentStep
<1>10. s \in StepsFor(mission.type, session.facts) /\ ~ IsDone(s, left, session.facts, None)
  BY <1>5, <1>8, <1>9 DEF LaidOut
<1>11. /\ \A y \in Slot : Reopened(heard.slots[y], session.slots[y])
       /\ \A f \in FactType :
         Unmoved(Values(heard.saying.message, f), heard.facts[f], session.facts[f])
  BY <1>6, <1>8 DEF HeardRight
<1>12. x \in Slot => session'.slots[x] \in {heard.slots[x], "pending"}
  <2> SUFFICES ASSUME x \in Slot PROVE left[x] \in {heard.slots[x], "pending"}
    BY <1>1
  <2>1. s \in SlotStep
    BY <1>8 DEF FactStep, Subject, Slot
  <2>2. left[x] \notin ClosedSlotState
    <3>1. CASE s = "understand_user_need"
      BY <1>10, <3>1 DEF IsDone, Subject
    <3>2. CASE s \in {"confirm_injuries", "confirm_user_role"}
      BY <1>10, <3>2 DEF IsDone, IsSettled
    <3> QED
      BY <2>1, <3>1, <3>2 DEF SlotStep
  <2>3. MissionSlots(mission)[x] \in {session.slots[x], "absent", "pending"}
    <3>1. CASE s = "understand_user_need"
      BY <1>4, <3>1 DEF NeedOpen, MissionSlots, Subject, Slot
    <3>2. CASE s \in {"confirm_injuries", "confirm_user_role"}
      <4>1. mission.type = ClaimType
        BY <1>10, <3>2 DEF StepsFor, ClaimType
      <4>2. mission.slots \in {session.slots, NoSlots}
        BY <1>2, <1>3, <4>1
      <4> QED
        BY <4>2 DEF MissionSlots, NoSlots
    <3> QED
      BY <2>1, <3>1, <3>2 DEF SlotStep
  <2>4. left[x] \in {session.slots[x], "pending"}
    <3>1. left[x] = IF session.slots[x] \in ClosedSlotState \/ MissionSlots(mission)[x] = "absent"
                    THEN session.slots[x] ELSE MissionSlots(mission)[x]
      BY DEF left, mission, done, SlotsLeft, MergedSlots
    <3> QED
      BY <2>3, <3>1
  <2> QED
    BY <1>11, <2>2, <2>4 DEF Reopened
<1>13. x \in FactType =>
         \/ session'.facts[x] \in {heard.facts[x], NoFact}
         \/ /\ session'.facts[x].value = "no"
            /\ \/ heard.facts[x].value = "yes"
               \/ /\ heard.facts[x].value = "no"
                  /\ Values(heard.saying.message, x) = {"yes", "no"}
  <2> SUFFICES ASSUME x \in FactType, Reversed(heard.facts[x], session.facts[x])
               PROVE  heard.facts[x].value = "yes" /\ session.facts[x].value = "no"
    BY <1>7, <1>11 DEF Unmoved, DeniedAgain
  <2>1. session.facts[x].value # "yes"
    <3>1. CASE s \in FactStep
      BY <1>10, <3>1 DEF IsDone, IsConfirmed
    <3>2. CASE s \in {"confirm_injuries", "confirm_user_role"}
      BY <1>10, <3>2 DEF IsDone, IsSettled, IsUnknown
    <3>3. CASE s = "understand_user_need"
      BY <3>3 DEF Subject, FactType
    <3> QED
      BY <1>8, <3>1, <3>2, <3>3 DEF SlotStep
  <2> QED
    BY <2>1 DEF Reversed
<1>14. asking.asks = x /\ s \in SlotStep => asking.reworded
  BY <1>5, <1>8 DEF LaidOut
<1> QED
  BY <1>1, <1>5, <1>8, <1>9, <1>12, <1>13, <1>14 DEF LaidOut

\* With one handler, a step fails only when its question was already the open one, and
\* the session is left no wiser about it, with "no" for the "yes" it held, or with the "no"
\* it held, said again by a text that holds the affirmation too; where it is asked again, it
\* is asked in other words.
THEOREM FailedAlwaysInVain ==
  ASSUME OneHandler
  PROVE  PlanSpec => FailedMeansAskedInVain
<1> DEFINE InVain(s) == /\ s = CurrentStep(plan.steps) /\ s \in Pending(plan'.steps)
                        /\ Subject(s) \in Slot =>
                             session'.slots[Subject(s)] \in {heard.slots[Subject(s)], "pending"}
                        /\ Subject(s) \in FactType =>
                             \/ session'.facts[Subject(s)] \in {heard.facts[Subject(s)], NoFact}
                             \/ /\ session'.facts[Subject(s)].value = "no"
                                /\ \/ heard.facts[Subject(s)].value = "yes"
                                   \/ /\ heard.facts[Subject(s)].value = "no"
                                      /\ Values(heard.saying.message, Subject(s)) = {"yes", "no"}
                        /\ asking.asks = Subject(s) /\ s \in SlotStep => asking.reworded
           Vain == \A h \in Handlers : \A s \in outcome'.failed :
                     pc[h] = "decided" /\ pc'[h] = "idle" => InVain(s)
<1>1. PlanInv /\ [PlanNext]_planVars => [Vain]_planVars
  <2> SUFFICES ASSUME PlanInv, PlanNext, NEW h \in Handlers, NEW s \in outcome'.failed,
                      pc[h] = "decided", pc'[h] = "idle"
               PROVE  InVain(s)
    OBVIOUS
  <2> HIDE DEF InVain
  <2>1. TypeOK /\ outcome.failed = {}
    BY DEF PlanInv, PlansAlone, AloneInv, EvidenceInv, DecisionInv, TopicInv
  <2>2. PICK g \in Handlers : \/ BeginPlannedTurn(g, Sayings)
                              \/ DecideAndPlan(g)
                              \/ CreateAndPlan(g)
                              \/ FinishPlannedTurn(g)
                              \/ FailPlannedTurn(g)
    BY DEF PlanNext
  <2>3. g = h
    BY DEF OneHandler
  <2>4. CASE FinishPlannedTurn(g)
    <3>1. outcome'.failed = FailedSteps(asking)
      BY <2>4 DEF FinishPlannedTurn
    <3> QED
      BY <2>4, <3>1, FailedInVain DEF InVain
  <2>5. CASE FailPlannedTurn(g)
    BY <2>1, <2>5 DEF FailPlannedTurn
  <2>6. ~ BeginPlannedTurn(g, Sayings) /\ ~ DecideAndPlan(g) /\ ~ CreateAndPlan(g)
    BY <2>3 DEF BeginPlannedTurn, BeginTurnWith, DecideAndPlan, DecideMission, CreateAndPlan, CreateMission
  <2> QED
    BY <2>2, <2>4, <2>5, <2>6
<1>2. PlanInv /\ [PlanNext]_planVars => PlanInv'
  BY PlanInvStep
<1> QED
  BY <1>1, <1>2, PlanInvInit, PTL DEF PlanSpec, FailedMeansAskedInVain
-----------------------------------------------------------------------------
\* The semantic pilot: the same conversation with it and without it.

\* No two of the acts a message may suggest are as sure and as urgent as each other.
ActAt(confidence, priority) ==
  CASE priority = 100 -> IF confidence = 95 THEN "greeting" ELSE "correction"
    [] priority = 95  -> "pending_answer"
    [] priority = 90  -> "simplification_request"
    [] priority = 88  -> "recap_request"
    [] priority = 86  -> "topic_shift"
    [] priority = 84  -> "continuation"
    [] priority = 82  -> "deepening_request"
    [] priority = 80  -> "clarification_request"
    [] priority = 70  -> "closing"
    [] priority = 61  -> "confirmation"
    [] priority = 60  -> "negation"
    [] OTHER          -> "new_information"

LEMMA ActFollows ==
  ASSUME NEW slots, NEW facts, NEW m, NEW a \in CandidateActs(slots, facts, m)
  PROVE  /\ a.confidence \in Nat /\ a.priority \in Nat
         /\ a.act = ActAt(a.confidence, a.priority)
<1>1. CASE a \in Correction(facts, m)
  BY <1>1 DEF Correction, ActAt
<1>2. CASE a \in PendingAnswer(slots, m)
  BY <1>2 DEF PendingAnswer, ActAt
<1>3. CASE a \in CueActs(slots, m)
  BY <1>3 DEF CueActs, ActAt
<1>4. CASE a = [act |-> "new_information", confidence |-> 52, priority |-> 40]
  BY <1>4 DEF ActAt
<1> QED
  BY <1>1, <1>2, <1>3, <1>4 DEF CandidateActs

\* So one act is selected.
LEMMA OneActSelected ==
  ASSUME NEW slots, NEW facts, NEW m,
         NEW a \in SelectedActs(slots, facts, m), NEW b \in SelectedActs(slots, facts, m)
  PROVE  a.act = b.act
<1>1. a \in CandidateActs(slots, facts, m) /\ b \in CandidateActs(slots, facts, m)
  BY DEF SelectedActs
<1>2. /\ a.confidence \in Nat /\ a.priority \in Nat /\ a.act = ActAt(a.confidence, a.priority)
      /\ b.confidence \in Nat /\ b.priority \in Nat /\ b.act = ActAt(b.confidence, b.priority)
  BY <1>1, ActFollows
<1>3. /\ b.confidence < a.confidence \/ (b.confidence = a.confidence /\ b.priority <= a.priority)
      /\ a.confidence < b.confidence \/ (a.confidence = b.confidence /\ a.priority <= b.priority)
  BY <1>1 DEF SelectedActs
<1>4. a.confidence = b.confidence /\ a.priority = b.priority
  BY <1>2, <1>3
<1> QED
  BY <1>2, <1>4

\* A message without a cue answers something or says something new.
LEMMA CuelessAct ==
  ASSUME NEW slots, NEW facts, NEW m, m.cues = {}, NEW a \in SelectedActs(slots, facts, m)
  PROVE  a.act \in {"pending_answer", "new_information"}
<1>1. a \in CandidateActs(slots, facts, m)
  BY DEF SelectedActs
<1>2. Correction(facts, m) = {}
  BY DEF Correction
<1>3. CueActs(slots, m) = {}
  BY DEF CueActs
<1>4. \A c \in PendingAnswer(slots, m) : c.act = "pending_answer"
  BY DEF PendingAnswer
<1> QED
  BY <1>1, <1>2, <1>3, <1>4 DEF CandidateActs

\* The pilot replaces an act only by the greeting of a text that is nothing else, and
\* then the act it replaces leaves the slots to the message as well.
LEMMA PromotedAct ==
  ASSUME NEW text \in Texts, NEW slots, NEW facts, NEW n, NEW state, NEW failed,
         NEW enabled, NEW legacy \in LegacyActs(state, text),
         NEW rep, rep = Interpretation(text.clauses, slots, facts, n),
         NEW decision, decision = ActAuthority(legacy, rep, Projection(rep).act, failed, enabled)
  PROVE  \/ decision.act = legacy.act
         \/ /\ decision.mode = "semantic" /\ decision.act = "greeting"
            /\ legacy.act \in {"pending_answer", "new_information"}
<1> DEFINE projected == Projection(rep).act
<1>1. projected.act = ConversationalAct(text.clauses).act
  BY DEF Projection, ProjectedAct, Interpretation
<1> HIDE DEF projected
<1> SUFFICES ASSUME decision.act # legacy.act
             PROVE  /\ decision.mode = "semantic" /\ decision.act = "greeting"
                    /\ legacy.act \in {"pending_answer", "new_information"}
  OBVIOUS
<1>2. /\ ActRollback(rep, projected, failed) = NoValue
      /\ decision.mode = "semantic" /\ decision.act = projected.act
  BY DEF ActAuthority, Ruling, projected
<1>3. projected.act = "greeting"
  BY <1>2 DEF ActRollback, NoValue, LOW_RISK_SEMANTIC_ACTS
<1>4. IsGreeting(text.clauses)
  <2> DEFINE clauses == text.clauses
             marked  == {i \in DOMAIN MarkedActs : MarkedActs[i].act \in Marks(clauses)}
  <2>1. \A i \in DOMAIN MarkedActs : MarkedActs[i].act # "greeting"
    BY DEF MarkedActs
  <2>2. CASE marked # {}
    <3>1. ConversationalAct(clauses) = MarkedActs[Min(marked)]
      BY <2>2 DEF ConversationalAct
    <3>2. Min(marked) \in DOMAIN MarkedActs
      <4>1. marked \subseteq DOMAIN MarkedActs /\ DOMAIN MarkedActs = 1..7
        BY DEF MarkedActs
      <4> HIDE DEF marked
      <4>2. \E i \in marked : \A j \in marked : i <= j
        BY <2>2, <4>1
      <4> QED
        BY <4>1, <4>2 DEF Min
    <3> QED
      BY <1>1, <1>3, <2>1, <3>1, <3>2
  <2>3. CASE marked = {}
    <3> SUFFICES ASSUME ~ IsGreeting(clauses) PROVE FALSE
      OBVIOUS
    <3>1. ConversationalAct(clauses).act \in {"question", "new_information"}
      BY <2>3 DEF ConversationalAct
    <3> QED
      BY <1>1, <1>3, <3>1
  <2> QED
    BY <2>2, <2>3
<1>5. text.clauses # <<>> /\ text.message.cues = {}
  BY <1>4, TextsAssumption DEF IsGreeting
<1>6. legacy \in SelectedActs(state.slots, state.facts, text.message)
  BY <1>5 DEF LegacyActs
<1> QED
  BY <1>2, <1>3, <1>5, <1>6, CuelessAct

-----------------------------------------------------------------------------
\* Two missions that are alike but for their status; two states that hold the same of
\* what the user told.
AlikeMissions(a, b) == a.type = b.type /\ a.missing = b.missing /\ a.slots = b.slots

Alike(s, u) == s.slots = u.slots /\ s.facts = u.facts /\ AlikeMissions(s.mission, u.mission)

\* A mission is alike what each step of a turn makes of it, where what is asked and
\* answered does not change.
LEMMA ResolvedAlike ==
  ASSUME NEW a \in Mission, NEW b \in Mission, AlikeMissions(a, b), NEW slots, NEW m
  PROVE  AlikeMissions(MissionResolved(a, slots, m), MissionResolved(b, slots, m))
<1>1. IsMission(a) = IsMission(b)
  BY DEF IsMission, AlikeMissions
<1>2. CASE IsMission(a) /\ (Answered(slots, m) # {} \/ RepeatedAnswer(slots, m))
  BY <1>1, <1>2 DEF MissionResolved, AlikeMissions, Mission
<1>3. CASE ~ (IsMission(a) /\ (Answered(slots, m) # {} \/ RepeatedAnswer(slots, m)))
  BY <1>1, <1>3 DEF MissionResolved
<1> QED
  BY <1>2, <1>3

LEMMA AdvancedAlike ==
  ASSUME NEW a \in Mission, NEW b \in Mission, AlikeMissions(a, b), NEW facts, NEW slots
  PROVE  AlikeMissions(AdvancedMission(a, facts, slots), AdvancedMission(b, facts, slots))
<1>1. CASE a.type = ClaimType
  BY <1>1 DEF AdvancedMission, AlikeMissions, Mission, ClaimType
<1>2. CASE a.type # ClaimType
  BY <1>2 DEF AdvancedMission, AlikeMissions, ClaimType
<1> QED
  BY <1>1, <1>2

LEMMA ClarifiedAlike ==
  ASSUME NEW a \in Mission, NEW ambiguous
  PROVE  AlikeMissions(ClarifiedMission(a, ambiguous), a)
BY DEF ClarifiedMission, AlikeMissions, Mission

\* A turn does the same to the slots and the facts of states that are alike, and leaves
\* missions that are, whatever their topics and acts, if both acts listen for answers.
LEMMA TurnsAlike ==
  ASSUME NEW s \in States, NEW u \in States, Alike(s, u), NEW m \in Message, NEW n \in Turns,
         NEW a, NEW b, SuppressesSlots(a) <=> SuppressesSlots(b),
         TurnAdvanced(s, m, a, n) \in Mission, TurnAdvanced(u, m, b, n) \in Mission
  PROVE  /\ TurnFacts(s, m, a, n) = TurnFacts(u, m, b, n)
         /\ TurnSlots(s, m, a, n) = TurnSlots(u, m, b, n)
         /\ AlikeMissions(TurnMission(s, m, a, n), TurnMission(u, m, b, n))
<1>1. s.slots = u.slots /\ s.facts = u.facts /\ AlikeMissions(s.mission, u.mission)
  BY DEF Alike
<1>2. TurnClosed(s, m, a) = TurnClosed(u, m, b)
  BY <1>1 DEF TurnClosed
<1>3. TurnFacts(s, m, a, n) = TurnFacts(u, m, b, n)
  BY <1>1, <1>2 DEF TurnFacts
<1>4. /\ ResolveSlots(s, m, a, n).slots = ResolveSlots(u, m, b, n).slots
      /\ AlikeMissions(ResolveSlots(s, m, a, n).mission, ResolveSlots(u, m, b, n).mission)
      /\ ResolveSlots(s, m, a, n).mission \in Mission /\ ResolveSlots(u, m, b, n).mission \in Mission
  <2>1. s.mission \in Mission /\ u.mission \in Mission
    BY DEF States
  <2>2. ResolveSlots(s, m, a, n) \in States /\ ResolveSlots(u, m, b, n) \in States
    BY ResolveSlotsType
  <2>3. CASE SuppressesSlots(a)
    <3>1. ResolveSlots(s, m, a, n) = s /\ ResolveSlots(u, m, b, n) = u
      BY <2>3 DEF ResolveSlots
    <3> QED
      BY <1>1, <2>1, <3>1
  <2>4. CASE ~ SuppressesSlots(a)
    <3>1. /\ ResolveSlots(s, m, a, n).slots = SlotsResolved(s.slots, m)
          /\ ResolveSlots(u, m, b, n).slots = SlotsResolved(u.slots, m)
          /\ ResolveSlots(s, m, a, n).mission = MissionResolved(s.mission, s.slots, m)
          /\ ResolveSlots(u, m, b, n).mission = MissionResolved(u.mission, u.slots, m)
      BY <2>4, ResolvedParts
    <3>2. AlikeMissions(MissionResolved(s.mission, s.slots, m), MissionResolved(u.mission, u.slots, m))
      BY <1>1, <2>1, ResolvedAlike
    <3> QED
      BY <1>1, <2>2, <3>1, <3>2 DEF States
  <2> QED
    BY <2>3, <2>4
<1>5. TurnSlots(s, m, a, n) = TurnSlots(u, m, b, n)
  BY <1>1, <1>2, <1>3, <1>4 DEF TurnSlots
<1>6. AlikeMissions(TurnAdvanced(s, m, a, n), TurnAdvanced(u, m, b, n))
  BY <1>3, <1>4, <1>5, AdvancedAlike DEF TurnAdvanced
<1>7. /\ AlikeMissions(TurnMission(s, m, a, n), TurnAdvanced(s, m, a, n))
      /\ AlikeMissions(TurnMission(u, m, b, n), TurnAdvanced(u, m, b, n))
  BY ClarifiedAlike DEF TurnMission
<1> QED
  BY <1>3, <1>5, <1>6, <1>7 DEF AlikeMissions

-----------------------------------------------------------------------------
\* A proposal has nothing to say of a mission but its status: what it asks for is alike.
Told == {"missing", "slots"}

StatusOnly(p, mission) ==
  /\ p.before.type = mission.type
  /\ \A f \in Told : /\ f \in p.changes => p.after[f] = mission[f]
                     /\ f \notin p.changes => p.before[f] = mission[f]

ForStatus(n, mission) == {p \in OwnProposals : p.turn = n => StatusOnly(p, mission)}

\* A decision on such proposals changes nothing but the status.
LEMMA DecisionAlike ==
  ASSUME NEW mission \in Mission, NEW n \in Turns, NEW last \in Turns,
         NEW p \in Seq(SoundProposals(last)),
         \A i \in DOMAIN p : p[i].turn = n => StatusOnly(p[i], mission),
         NEW d \in Decisions(mission, p, n)
  PROVE  AlikeMissions(d.mission, mission)
<1> DEFINE candidates == Candidates(p, n)
<1>1. CASE candidates = {}
  BY <1>1 DEF Decisions, AlikeMissions
<1>2. CASE candidates # {}
  <2>1. PICK i \in Winners(p, candidates) : d = Verdict(mission, p, candidates, i)
    BY <1>2 DEF Decisions
  <2> DEFINE indices == IF p[i].kind = "maintain" THEN candidates ELSE {i}
             merged  == Merged(p, indices, i)
  <2>2. i \in candidates /\ i \in DOMAIN p /\ candidates \in SUBSET DOMAIN p
    BY <2>1, WinnersType
  <2>3. d.mission = mission \/ d.mission = merged
    BY <2>1, VerdictCases
  <2>4. indices \in SUBSET DOMAIN p /\ indices \subseteq candidates
    BY <2>2
  <2>5. \A j \in candidates : p[j].turn = n /\ StatusOnly(p[j], mission)
    BY <2>2, CandidateOfTurn
  <2>6. p \in Seq(OwnProposals) /\ p[i].before \in Mission
    <3>1. p \in Seq(OwnProposals)
      BY DEF SoundProposals
    <3>2. p[i] \in OwnProposals
      BY <2>2, <3>1
    <3> QED
      BY <3>1, <3>2 DEF OwnProposals, Proposals
  <2> HIDE DEF candidates, indices
  <2>7. ASSUME NEW f \in Told PROVE MergedField(p, indices, i, f) = mission[f]
    <3>1. f \in DeltaField
      BY DEF Told, DeltaField
    <3>2. \A j \in candidates : /\ f \in p[j].changes => p[j].after[f] = mission[f]
                                /\ f \notin p[j].changes => p[j].before[f] = mission[f]
      BY <2>5 DEF StatusOnly
    <3>3. CASE \E j \in indices : f \in p[j].changes /\ MergedField(p, indices, i, f) = p[j].after[f]
      <4>1. PICK j \in indices : f \in p[j].changes /\ MergedField(p, indices, i, f) = p[j].after[f]
        BY <3>3
      <4>2. j \in candidates
        BY <2>4
      <4>3. f \in p[j].changes => p[j].after[f] = mission[f]
        BY <3>2, <4>2
      <4> QED
        BY <4>1, <4>3
    <3>4. CASE /\ \A j \in indices : f \notin p[j].changes
               /\ MergedField(p, indices, i, f) = p[i].before[f]
      <4>1. i \in indices
        BY <2>2 DEF indices
      <4> QED
        BY <2>2, <3>2, <3>4, <4>1
    <3> QED
      BY <2>2, <2>4, <2>6, <3>1, <3>3, <3>4, MergedFieldOrigin
  <2>8. /\ MergedField(p, indices, i, "missing") = mission["missing"]
        /\ MergedField(p, indices, i, "slots") = mission["slots"]
    BY <2>7 DEF Told
  <2>9. p[i].before.type = mission.type
    BY <2>2, <2>5 DEF StatusOnly
  <2>10. AlikeMissions(merged, mission)
    BY <2>6, <2>8, <2>9 DEF Merged, AlikeMissions, Mission
  <2> QED
    BY <2>3, <2>10 DEF AlikeMissions
<1> QED
  BY <1>1, <1>2

\* And there is one decision.
LEMMA OneDecision ==
  ASSUME NEW mission, NEW p \in Seq(OwnProposals), NEW n,
         NEW d \in Decisions(mission, p, n), NEW e \in Decisions(mission, p, n)
  PROVE  d = e
<1> DEFINE candidates == Candidates(p, n)
<1>1. CASE candidates = {}
  BY <1>1 DEF Decisions
<1>2. CASE candidates # {}
  <2>1. PICK i \in Winners(p, candidates) : d = Verdict(mission, p, candidates, i)
    BY <1>2 DEF Decisions
  <2>2. PICK j \in Winners(p, candidates) : e = Verdict(mission, p, candidates, j)
    BY <1>2 DEF Decisions
  <2>3. i \in candidates /\ j \in candidates /\ candidates \in SUBSET DOMAIN p
    BY <2>1, <2>2, WinnersType
  <2>4. p[i].kind \in TransitionKind /\ p[j].kind \in TransitionKind
    <3>1. p[i] \in OwnProposals /\ p[j] \in OwnProposals
      BY <2>3
    <3> QED
      BY <3>1 DEF OwnProposals, Proposals
  <2> DEFINE pi == TRANSITION_PRECEDENCE[p[i].kind]
             pj == TRANSITION_PRECEDENCE[p[j].kind]
  <2>5. pi \in Nat /\ pj \in Nat /\ i \in Nat /\ j \in Nat
    BY <2>3, <2>4 DEF TRANSITION_PRECEDENCE, TransitionKind
  <2>6. /\ pj < pi \/ (pj = pi /\ i <= j)
        /\ pi < pj \/ (pi = pj /\ j <= i)
    BY <2>1, <2>2, <2>3 DEF Winners
  <2> HIDE DEF pi, pj
  <2>7. i = j
    BY <2>5, <2>6
  <2> QED
    BY <2>1, <2>2, <2>7
<1> QED
  BY <1>1, <1>2

\* What a turn proposes is about the status only.
LEMMA SlotProposalsForStatus ==
  ASSUME NEW mission \in Mission, NEW slots \in [Slot -> SlotState], NEW m \in Message,
         NEW n \in Turns, NEW after \in Mission,
         \/ SlotProposals(mission, slots, m, n) = <<>>
         \/ AlikeMissions(MissionResolved(mission, slots, m), after)
  PROVE  SlotProposals(mission, slots, m, n) \in Seq(ForStatus(n, after))
<1> DEFINE list     == SlotProposals(mission, slots, m, n)
           resolved == MissionResolved(mission, slots, m)
<1>1. list \in Seq(OwnProposals)
  BY SlotProposalsType
<1>2. \A i \in DOMAIN list : /\ list[i].before = resolved
                             /\ list[i].changes \subseteq {"status"}
  BY DEF SlotProposals, Proposal
<1>3. CASE list = <<>>
  BY <1>3
<1>4. CASE AlikeMissions(resolved, after)
  <2> HIDE DEF list, resolved
  <2>1. \A i \in DOMAIN list : list[i] \in ForStatus(n, after)
    BY <1>1, <1>2, <1>4 DEF ForStatus, StatusOnly, Told, AlikeMissions, Mission
  <2> QED
    BY <1>1, <2>1 DEF list
<1> QED
  BY <1>3, <1>4

LEMMA AdvancementProposalsForStatus ==
  ASSUME NEW mission \in Mission, NEW advanced \in Mission, NEW clarified \in Mission,
         NEW n \in Turns, mission.type = clarified.type, advanced.type = clarified.type
  PROVE  AdvancementProposals(mission, advanced, clarified, n) \in Seq(ForStatus(n, clarified))
<1> DEFINE list    == AdvancementProposals(mission, advanced, clarified, n)
           before  == IF clarified # advanced THEN advanced ELSE mission
           changes == {f \in DeltaField : clarified[f] # before[f]}
<1>1. list \in Seq(OwnProposals)
  BY AdvancementProposalsType
<1>2. \A i \in DOMAIN list : /\ list[i].before = before /\ list[i].after = clarified
                             /\ list[i].changes = changes
  BY DEF AdvancementProposals, Proposal
<1>3. before.type = clarified.type
  OBVIOUS
<1>4. \A f \in Told : f \notin changes => before[f] = clarified[f]
  BY DEF Told, DeltaField
<1> HIDE DEF list, before, changes
<1>5. \A i \in DOMAIN list : list[i] \in ForStatus(n, clarified)
  BY <1>1, <1>2, <1>3, <1>4 DEF ForStatus, StatusOnly
<1> QED
  BY <1>1, <1>5 DEF list

LEMMA TopicProposalsForStatus ==
  ASSUME NEW mission \in Mission, NEW active, NEW move, NEW act, NEW n \in Turns
  PROVE  TopicProposals(mission, active, move, act, n) \in Seq(ForStatus(n, mission))
<1> DEFINE list == TopicProposals(mission, active, move, act, n)
<1>1. list \in Seq(OwnProposals)
  BY TopicProposalsType
<1>2. \A i \in DOMAIN list : list[i].before = mission /\ list[i].changes = {"status"}
  BY DEF TopicProposals, Proposal
<1> HIDE DEF list
<1>3. \A i \in DOMAIN list : list[i] \in ForStatus(n, mission)
  BY <1>1, <1>2 DEF ForStatus, StatusOnly, Told
<1> QED
  BY <1>1, <1>3 DEF list

-----------------------------------------------------------------------------
\* The need of a claim, or of a conversation without a mission, has not been asked for.
NeedUnasked(state) ==
  state.mission.type \in {ClaimType, NoType} => state.slots["user_need"] = "absent"

\* The state of a conversation after n turns.
Conversation(state, n) ==
  /\ state \in States /\ HasOneOpenTopic(state.topics)
  /\ state.proposals \in Seq(SoundProposals(n))
  /\ NeedUnasked(state)

LEMMA NoOldTurn ==
  ASSUME NEW n \in Turns, n + 1 \in Turns, NEW p \in Seq(SoundProposals(n))
  PROVE  \A i \in DOMAIN p : p[i].turn # n + 1
<1> SUFFICES ASSUME NEW i \in DOMAIN p PROVE p[i].turn # n + 1
  OBVIOUS
<1>1. p[i] \in SoundProposals(n)
  OBVIOUS
<1>2. p[i].turn <= n /\ p[i].turn \in Turns
  BY <1>1 DEF SoundProposals, OwnProposals, Proposals
<1> QED
  BY <1>2, MaxTurnsAssumption DEF Turns

\* All a turn proposes is about the status of the mission it has come to.
LEMMA BegunForStatus ==
  ASSUME NEW state \in States, HasOneOpenTopic(state.topics), NEW m \in Message, NEW act,
         NEW active \in ActiveTopics(state.topics), NEW n \in Turns,
         \A i \in DOMAIN state.proposals : state.proposals[i].turn # n,
         NeedUnasked(state)
  PROVE  LET begun == BegunState(state, m, act, active, n)
         IN  begun.proposals \in Seq(ForStatus(n, begun.mission))
<1> DEFINE resolved == ResolveSlots(state, m, act, n)
           advanced == TurnAdvanced(state, m, act, n)
           mission  == TurnMission(state, m, act, n)
           move     == TurnMove(state, m, act, active, n)
           begun    == BegunState(state, m, act, active, n)
           own      == ForStatus(n, mission)
           advances == AdvancementProposals(resolved.mission, advanced, mission, n)
<1>1. /\ advanced \in Mission /\ mission \in Mission /\ begun.mission = mission
      /\ resolved \in States
      /\ begun.proposals
           = (resolved.proposals \o advances) \o TopicProposals(mission, active, move, act, n)
  BY TurnParts
<1>2. /\ state.mission \in Mission /\ resolved.mission \in Mission
      /\ state.slots \in [Slot -> SlotState] /\ state.proposals \in Seq(OwnProposals)
  BY <1>1 DEF States
<1>3. /\ mission.type = state.mission.type /\ resolved.mission.type = mission.type
      /\ advanced.type = mission.type
  BY <1>1, TurnMissionType
<1>4. state.mission.type # ClaimType => AlikeMissions(resolved.mission, mission)
  <2>1. state.mission.type # ClaimType => advanced = resolved.mission
    BY <1>3 DEF TurnAdvanced, AdvancedMission, ClaimType
  <2>2. AlikeMissions(mission, advanced)
    BY <1>1, ClarifiedAlike DEF TurnMission, AmbiguousWithdrawal
  <2> HIDE DEF mission, advanced, resolved
  <2> QED
    BY <2>1, <2>2 DEF AlikeMissions
<1>5. state.proposals \in Seq(own)
  <2>1. \A i \in DOMAIN state.proposals : state.proposals[i] \in own
    BY <1>2 DEF ForStatus
  <2> QED
    BY <1>2, <2>1
<1> HIDE DEF mission, advanced, begun, move
<1>6. resolved.proposals \in Seq(own)
  <2>1. CASE SuppressesSlots(act)
    BY <1>5, <2>1, ResolvedParts
  <2>2. CASE ~ SuppressesSlots(act)
    <3> DEFINE list == SlotProposals(state.mission, state.slots, m, n)
    <3>1. resolved.mission = MissionResolved(state.mission, state.slots, m)
      BY <2>2, ResolvedParts
    <3>2. state.mission.type = ClaimType => list = <<>>
      BY <1>2, ClaimNoSlotProposals DEF NeedUnasked
    <3>3. list \in Seq(own)
      <4>1. list = <<>> \/ AlikeMissions(MissionResolved(state.mission, state.slots, m), mission)
        BY <1>4, <3>1, <3>2
      <4> QED
        BY <1>1, <1>2, <4>1, SlotProposalsForStatus
    <3>4. resolved.proposals = state.proposals \o list
      BY <2>2, ResolvedParts
    <3> HIDE DEF list, own, resolved
    <3> QED
      BY <1>5, <3>3, <3>4, ConcatProperties
  <2> QED
    BY <2>1, <2>2
<1>7. advances \in Seq(own)
  BY <1>1, <1>2, <1>3, AdvancementProposalsForStatus
<1>8. TopicProposals(mission, active, move, act, n) \in Seq(own)
  BY <1>1, TopicProposalsForStatus
<1>9. begun.proposals \in Seq(own)
  <2> HIDE DEF own, resolved, advances
  <2> QED
    BY <1>1, <1>6, <1>7, <1>8, ConcatProperties
<1> QED
  BY <1>1, <1>9 DEF begun

\* begin_turn takes a conversation one turn further.
LEMMA ConversationBegins ==
  ASSUME NEW n \in Turns, n + 1 \in Turns, NEW state, Conversation(state, n), NEW m \in Message,
         NEW act, NEW begun \in Begun(state, m, act, n + 1)
  PROVE  /\ Conversation(begun, n + 1)
         /\ begun.slots = TurnSlots(state, m, act, n + 1)
         /\ begun.facts = TurnFacts(state, m, act, n + 1)
         /\ begun.mission = TurnMission(state, m, act, n + 1)
         /\ TurnAdvanced(state, m, act, n + 1) \in Mission
         /\ begun.mission.type = state.mission.type
         /\ begun.mission.type = ClaimType =>
              /\ begun.mission.slots = begun.slots
              /\ begun.mission.missing = PendingSlots(begun.slots)
         /\ \A i \in DOMAIN begun.proposals :
              begun.proposals[i].turn = n + 1 => StatusOnly(begun.proposals[i], begun.mission)
<1> DEFINE k == n + 1
<1>1. /\ state \in States /\ HasOneOpenTopic(state.topics) /\ NeedUnasked(state)
      /\ state.proposals \in Seq(SoundProposals(n)) /\ k \in Turns /\ n <= k
  BY MaxTurnsAssumption DEF Conversation, Turns
<1>2. \A i \in DOMAIN state.proposals : state.proposals[i].turn # k
  BY <1>1, NoOldTurn
<1>3. state.proposals \in Seq(SoundProposals(k))
  BY <1>1, OlderProposals
<1>4. PICK active \in ActiveTopics(state.topics) : begun = BegunState(state, m, act, active, k)
  BY DEF Begun
<1> HIDE DEF k
<1>5. begun \in States /\ HasOneOpenTopic(begun.topics) /\ begun.proposals \in Seq(SoundProposals(k))
  BY <1>1, <1>3, <1>4, BegunStateType, BegunSound
<1>6. begun.proposals \in Seq(ForStatus(k, begun.mission))
  BY <1>1, <1>2, <1>4, BegunForStatus
<1>7. /\ begun.slots = TurnSlots(state, m, act, k) /\ begun.facts = TurnFacts(state, m, act, k)
      /\ begun.mission = TurnMission(state, m, act, k) /\ TurnAdvanced(state, m, act, k) \in Mission
      /\ ResolveSlots(state, m, act, k) \in States
  BY <1>1, <1>4, TurnParts
<1>8. begun.mission.type = state.mission.type
  BY <1>1, <1>7, TurnMissionType
<1>9. NeedUnasked(begun)
  BY <1>1, <1>7, <1>8, TurnSlotsKept DEF NeedUnasked
<1>10. ASSUME begun.mission.type = ClaimType
       PROVE  /\ begun.mission.slots = begun.slots
              /\ begun.mission.missing = PendingSlots(begun.slots)
  <2> DEFINE resolved == ResolveSlots(state, m, act, k)
             advanced == TurnAdvanced(state, m, act, k)
  <2>1. resolved.mission.type = ClaimType
    BY <1>1, <1>7, <1>8, <1>10, TurnMissionType
  <2>2. advanced.slots = begun.slots /\ advanced.missing = PendingSlots(begun.slots)
    BY <1>7, <2>1 DEF TurnAdvanced, AdvancedMission, ClaimType, States, Mission
  <2>3. AlikeMissions(begun.mission, advanced)
    BY <1>7, ClarifiedAlike DEF TurnMission, AmbiguousWithdrawal
  <2> HIDE DEF advanced
  <2> QED
    BY <2>2, <2>3 DEF AlikeMissions
<1>11. \A i \in DOMAIN begun.proposals :
         begun.proposals[i].turn = k => StatusOnly(begun.proposals[i], begun.mission)
  BY <1>6 DEF ForStatus
<1> QED
  BY <1>5, <1>7, <1>8, <1>9, <1>10, <1>11 DEF Conversation, k

\* What the mission of a finished turn is: alike the one begin_turn left, or new.
LEMMA FinishedMission ==
  ASSUME NEW n \in Turns, NEW begun, Conversation(begun, n), NEW m \in Message,
         \A i \in DOMAIN begun.proposals :
           begun.proposals[i].turn = n => StatusOnly(begun.proposals[i], begun.mission),
         NEW mission \in Missions(begun, m, n)
  PROVE  /\ mission \in Mission
         /\ IsMission(begun.mission) => AlikeMissions(mission, begun.mission)
         /\ ~ IsMission(begun.mission) => mission = NewMission(m.opens)
<1>1. /\ begun \in States /\ begun.mission \in Mission /\ begun.proposals \in Seq(OwnProposals)
      /\ begun.proposals \in Seq(SoundProposals(n))
  BY DEF Conversation, States
<1>2. CASE IsMission(begun.mission)
  <2>1. PICK d \in Decisions(begun.mission, begun.proposals, n) : mission = d.mission
    BY <1>2 DEF Missions
  <2>2. d.mission \in Mission
    BY <1>1, DecisionsType DEF Decision
  <2>3. AlikeMissions(d.mission, begun.mission)
    BY <1>1, DecisionAlike
  <2> QED
    BY <1>2, <2>1, <2>2, <2>3
<1>3. CASE ~ IsMission(begun.mission)
  <2>1. m.opens \in MissionType
    BY DEF Message
  <2> QED
    BY <1>3, <2>1, NewMissionType DEF Missions
<1> QED
  BY <1>2, <1>3

\* The rest of a turn ends it as one of a conversation.
LEMMA ConversationFinishes ==
  ASSUME NEW n \in Turns, NEW begun, Conversation(begun, n), NEW m \in Message,
         begun.mission.type = ClaimType => /\ begun.mission.slots = begun.slots
                                           /\ begun.mission.missing = PendingSlots(begun.slots),
         \A i \in DOMAIN begun.proposals :
           begun.proposals[i].turn = n => StatusOnly(begun.proposals[i], begun.mission),
         NEW done \in Finished(begun, m, n)
  PROVE  /\ Conversation(done, n)
         /\ done.facts = begun.facts /\ done.mission \in Missions(begun, m, n)
         /\ done.slots = MergedSlots(begun.slots, MissionSlots(done.mission))
         /\ done.topics = ProjectedTopics(begun.topics, done.mission)
         /\ done.proposals = begun.proposals
<1>1. PICK mission \in Missions(begun, m, n) :
        done = StateRecord(MergedSlots(begun.slots, MissionSlots(mission)), begun.facts, mission,
                           ProjectedTopics(begun.topics, mission), begun.proposals)
  BY DEF Finished
<1>2. /\ done.facts = begun.facts /\ done.mission = mission
      /\ done.slots = MergedSlots(begun.slots, MissionSlots(mission))
      /\ done.topics = ProjectedTopics(begun.topics, mission)
      /\ done.proposals = begun.proposals
  BY <1>1 DEF StateRecord
<1>3. /\ mission \in Mission
      /\ IsMission(begun.mission) => AlikeMissions(mission, begun.mission)
      /\ ~ IsMission(begun.mission) => mission = NewMission(m.opens)
  BY FinishedMission
<1>4. /\ begun \in States /\ begun.slots \in [Slot -> SlotState] /\ begun.facts \in Facts
      /\ begun.topics \in TopicStack /\ HasOneOpenTopic(begun.topics) /\ NeedUnasked(begun)
      /\ begun.proposals \in Seq(OwnProposals) /\ begun.proposals \in Seq(SoundProposals(n))
  BY DEF Conversation, States
<1>5. MergedSlots(begun.slots, MissionSlots(mission)) \in [Slot -> SlotState]
  BY <1>3, <1>4, MergeType
<1>6. done \in States /\ HasOneOpenTopic(done.topics)
  BY <1>1, <1>2, <1>3, <1>4, <1>5, ProjectedTopicsOneOpen DEF States, StateRecord
<1>7. NeedUnasked(done)
  <2> SUFFICES ASSUME mission.type \in {ClaimType, NoType}
               PROVE  MergedSlots(begun.slots, MissionSlots(mission))["user_need"] = "absent"
    BY <1>2 DEF NeedUnasked
  <2>0. "user_need" \in Slot
    BY DEF Slot
  <2>1. CASE IsMission(begun.mission)
    <3>1. mission.type = begun.mission.type /\ mission.type = ClaimType
      BY <1>3, <2>1 DEF AlikeMissions, IsMission
    <3>2. begun.slots["user_need"] = "absent"
      BY <1>4, <3>1 DEF NeedUnasked
    <3>3. mission.slots = begun.slots /\ mission.missing = PendingSlots(begun.slots)
      BY <1>3, <2>1, <3>1 DEF AlikeMissions
    <3>4. "user_need" \notin PendingSlots(begun.slots)
      BY <3>2 DEF PendingSlots
    <3> QED
      BY <2>0, <3>2, <3>3, <3>4 DEF MissionSlots, MergedSlots
  <2>2. CASE ~ IsMission(begun.mission)
    <3>1. mission = NewMission(m.opens) /\ begun.mission.type = NoType
      BY <1>3, <2>2 DEF IsMission
    <3>2. begun.slots["user_need"] = "absent"
      BY <1>4, <3>1 DEF NeedUnasked
    <3>3. m.opens \in MissionType
      BY DEF Message
    <3>4. mission.type = ClaimType /\ mission.slots = NoSlots /\ mission.type = m.opens
      BY <3>1, <3>3 DEF NewMission, MissionType, NoType
    <3>5. "user_need" \notin mission.missing
      BY <3>1, <3>4 DEF NewMission, ClaimType
    <3> QED
      BY <2>0, <3>2, <3>4, <3>5 DEF MissionSlots, MergedSlots, NoSlots
  <2> QED
    BY <2>1, <2>2
<1> QED
  BY <1>2, <1>4, <1>6, <1>7 DEF Conversation

\* A turn takes a conversation one turn further, interrupted or not.
LEMMA ConversationGoesOn ==
  ASSUME NEW n \in Turns, n + 1 \in Turns, NEW state, Conversation(state, n), NEW m \in Message,
         NEW act, NEW interrupted \in BOOLEAN,
         NEW after \in Outcomes(state, m, act, n + 1, interrupted)
  PROVE  Conversation(after, n + 1)
<1>1. CASE interrupted
  BY <1>1, ConversationBegins DEF Outcomes
<1>2. CASE ~ interrupted
  <2>1. PICK begun \in Begun(state, m, act, n + 1) : after \in Finished(begun, m, n + 1)
    BY <1>2 DEF Outcomes
  <2>2. /\ Conversation(begun, n + 1)
        /\ begun.mission.type = ClaimType => /\ begun.mission.slots = begun.slots
                                             /\ begun.mission.missing = PendingSlots(begun.slots)
        /\ \A i \in DOMAIN begun.proposals :
             begun.proposals[i].turn = n + 1 => StatusOnly(begun.proposals[i], begun.mission)
    BY ConversationBegins
  <2> QED
    BY <2>1, <2>2, ConversationFinishes
<1> QED
  BY <1>1, <1>2

-----------------------------------------------------------------------------
\* Two conversations that are alike stay alike when they get one message, whatever
\* their topics and acts, if both acts listen for answers or neither does.
LEMMA BegunAlike ==
  ASSUME NEW n \in Turns, n + 1 \in Turns, NEW s, Conversation(s, n), NEW u, Conversation(u, n),
         Alike(s, u), NEW m \in Message, NEW a, NEW b, SuppressesSlots(a) <=> SuppressesSlots(b),
         NEW x \in Begun(s, m, a, n + 1), NEW y \in Begun(u, m, b, n + 1)
  PROVE  Alike(x, y)
<1>1. /\ x.slots = TurnSlots(s, m, a, n + 1) /\ x.facts = TurnFacts(s, m, a, n + 1)
      /\ x.mission = TurnMission(s, m, a, n + 1) /\ TurnAdvanced(s, m, a, n + 1) \in Mission
  BY ConversationBegins
<1>2. /\ y.slots = TurnSlots(u, m, b, n + 1) /\ y.facts = TurnFacts(u, m, b, n + 1)
      /\ y.mission = TurnMission(u, m, b, n + 1) /\ TurnAdvanced(u, m, b, n + 1) \in Mission
  BY ConversationBegins
<1>3. s \in States /\ u \in States
  BY DEF Conversation
<1>4. /\ TurnFacts(s, m, a, n + 1) = TurnFacts(u, m, b, n + 1)
      /\ TurnSlots(s, m, a, n + 1) = TurnSlots(u, m, b, n + 1)
      /\ AlikeMissions(TurnMission(s, m, a, n + 1), TurnMission(u, m, b, n + 1))
  BY <1>1, <1>2, <1>3, TurnsAlike
<1> QED
  BY <1>1, <1>2, <1>4 DEF Alike

LEMMA OutcomesAlike ==
  ASSUME NEW n \in Turns, n + 1 \in Turns, NEW s, Conversation(s, n), NEW u, Conversation(u, n),
         Alike(s, u), NEW m \in Message, NEW a, NEW b, SuppressesSlots(a) <=> SuppressesSlots(b),
         NEW interrupted \in BOOLEAN,
         NEW x \in Outcomes(s, m, a, n + 1, interrupted),
         NEW y \in Outcomes(u, m, b, n + 1, interrupted)
  PROVE  Alike(x, y)
<1>1. CASE interrupted
  BY <1>1, BegunAlike DEF Outcomes
<1>2. CASE ~ interrupted
  <2>1. PICK v \in Begun(s, m, a, n + 1) : x \in Finished(v, m, n + 1)
    BY <1>2 DEF Outcomes
  <2>2. PICK w \in Begun(u, m, b, n + 1) : y \in Finished(w, m, n + 1)
    BY <1>2 DEF Outcomes
  <2>3. Alike(v, w)
    BY BegunAlike
  <2>4. /\ Conversation(v, n + 1)
        /\ v.mission.type = ClaimType => /\ v.mission.slots = v.slots
                                         /\ v.mission.missing = PendingSlots(v.slots)
        /\ \A i \in DOMAIN v.proposals :
             v.proposals[i].turn = n + 1 => StatusOnly(v.proposals[i], v.mission)
    BY ConversationBegins
  <2>5. /\ Conversation(w, n + 1)
        /\ w.mission.type = ClaimType => /\ w.mission.slots = w.slots
                                         /\ w.mission.missing = PendingSlots(w.slots)
        /\ \A i \in DOMAIN w.proposals :
             w.proposals[i].turn = n + 1 => StatusOnly(w.proposals[i], w.mission)
    BY ConversationBegins
  <2>6. /\ x.facts = v.facts /\ x.slots = MergedSlots(v.slots, MissionSlots(x.mission))
        /\ x.mission \in Missions(v, m, n + 1)
    BY <2>1, <2>4, ConversationFinishes
  <2>7. /\ y.facts = w.facts /\ y.slots = MergedSlots(w.slots, MissionSlots(y.mission))
        /\ y.mission \in Missions(w, m, n + 1)
    BY <2>2, <2>5, ConversationFinishes
  <2>8. /\ IsMission(v.mission) => AlikeMissions(x.mission, v.mission)
        /\ ~ IsMission(v.mission) => x.mission = NewMission(m.opens)
    BY <2>4, <2>6, FinishedMission
  <2>9. /\ IsMission(w.mission) => AlikeMissions(y.mission, w.mission)
        /\ ~ IsMission(w.mission) => y.mission = NewMission(m.opens)
    BY <2>5, <2>7, FinishedMission
  <2>10. AlikeMissions(x.mission, y.mission)
    BY <2>3, <2>8, <2>9 DEF Alike, AlikeMissions, IsMission
  <2>11. MissionSlots(x.mission) = MissionSlots(y.mission)
    BY <2>10 DEF AlikeMissions, MissionSlots
  <2> QED
    BY <2>3, <2>6, <2>7, <2>10, <2>11 DEF Alike
<1> QED
  BY <1>1, <1>2

\* And one turn has one outcome.
LEMMA OneBegun ==
  ASSUME NEW n \in Turns, NEW state, Conversation(state, n), NEW m, NEW act, NEW k
  PROVE  \A x, y \in Begun(state, m, act, k) : x = y
<1>1. \A a, b \in ActiveTopics(state.topics) : a = b
  BY EmptyStackType DEF Conversation, HasOneOpenTopic, ActiveTopics
<1> QED
  BY <1>1 DEF Begun

LEMMA OneFinished ==
  ASSUME NEW n \in Turns, NEW begun, Conversation(begun, n), NEW m
  PROVE  \A x, y \in Finished(begun, m, n) : x = y
<1>1. begun.proposals \in Seq(OwnProposals)
  BY DEF Conversation, States
<1>2. \A d, e \in Decisions(begun.mission, begun.proposals, n) : d = e
  BY <1>1, OneDecision
<1>3. \A a, b \in Missions(begun, m, n) : a = b
  BY <1>2 DEF Missions
<1> QED
  BY <1>3 DEF Finished

LEMMA OneOutcome ==
  ASSUME NEW n \in Turns, n + 1 \in Turns, NEW state, Conversation(state, n), NEW m \in Message,
         NEW a, NEW b, Begun(state, m, a, n + 1) = Begun(state, m, b, n + 1),
         NEW interrupted \in BOOLEAN,
         NEW x \in Outcomes(state, m, a, n + 1, interrupted),
         NEW y \in Outcomes(state, m, b, n + 1, interrupted)
  PROVE  x = y
<1>1. CASE interrupted
  BY <1>1, OneBegun DEF Outcomes
<1>2. CASE ~ interrupted
  <2>1. PICK v \in Begun(state, m, a, n + 1) : x \in Finished(v, m, n + 1)
    BY <1>2 DEF Outcomes
  <2>2. PICK w \in Begun(state, m, a, n + 1) : y \in Finished(w, m, n + 1)
    BY <1>2 DEF Outcomes
  <2>3. v = w
    BY OneBegun
  <2>4. Conversation(v, n + 1)
    BY ConversationBegins
  <2> QED
    BY <2>1, <2>2, <2>3, <2>4, OneFinished
<1> QED
  BY <1>1, <1>2

\* Where no topic without a name is open, a greeting does what an answer or something
\* new does.
LEMMA GreetingLikeAnswer ==
  ASSUME NEW state, \A t \in OpenTopics(state.topics) : ~ IsUnresolved(t), NEW m,
         NEW act \in {"pending_answer", "new_information"}, NEW k
  PROVE  Begun(state, m, "greeting", k) = Begun(state, m, act, k)
<1>1. SuppressesSlots("greeting") = FALSE /\ SuppressesSlots(act) = FALSE
  BY DEF SuppressesSlots
<1>2. ActConfidence("greeting") = 86 /\ ActConfidence(act) = 86
  BY DEF ActConfidence
<1>3. ASSUME NEW active \in ActiveTopics(state.topics)
      PROVE  BegunState(state, m, "greeting", active, k) = BegunState(state, m, act, active, k)
  <2>1. ~ IsUnresolved(active)
    BY DEF ActiveTopics, IsUnresolved, NoTopic, MissionTopic
  <2>2. \A mission, topics, direction :
          TopicMove(mission, topics, active, "greeting", direction, k)
            = TopicMove(mission, topics, active, act, direction, k)
    BY <2>1 DEF TopicMove
  <2>3. \A mission, move :
          TopicProposals(mission, active, move, "greeting", k)
            = TopicProposals(mission, active, move, act, k)
    BY <1>2 DEF TopicProposals
  <2>4. \A v, direction : UpdateTopicStack(v, active, "greeting", direction, k)
                            = UpdateTopicStack(v, active, act, direction, k)
    BY <2>2, <2>3 DEF UpdateTopicStack
  <2>5. \A v, slots : AssimilateFacts(v, slots, m, "greeting", k) = AssimilateFacts(v, slots, m, act, k)
    BY <1>1 DEF AssimilateFacts
  <2>6. ResolveSlots(state, m, "greeting", k) = ResolveSlots(state, m, act, k)
    BY <1>1 DEF ResolveSlots
  <2> QED
    BY <2>4, <2>5, <2>6 DEF BegunState
<1> QED
  BY <1>3 DEF Begun

\* Two conversations in which the same was told read a message as one act.
LEMMA OneLegacyAct ==
  ASSUME NEW s, NEW u, s.slots = u.slots, s.facts = u.facts, NEW text,
         NEW legacy \in LegacyActs(s, text), NEW alone \in LegacyActs(u, text)
  PROVE  legacy.act = alone.act
<1>1. LegacyActs(s, text) = LegacyActs(u, text)
  BY DEF LegacyActs
<1>2. CASE text.clauses = <<>>
  BY <1>1, <1>2 DEF LegacyActs
<1>3. CASE text.clauses # <<>>
  BY <1>1, <1>3, OneActSelected DEF LegacyActs
<1> QED
  BY <1>2, <1>3

-----------------------------------------------------------------------------
\* Both conversations are in the same turn. What the users told and what is asked of
\* them is the same in both, for a decision on either changes only the status of its
\* mission; and they part when a greeting finds a topic without a name open.
PilotInv ==
  /\ turn \in Turns /\ pilot \in BOOLEAN
  /\ Conversation(session, turn) /\ Conversation(unaided, turn)
  /\ Alike(session, unaided)
  /\ ~parted => session = unaided

LEMMA PilotInvInit == SemanticInit => PilotInv
<1> SUFFICES ASSUME SemanticInit PROVE PilotInv
  OBVIOUS
<1>1. turn = 0 /\ session = NewState /\ unaided = NewState /\ pilot \in Enabled
  BY DEF SemanticInit, Init
<1>2. turn \in Turns
  BY <1>1, MaxTurnsAssumption DEF Turns
<1>3. NewState.slots = NoSlots
  BY DEF NewState, StateRecord
<1>4. NeedUnasked(NewState)
  BY <1>3 DEF NeedUnasked, NoSlots, Slot
<1>5. Conversation(NewState, turn)
  BY <1>4, NewStateType, NoProposalsYet DEF Conversation
<1>6. Alike(NewState, NewState)
  BY DEF Alike, AlikeMissions
<1> QED
  BY <1>1, <1>2, <1>5, <1>6, EnabledAssumption DEF PilotInv

\* What a turn does to either conversation, given the act recognised in each.
Both(text, failed, interrupted, legacy, alone) ==
  LET n          == turn + 1
      rep        == Interpretation(text.clauses, session.slots, session.facts, n)
      decision   == ActAuthority(legacy, rep, Projection(rep).act, failed, pilot)
  IN  /\ session' \in Outcomes(session, text.message, decision.act, n, interrupted)
      /\ unaided' \in Outcomes(unaided, text.message, alone.act, n, interrupted)
      /\ parted' = (parted \/ /\ decision.mode = "semantic"
                              /\ \E t \in OpenTopics(session.topics) : IsUnresolved(t))

LEMMA PilotInvStep == PilotInv /\ [SemanticNext]_semanticVars => PilotInv'
<1> SUFFICES ASSUME PilotInv, [SemanticNext]_semanticVars PROVE PilotInv'
  OBVIOUS
<1>1. CASE UNCHANGED semanticVars
  BY <1>1 DEF PilotInv, semanticVars, vars
<1>2. CASE SemanticNext
  <2>1. PICK text \in Texts, failed \in BOOLEAN, interrupted \in BOOLEAN :
          TakeTurn(text, failed, interrupted)
    BY <1>2 DEF SemanticNext
  <2>2. PICK legacy \in LegacyActs(session, text), alone \in LegacyActs(unaided, text) :
          Both(text, failed, interrupted, legacy, alone)
    BY <2>1 DEF TakeTurn, Both
  <2>3. turn' = turn + 1 /\ pilot' = pilot
    BY <2>1 DEF TakeTurn
  <2>4. /\ turn \in Turns /\ turn + 1 \in Turns /\ pilot \in BOOLEAN
        /\ Conversation(session, turn) /\ Conversation(unaided, turn) /\ Alike(session, unaided)
    BY <2>1, MaxTurnsAssumption DEF PilotInv, TakeTurn, Turns
  <2> DEFINE n        == turn + 1
             rep      == Interpretation(text.clauses, session.slots, session.facts, n)
             decision == ActAuthority(legacy, rep, Projection(rep).act, failed, pilot)
             m        == text.message
  <2>5. m \in Message
    BY TextsAssumption
  <2>6. /\ session' \in Outcomes(session, m, decision.act, n, interrupted)
        /\ unaided' \in Outcomes(unaided, m, alone.act, n, interrupted)
        /\ parted' = (parted \/ /\ decision.mode = "semantic"
                                /\ \E t \in OpenTopics(session.topics) : IsUnresolved(t))
    BY <2>2 DEF Both
  <2>7. \/ decision.act = legacy.act
        \/ /\ decision.mode = "semantic" /\ decision.act = "greeting"
           /\ legacy.act \in {"pending_answer", "new_information"}
    <3>1. /\ pilot \in BOOLEAN /\ rep = Interpretation(text.clauses, session.slots, session.facts, n)
          /\ decision = ActAuthority(legacy, rep, Projection(rep).act, failed, pilot)
      BY <2>4
    <3> HIDE DEF rep, decision
    <3> QED
      BY <3>1, PromotedAct
  <2>8. legacy.act = alone.act
    BY <2>4, OneLegacyAct DEF Alike
  <2> HIDE DEF decision, m, rep
  <2>9. SuppressesSlots(decision.act) <=> SuppressesSlots(alone.act)
    BY <2>7, <2>8 DEF SuppressesSlots
  <2>10. Conversation(session', n) /\ Conversation(unaided', n)
    BY <2>4, <2>5, <2>6, ConversationGoesOn
  <2>11. Alike(session', unaided')
    BY <2>4, <2>5, <2>6, <2>9, OutcomesAlike
  <2>12. ASSUME ~ parted' PROVE session' = unaided'
    <3>1. session = unaided
      BY <2>6, <2>12 DEF PilotInv
    <3>2. Begun(session, m, decision.act, n) = Begun(session, m, alone.act, n)
      <4>1. CASE decision.act = legacy.act
        BY <2>8, <4>1
      <4>2. CASE decision.act # legacy.act
        <5>1. /\ decision.mode = "semantic" /\ decision.act = "greeting"
              /\ alone.act \in {"pending_answer", "new_information"}
          BY <2>7, <2>8, <4>2
        <5>2. \A t \in OpenTopics(session.topics) : ~ IsUnresolved(t)
          BY <2>6, <2>12, <5>1
        <5> QED
          BY <5>1, <5>2, GreetingLikeAnswer
      <4> QED
        BY <4>1, <4>2
    <3>3. unaided' \in Outcomes(session, m, alone.act, n, interrupted)
      BY <2>6, <3>1
    <3> QED
      BY <2>4, <2>5, <2>6, <3>2, <3>3, OneOutcome
  <2> QED
    BY <2>3, <2>4, <2>10, <2>11, <2>12 DEF PilotInv
<1> QED
  BY <1>1, <1>2

\* What the users told is the same with the pilot and without it, whatever they say,
\* whichever turns fail, and however many there are; until a greeting finds a topic
\* without a name open, so is everything else.
THEOREM PilotAlwaysLocal == SemanticSpec => []PilotIsLocal
<1>1. PilotInv => PilotIsLocal
  BY DEF PilotInv, PilotIsLocal, Alike
<1> QED
  BY <1>1, PilotInvInit, PilotInvStep, PTL DEF SemanticSpec
=============================================================================
