------------------------- MODULE ConversationState --------------------------
(* The operators of the conversation state: which act a message is, what its   *)
(* answers and mentions do to the slots, the facts and the mission, where it    *)
(* moves the topic stack, and which proposals it leaves for the mission manager.*)
EXTENDS MissionManager, FiniteSets

CONSTANT MaxTurns    \* bound on the messages of a conversation

ASSUME MaxTurnsAssumption == MaxTurns \in Nat

Turns == 0..MaxTurns

-----------------------------------------------------------------------------
\* Messages: what the recognisers of a text extract from it.

FactType == {"injuries", "user_role", "claim_report_loaded", "documentation_available"}

\* The slots that a fact of the same name answers.
FactSlot == {"injuries", "user_role"}

Cue == {"correction", "withdrawal", "simplification_request", "recap_request",
        "topic_shift", "continuation", "deepening_request", "clarification_request",
        "closing", "confirmation", "negation", "greeting"}

\* "unsure" is an answer that leaves the slot partially filled. The recognisers of the
\* two facts that answer no slot look for each value on its own, and "no tengo la
\* documentacion" holds both; "all" is a text that says everything is loaded. A
\* withdrawal is a whole text of its own and mentions nothing.
Message ==
  {m \in [cues      : SUBSET Cue,
          direction : {"new_topic", "previous"},
          answers   : [FactSlot -> {"none", "unsure", "yes", "no"}],
          mentions  : [FactType -> SUBSET {"yes", "no"}],
          all       : BOOLEAN,
          opens     : MissionType] :
     /\ \A s \in FactSlot : m.mentions[s] # {"yes", "no"}
     /\ "withdrawal" \in m.cues => ~m.all /\ \A f \in FactType : m.mentions[f] = {}}

\* The values a message gives a fact: an affirmation is applied before a denial.
Values(m, f) ==
  m.mentions[f] \union (IF m.all /\ f \notin FactSlot THEN {"yes"} ELSE {})

MentionsNothing(m) == \A f \in FactType : Values(m, f) = {}

\* _is_uncertain is tested first by the matchers of both slots.
IsUncertain(m) == m.answers["injuries"] = "unsure"

-----------------------------------------------------------------------------
\* Facts: the value of an active fact and the turn it was acquired or revised.

FactValue == {"none", "yes", "no"}
Facts == [FactType -> [value : FactValue, turn : Turns]]
NoFact == [value |-> "none", turn |-> 0]
Known(facts) == {f \in FactType : facts[f].value # "none"}

LatestFacts(facts, types) ==
  {f \in types : \A g \in types : facts[g].turn <= facts[f].turn}

-----------------------------------------------------------------------------
\* Pending slots and the answers to them.

\* The injuries question comes before the role question, then any other.
PrimarySlot(pending) ==
  IF "injuries" \in pending THEN "injuries"
  ELSE IF "user_role" \in pending THEN "user_role" ELSE "user_need"

\* The matchers that look for terms; user_need has none.
ExplicitAnswer(m, s) == IF s \in FactSlot THEN m.answers[s] ELSE "none"

ExplicitMatches(slots, m) == {s \in PendingSlots(slots) : ExplicitAnswer(m, s) # "none"}

\* A bare "si" answers the role question when nothing else is matched.
ContextualRole(slots, m) ==
  /\ ExplicitMatches(slots, m) = {}
  /\ PendingSlots(slots) # {}
  /\ PrimarySlot(PendingSlots(slots)) = "user_role"
  /\ "confirmation" \in m.cues

SlotAnswer(slots, m, s) ==
  IF s \in ExplicitMatches(slots, m) THEN ExplicitAnswer(m, s)
  ELSE IF s = "user_role" /\ ContextualRole(slots, m) THEN "yes"
  ELSE "none"

Answered(slots, m) == {s \in Slot : SlotAnswer(slots, m, s) # "none"}

Unanswered(slots, m) == PendingSlots(slots) # {} /\ Answered(slots, m) = {}

\* The generic matcher takes any text for an answer, below the confidence floor.
RejectedAnswer(slots, m) ==
  /\ Unanswered(slots, m)
  /\ PrimarySlot(PendingSlots(slots)) = "user_need"
  /\ ~IsUncertain(m)

UnmatchedAnswer(slots, m) == Unanswered(slots, m) /\ ~RejectedAnswer(slots, m)

RepeatedAnswer(slots, m) ==
  /\ Answered(slots, m) = {}
  /\ \E s \in FactSlot : slots[s] \in ClosedSlotState /\ m.answers[s] = slots[s]

-----------------------------------------------------------------------------
\* The act of a message: of the acts its cues suggest, the one of the highest
\* confidence, then of the highest priority.

Act == (Cue \ {"withdrawal"}) \union {"pending_answer", "new_information"}

Revisable(facts, m) ==
  {f \in Known(facts) : m.mentions[f] # {}}
    \union (IF "withdrawal" \in m.cues THEN LatestFacts(facts, Known(facts)) ELSE {})

Correction(facts, m) ==
  LET targets == Revisable(facts, m)
  IN  IF "withdrawal" \in m.cues /\ Cardinality(targets) # 1
      THEN {[act |-> "correction", confidence |-> 80, priority |-> 100]}
      ELSE IF targets # {} /\ m.cues \intersect {"correction", "withdrawal"} # {}
           THEN {[act |-> "correction", confidence |-> 91, priority |-> 100]}
           ELSE {}

PendingAnswer(slots, m) ==
  IF Answered(slots, m) = {} THEN {}
  ELSE {[act        |-> "pending_answer",
         confidence |-> IF m.cues \intersect {"confirmation", "negation"} # {} THEN 90 ELSE 82,
         priority   |-> 95]}

\* The acts a cue alone suggests; a bare yes or no counts less while a question is open.
\* The greeting is the one act the semantic pilot may select instead of the recognised act,
\* at a confidence of 95 or more, so it stands above the others.
CueActs(slots, m) ==
  LET minimal == IF PendingSlots(slots) = {} THEN 76 ELSE 48
      suggested ==
        {[act |-> "simplification_request", confidence |-> 94, priority |-> 90],
         [act |-> "recap_request",          confidence |-> 92, priority |-> 88],
         [act |-> "topic_shift",            confidence |-> 88, priority |-> 86],
         [act |-> "continuation",           confidence |-> 86, priority |-> 84],
         [act |-> "deepening_request",      confidence |-> 84, priority |-> 82],
         [act |-> "clarification_request",  confidence |-> 82, priority |-> 80],
         [act |-> "closing",                confidence |-> 82, priority |-> 70],
         [act |-> "confirmation",           confidence |-> minimal, priority |-> 61],
         [act |-> "negation",               confidence |-> minimal, priority |-> 60],
         [act |-> "greeting",               confidence |-> 95, priority |-> 100]}
  IN  {a \in suggested : a.act \in m.cues}

CandidateActs(slots, facts, m) ==
  LET cued == Correction(facts, m) \union PendingAnswer(slots, m) \union CueActs(slots, m)
  IN  IF cued # {} THEN cued
      ELSE {[act |-> "new_information", confidence |-> 52, priority |-> 40]}

\* The set of the one act that is selected.
SelectedActs(slots, facts, m) ==
  {a \in CandidateActs(slots, facts, m) :
     \A b \in CandidateActs(slots, facts, m) :
       \/ b.confidence < a.confidence
       \/ b.confidence = a.confidence /\ b.priority <= a.priority}

SuppressesSlots(act) ==
  act \in {"correction", "clarification_request", "topic_shift", "recap_request",
           "simplification_request", "deepening_request", "closing"}

-----------------------------------------------------------------------------
\* The proposals of the conversation state, by the code that emits them.
ProposalSource == {"slot_rejection", "slot_unmatched", "advancement", "topic_resume",
                   "topic_suspend"}

OwnProposals == Proposals(ProposalSource \X Turns, {"conversation_state"}, Turns)

Proposal(source, turn, kind, confidence, before, after, changes) ==
  [id         |-> <<source, turn>>,
   component  |-> "conversation_state",
   turn       |-> turn,
   kind       |-> kind,
   confidence |-> confidence,
   before     |-> before,
   after      |-> after,
   changes    |-> changes]

-----------------------------------------------------------------------------
\* resolve_pending_slot_answers: its effect on each part of the state.

SlotsResolved(slots, m) ==
  [s \in Slot |-> CASE SlotAnswer(slots, m, s) = "none"   -> slots[s]
                    [] SlotAnswer(slots, m, s) = "unsure" -> "partially_filled"
                    [] OTHER                              -> SlotAnswer(slots, m, s)]

MissionResolved(mission, slots, m) ==
  IF IsMission(mission) /\ (Answered(slots, m) # {} \/ RepeatedAnswer(slots, m))
  THEN [mission EXCEPT !.slots = SlotsResolved(slots, m),
                       !.missing = PendingSlots(SlotsResolved(slots, m))]
  ELSE mission

SlotProposals(mission, slots, m, turn) ==
  LET before == MissionResolved(mission, slots, m)
  IN  IF IsMission(mission) /\ RejectedAnswer(slots, m)
      THEN <<Proposal("slot_rejection", turn, "maintain", 100, before, before, {})>>
      ELSE IF /\ IsMission(mission)
              /\ UnmatchedAnswer(slots, m)
              /\ mission.type # "auto_claim_guidance"
      THEN <<Proposal("slot_unmatched", turn, "suspend", 100, before,
                      [before EXCEPT !.status = "suspended"], {"status"})>>
      ELSE <<>>

-----------------------------------------------------------------------------
\* assimilate_user_facts. "closed" are the slots the message has just answered
\* with a value; their facts are still plain values when a withdrawal looks for
\* the latest fact.

JustClosed(slots, m) == {s \in FactSlot : SlotAnswer(slots, m, s) \in ClosedSlotState}

WithdrawalTargets(facts, closed) == LatestFacts(facts, Known(facts) \ closed)

\* Mutant of Withdrawn: when several facts could be meant, one is taken.
GuessedWithdrawal(facts, closed, m) ==
  LET targets == WithdrawalTargets(facts, closed)
  IN  IF "withdrawal" \in m.cues /\ targets # {} THEN {CHOOSE f \in targets : TRUE} ELSE {}

Withdrawn(facts, closed, m) ==
  IF "withdrawal" \in m.cues /\ Cardinality(WithdrawalTargets(facts, closed)) = 1
  THEN WithdrawalTargets(facts, closed) ELSE {}

AmbiguousWithdrawal(facts, closed, m) ==
  "withdrawal" \in m.cues /\ Cardinality(WithdrawalTargets(facts, closed)) # 1

\* A fact as it is when the mentions of a message are looked at: answered, withdrawn or
\* as it was.
FactBefore(facts, closed, slots, m, turn, f) ==
  IF f \in closed THEN [value |-> SlotAnswer(slots, m, f), turn |-> turn]
  ELSE IF f \in Withdrawn(facts, closed, m) THEN NoFact ELSE facts[f]

\* Mentions come after the answer of a slot, and what is affirmed and denied in one text
\* is revised, also to the value that it had.
FactAfter(facts, closed, slots, m, turn, f) ==
  LET known == FactBefore(facts, closed, slots, m, turn, f)
  IN  IF Values(m, f) \subseteq {known.value} THEN known
      ELSE [value |-> IF "no" \in Values(m, f) THEN "no" ELSE "yes", turn |-> turn]

FactsAfter(facts, closed, slots, m, turn) ==
  [f \in FactType |-> FactAfter(facts, closed, slots, m, turn, f)]

\* Mutants of SlotsAfterFacts: a withdrawn fact leaves its slot closed; its value, or
\* rather its absence, becomes the answer; a withdrawal reopens both slots; a revised
\* fact leaves the answer as it was.
SlotsNotReopened(slots, facts, factsAfter, withdrawn, closed) ==
  [s \in Slot |->
     IF s \notin FactSlot \/ s \in withdrawn THEN slots[s]
     ELSE IF s \in closed \/ factsAfter[s] # facts[s] THEN factsAfter[s].value
     ELSE slots[s]]

SlotsFollowFacts(slots, facts, factsAfter, withdrawn, closed) ==
  [s \in Slot |->
     IF s \in FactSlot /\ (s \in closed \/ factsAfter[s] # facts[s])
     THEN factsAfter[s].value ELSE slots[s]]

SlotsAllReopened(slots, facts, factsAfter, withdrawn, closed) ==
  [s \in Slot |->
     IF s \notin FactSlot THEN slots[s]
     ELSE IF withdrawn # {} THEN "pending"
     ELSE IF s \in closed \/ factsAfter[s] # facts[s] THEN factsAfter[s].value
     ELSE slots[s]]

SlotsNotRevised(slots, facts, factsAfter, withdrawn, closed) ==
  [s \in Slot |->
     IF s \notin FactSlot THEN slots[s]
     ELSE IF s \in withdrawn THEN "pending"
     ELSE IF s \in closed \/ (factsAfter[s] # facts[s] /\ slots[s] \notin ClosedSlotState)
     THEN factsAfter[s].value ELSE slots[s]]

\* A withdrawn fact reopens its slot, a fact acquired or revised answers it.
SlotsAfterFacts(slots, facts, factsAfter, withdrawn, closed) ==
  [s \in Slot |->
     IF s \notin FactSlot THEN slots[s]
     ELSE IF s \in withdrawn THEN "pending"
     ELSE IF s \in closed \/ factsAfter[s] # facts[s] THEN factsAfter[s].value
     ELSE slots[s]]

\* The facts of the runtime itself (last event, raw payload) are active values
\* too, so fact_values is never empty once a turn has been committed.
MissionStatusFor(facts, missing) ==
  IF missing # {} THEN "waiting_user"
  ELSE IF /\ facts["claim_report_loaded"].value = "yes"
          /\ facts["documentation_available"].value = "yes"
       THEN "progressing"
  ELSE IF FactSlot \subseteq Known(facts) THEN "ready_to_progress"
  ELSE "gathering_information"

\* Mutant of SafeMissionTransition: the status the evidence suggests, from anywhere.
DirectMissionTransition(previous, target) == target

\* The edge to the target, if there is one.
SafeMissionTransition(previous, target) ==
  IF target = previous \/ target \in MISSION_LIFECYCLE[previous] THEN target
  ELSE IF previous = "initialized" THEN "gathering_information"
  ELSE previous

AdvancedMission(mission, facts, slots) ==
  IF mission.type # "auto_claim_guidance" THEN mission
  ELSE [mission EXCEPT
          !.missing = PendingSlots(slots),
          !.slots   = slots,
          !.status  = SafeMissionTransition(mission.status,
                                            MissionStatusFor(facts, PendingSlots(slots)))]

ClarifiedMission(mission, ambiguous) ==
  IF IsMission(mission) /\ ambiguous
  THEN [mission EXCEPT !.status = "waiting_user"] ELSE mission

\* One proposal reports the last of the two changes.
AdvancementProposals(mission, advanced, clarified, turn) ==
  LET before  == IF clarified # advanced THEN advanced ELSE mission
      changes == {f \in DeltaField : clarified[f] # before[f]}
  IN  IF changes = {} THEN <<>>
      ELSE <<Proposal("advancement", turn, "maintain", 100, before, clarified, changes)>>

-----------------------------------------------------------------------------
\* The topic stack. Topic 0 is the topic of the mission, topic n > 0 the one
\* opened, unresolved, by the message of turn n. The order of the stack is left
\* out: the code searches it for the open topic, and OneOpenTopic (module
\* ConversationTurns) shows that there is only one to find.

MissionTopic == 0
NoTopic == -1
TopicStatus == {"active", "suspended", "resumed"}
AbsentTopic == "absent"
TopicStack == [Turns -> TopicStatus \union {AbsentTopic}]
EmptyStack == [t \in Turns |-> AbsentTopic]

OpenTopics(topics) == {t \in Turns : topics[t] \in {"active", "resumed"}}

\* The topic the stack search returns.
ActiveTopics(topics) == IF OpenTopics(topics) = {} THEN {NoTopic} ELSE OpenTopics(topics)

IsUnresolved(topic) == topic > MissionTopic

\* Mutant of SwitchTopic: the topic that is left stays open.
SwitchTopicKeepingBoth(topics, from, to, status) == [topics EXCEPT ![to] = status]

\* Close one topic and open another one.
SwitchTopic(topics, from, to, status) ==
  [t \in Turns |-> IF t = to THEN status ELSE IF t = from THEN "suspended" ELSE topics[t]]

\* The move an act makes: the topic it leaves open, with its status. NoTopic as a
\* target leaves the stack alone.
TopicMove(mission, topics, active, act, direction, turn) ==
  CASE act = "topic_shift" /\ direction = "new_topic" ->
         [to |-> turn, status |-> "active"]
    [] \/ act = "topic_shift" /\ direction = "previous"
       \/ act = "continuation" /\ IsUnresolved(active) ->
         [to |-> IF topics[MissionTopic] # AbsentTopic THEN MissionTopic ELSE NoTopic,
          status |-> "resumed"]
    [] act = "continuation" /\ ~IsUnresolved(active) ->
         [to |-> IF active # NoTopic \/ IsMission(mission) THEN MissionTopic ELSE NoTopic,
          status |-> "active"]
    [] OTHER ->
         [to |-> IF IsMission(mission) /\ (IsUnresolved(active) => act = "new_information")
                 THEN MissionTopic ELSE NoTopic,
          status |-> "active"]

TopicsAfter(topics, active, move) ==
  IF move.to = NoTopic THEN topics ELSE SwitchTopic(topics, active, move.to, move.status)

ActConfidence(act) == IF act = "topic_shift" THEN 88 ELSE 86

\* Mutant of TopicProposals: resuming the topic says nothing of the mission.
TopicProposalsWithoutResume(mission, active, move, act, turn) ==
  IF /\ IsMission(mission) /\ mission.status # "suspended"
     /\ active = MissionTopic /\ move.to \notin {NoTopic, MissionTopic}
  THEN <<Proposal("topic_suspend", turn, "suspend", ActConfidence(act), mission,
                  [mission EXCEPT !.status = "suspended"], {"status"})>>
  ELSE <<>>

\* The topic of the mission resumed: resume the mission; suspended: suspend it.
TopicProposals(mission, active, move, act, turn) ==
  IF ~IsMission(mission) THEN <<>>
  ELSE IF move = [to |-> MissionTopic, status |-> "resumed"]
  THEN IF mission.status # "suspended" THEN <<>>
       ELSE <<Proposal("topic_resume", turn, "resume", ActConfidence(act), mission,
                       [mission EXCEPT !.status = IF mission.missing # {} THEN "waiting_user"
                                                  ELSE "gathering_information"],
                       {"status"})>>
  ELSE IF active = MissionTopic /\ move.to \notin {NoTopic, MissionTopic} /\ mission.status # "suspended"
  THEN <<Proposal("topic_suspend", turn, "suspend", ActConfidence(act), mission,
                  [mission EXCEPT !.status = "suspended"], {"status"})>>
  ELSE <<>>

-----------------------------------------------------------------------------
\* The stack, the slots and the facts a finished turn stores, merged with the
\* ones the session holds by then.

\* With no stack of its own the projection starts one with the topic of the mission.
ProjectedTopics(topics, mission) ==
  IF topics = EmptyStack /\ IsMission(mission)
  THEN [topics EXCEPT ![MissionTopic] = "active"] ELSE topics

\* _slots_from_mission: what is missing is pending unless the snapshot says more.
MissionSlots(mission) ==
  [s \in Slot |-> IF mission.slots[s] # "absent" THEN mission.slots[s]
                  ELSE IF s \in mission.missing THEN "pending" ELSE "absent"]

\* A slot that is closed in the session stays as it is.
MergedSlots(previous, projected) ==
  [s \in Slot |-> IF previous[s] \in ClosedSlotState \/ projected[s] = "absent"
                  THEN previous[s] ELSE projected[s]]

MergedFacts(previous, projected) ==
  [f \in FactType |-> IF projected[f].value # "none" THEN projected[f] ELSE previous[f]]
=============================================================================
