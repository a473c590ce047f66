--------------------------- MODULE ConversationPlans ---------------------------
(* The plan of a turn. Once the mission is decided the runtime models what the  *)
(* user is after, weighs the questions it could ask, lays out the steps of the  *)
(* mission with the ones the message inserts, and after the answer was written  *)
(* judges what it fulfilled. The plan of the last finished turn is what the next *)
(* one is compared with; a turn that fails leaves that plan, but not the state.  *)
EXTENDS ConversationTurns

CONSTANT Sayings    \* the messages of users, with what they say of the process

\* What a message talks about.
Signal == {"repair", "contact", "no_photo", "photo", "report", "documents", "status",
           "question", "ambiguous"}

\* "worry" are the subjects named after a marker such as "lo que mas me preocupa".
\* Asking why no photos were requested is talking about photos.
Saying == [message : Message, signals : SUBSET Signal, worry : SUBSET Signal]

ASSUME SayingsAssumption ==
  \A s \in Sayings : /\ s \in Saying /\ s.message \in Messages
                     /\ "no_photo" \in s.signals => "photo" \in s.signals

\* One handler: the plan of a conversation follows one thread.
VARIABLES plan,      \* the conversation_plan that the session stores
          asking,    \* the plan of the turn in progress
          heard,     \* what this turn's message did (the turn-scoped traces), and
                     \* the slots and facts it found
          agenda,    \* next_act and progress of the mission
          outcome    \* the fulfillment of the last turn

planVars == <<vars, plan, asking, heard, agenda, outcome>>

None == "none"

-----------------------------------------------------------------------------
\* What the user is after.

\* The need that the dominant concern names, if it names one.
ConcernNeed(signals) ==
  IF "repair" \in signals THEN "vehicle_repair_authorization"
  ELSE IF "contact" \in signals THEN "claim_contact_progress"
  ELSE IF "no_photo" \in signals THEN "photo_requirement_confidence"
  ELSE IF "photo" \in signals THEN IF "question" \in signals THEN "were_photos_sent" ELSE None
  ELSE IF "ambiguous" \in signals THEN "understand_user_need"
  ELSE None

\* The needs a text mentions, by decreasing confidence.
MentionedNeeds ==
  <<[signal |-> "photo",     need |-> "photo_upload_status"],
    [signal |-> "report",    need |-> "claim_report_status"],
    [signal |-> "documents", need |-> "documentation_guidance"],
    [signal |-> "status",    need |-> "claim_status_or_payment"]>>

MostConfidentNeed(signals) ==
  LET mentioned == {i \in DOMAIN MentionedNeeds : MentionedNeeds[i].signal \in signals}
  IN  MentionedNeeds[CHOOSE i \in mentioned : \A j \in mentioned : i <= j].need

TalkedAbout(signals) == signals \intersect {"photo", "report", "documents", "status"}

\* The clause of a worry is searched for photos, the report and documents.
PrimaryNeed(saying, mission) ==
  LET worries == saying.worry \intersect saying.signals \intersect {"photo", "report", "documents"}
  IN  IF ConcernNeed(saying.signals) # None THEN ConcernNeed(saying.signals)
      ELSE IF worries # {} THEN MostConfidentNeed(worries)
      ELSE IF TalkedAbout(saying.signals) # {} THEN MostConfidentNeed(saying.signals)
      ELSE IF mission.type = "auto_claim_guidance" THEN "auto_claim_guidance"
      ELSE "understand_user_need"

\* What the concerns leave open.
MissingInformation(signals) ==
  (IF "repair" \in signals THEN {"claim_authorization_status", "damage_evidence_available"} ELSE {})
    \union (IF "contact" \in signals THEN {"claim_report_loaded", "documentation_complete"} ELSE {})
    \union (IF "no_photo" \in signals THEN {"claim_type", "channel_checklist"} ELSE {})
    \union (IF signals = {"ambiguous"} THEN {"reference_target"} ELSE {})

-----------------------------------------------------------------------------
\* What the turn could ask, and what it asks.

IsUnknown(facts, key) == key \notin FactType \/ facts[key].value = "none"

\* Mutant of AskedByMission: what the mission checks is asked, known or not.
AskedByMissionAnyway(facts, nextAct) ==
  (IF nextAct = "check_claim_report_loaded" THEN {"claim_report_loaded"} ELSE {})
    \union (IF nextAct = "check_documentation_available" THEN {"documentation_available"} ELSE {})

\* The mission checks a report that is not loaded, also when the user has said so.
AskedByMission(facts, nextAct) ==
  {key \in FactType : /\ IsUnknown(facts, key)
                      /\ \/ nextAct = "check_claim_report_loaded" /\ key = "claim_report_loaded"
                         \/ nextAct = "check_documentation_available" /\ key = "documentation_available"}

RequiredInformation(pending, facts, nextAct, need) ==
  LET required == {s \in pending : s = "user_need" => need = "understand_user_need"}
                    \union AskedByMission(facts, nextAct)
  IN  IF required = {} /\ need = "photo_upload_status" THEN {"photo_upload_evidence"} ELSE required

\* Gain plus weight of the block less cost, in hundredths. The other candidates are
\* below the threshold: they block little.
Priority(key, required, need) ==
  CASE key = "injuries"                                             -> 112
    [] key = "reference_target"                                     -> 97
    [] key = "user_role"                                            -> 82
    [] key \in {"claim_report_loaded", "documentation_available"}
         /\ key \in required                                        -> 69
    [] key = "photo_upload_evidence"                                -> 69
    [] key = "claim_authorization_status"
         /\ need = "vehicle_repair_authorization"                   -> 66
    [] key = "user_need"                                            -> 65
    [] OTHER                                                        -> 41

SelectionThreshold == 62

Candidate(required, facts, signals) ==
  required \union {key \in MissingInformation(signals) : IsUnknown(facts, key)}

SelectedQuestion(candidates, required, need) ==
  LET eligible == {key \in candidates : Priority(key, required, need) >= SelectionThreshold}
  IN  IF eligible = {} THEN None
      ELSE CHOOSE key \in eligible :
             \A other \in eligible : Priority(other, required, need) <= Priority(key, required, need)

-----------------------------------------------------------------------------
\* The steps of a plan: a function from the steps it has to their status.

\* Steps go by their order; two that a message inserts at 5 in the order they are inserted.
StepOrder ==
  [handle_topic_shift                          |-> 4,
   answer_lateral_process_timing               |-> 5,
   answer_lateral_vehicle_repair_authorization |-> 6,
   answer_lateral_photo_requirement_confidence |-> 6,
   confirm_injuries                            |-> 10,
   understand_user_need                        |-> 10,
   provide_concept_explanation                 |-> 10,
   confirm_user_role                           |-> 20,
   confirm_claim_report_loaded                 |-> 30,
   complete_claim_report                       |-> 35,
   confirm_documentation_available             |-> 40,
   complete_documentation                      |-> 45,
   provide_next_step_guidance                  |-> 50]

Step == DOMAIN StepOrder
SideQuestion == {"answer_lateral_process_timing", "answer_lateral_vehicle_repair_authorization",
                 "answer_lateral_photo_requirement_confidence"}
SlotStep == {"confirm_injuries", "confirm_user_role", "understand_user_need"}
FactStep == {"confirm_claim_report_loaded", "confirm_documentation_available"}

\* The slot or the fact a step is to find out.
Subject(step) ==
  CASE step = "confirm_injuries"                -> "injuries"
    [] step = "confirm_user_role"               -> "user_role"
    [] step = "understand_user_need"            -> "user_need"
    [] step = "confirm_claim_report_loaded"     -> "claim_report_loaded"
    [] step = "confirm_documentation_available" -> "documentation_available"
    [] OTHER                                    -> None

NoSteps == [s \in {} |-> None]

\* Either a known fact or a closed slot completes the step that asks for it.
IsSettled(slots, facts, s) == slots[s] \in ClosedSlotState \/ ~IsUnknown(facts, s)

IsConfirmed(facts, f) == facts[f].value = "yes"

\* The steps of a mission; what the user denied has to be done before a claim goes on.
StepsFor(type, facts) ==
  {s \in Step :
     \/ /\ type = "auto_claim_guidance"
        /\ \/ s \in {"confirm_injuries", "confirm_user_role", "confirm_claim_report_loaded",
                    "confirm_documentation_available", "provide_next_step_guidance"}
           \/ s = "complete_claim_report" /\ facts["claim_report_loaded"].value = "no"
           \/ s = "complete_documentation" /\ facts["documentation_available"].value = "no"
     \/ type = "knowledge_lookup" /\ s = "provide_concept_explanation"
     \/ type = "general_orientation" /\ s = "understand_user_need"}

IsDone(step, slots, facts, nextAct) ==
  \/ step \in {"confirm_injuries", "confirm_user_role"} /\ IsSettled(slots, facts, Subject(step))
  \/ step \in FactStep /\ IsConfirmed(facts, Subject(step))
  \/ step = "provide_next_step_guidance" /\ nextAct = "provide_next_step_guidance"
  \/ step = "understand_user_need" /\ slots["user_need"] \in ClosedSlotState

\* The lateral questions of the message, and the change of topic.
Inserted(type, signals, act) ==
  LET concern == ConcernNeed(signals)
  IN  {s \in SideQuestion \union {"handle_topic_shift"} :
         \/ /\ s = "answer_lateral_process_timing"
            /\ concern = "claim_contact_progress" \/ "status" \in signals
         \/ /\ s = "answer_lateral_vehicle_repair_authorization"
            /\ type = "auto_claim_guidance" /\ concern = "vehicle_repair_authorization"
         \/ /\ s = "answer_lateral_photo_requirement_confidence"
            /\ type = "auto_claim_guidance" /\ concern = "photo_requirement_confidence"
         \/ s = "handle_topic_shift" /\ act = "topic_shift"}

Pending(steps) == {s \in DOMAIN steps : steps[s] = "pending"}
Completed(steps) == {s \in DOMAIN steps : steps[s] = "completed"}

First(steps) ==
  IF steps = {} THEN None
  ELSE CHOOSE s \in steps : \A other \in steps : StepOrder[s] <= StepOrder[other]

CurrentStep(steps) == First(Pending(steps))

-----------------------------------------------------------------------------
\* The plan of a turn, compared with the one of the turn before.

NoPlan == [steps |-> NoSteps, inserted |-> {}, previous |-> None, reason |-> None,
           asks |-> None, need |-> None, reworded |-> FALSE]

Abandoned(previous, steps) == Pending(previous) \ DOMAIN steps

\* Pending steps whose question lost, and questions the user answered unasked.
Skipped(previous, steps, candidates, asks) ==
  {s \in Pending(steps) : Subject(s) \in candidates \ {asks}}
    \union {s \in Pending(previous) \intersect Completed(steps) : s \in SlotStep \union FactStep}

ReplanningReason(previous, inserted, steps, candidates, asks) ==
  LET skips == Skipped(previous.steps, steps, candidates, asks) # {}
  IN  IF previous = NoPlan THEN "plan_initialized"
      ELSE IF inserted # {} THEN "side_step_inserted_preserve_active_plan"
      ELSE IF heard.revised THEN "facts_revised_replan_required"
      ELSE IF heard.assimilated \/ heard.advanced
      THEN IF skips THEN "new_evidence_completed_or_skipped_steps"
           ELSE IF Completed(steps) # {} THEN "new_evidence_advanced_plan"
           ELSE "new_evidence_reviewed_plan"
      ELSE IF Abandoned(previous.steps, steps) # {} THEN "steps_abandoned_after_replanning"
      ELSE IF skips THEN "question_selection_skipped_lower_value_steps"
      ELSE "plan_still_valid"

\* A question has another wording for the slots of its mission only.
HasOtherWording(type, key) ==
  \/ key = "user_need"
  \/ type = "auto_claim_guidance" /\ key \in FactType

\* The slot of the previous current step is looked up; a step on a fact has none.
IsReworded(previous, reason, type, key, act) ==
  /\ reason # "side_step_inserted_preserve_active_plan"
  /\ HasOtherWording(type, key)
  /\ \/ CurrentStep(previous.steps) \in SlotStep /\ Subject(CurrentStep(previous.steps)) = key
     \/ act \in {"continuation", "clarification_request"}

PlanOf(state, slots, nextAct, act) ==
  LET mission    == state.mission
      facts      == state.facts
      signals    == heard.saying.signals
      need       == PrimaryNeed(heard.saying, mission)
      required   == RequiredInformation(PendingSlots(MissionSlots(mission)), facts, nextAct, need)
      candidates == Candidate(required, facts, signals)
      asks       == SelectedQuestion(candidates, required, need)
      inserted   == Inserted(mission.type, signals, act)
      steps      == [s \in inserted \union StepsFor(mission.type, facts) |->
                       IF s \notin inserted /\ IsDone(s, slots, facts, nextAct)
                       THEN "completed" ELSE "pending"]
      reason     == ReplanningReason(plan, inserted, steps, candidates, asks)
  IN  [steps    |-> steps,
       inserted |-> inserted,
       previous |-> CurrentStep(plan.steps),
       reason   |-> reason,
       asks     |-> asks,
       need     |-> need,
       reworded |-> IsReworded(plan, reason, mission.type, asks, act)]

-----------------------------------------------------------------------------
\* The next act of the mission and the strategy of the turn.

NextActFor(facts, missing, status) ==
  IF "injuries" \in missing THEN "ask_injuries"
  ELSE IF "user_role" \in missing THEN "ask_user_role"
  ELSE IF missing # {} THEN "ask_missing_information"
  ELSE IF IsConfirmed(facts, "injuries") THEN "prioritize_injury_assistance"
  ELSE IF ~IsConfirmed(facts, "claim_report_loaded") THEN "check_claim_report_loaded"
  ELSE IF ~IsConfirmed(facts, "documentation_available") THEN "check_documentation_available"
  ELSE IF status = "progressing" THEN "provide_next_step_guidance"
  ELSE "continue_guidance"

\* In percent.
ProgressFor(missing, status) ==
  CASE status = "progressing"        -> 90
    [] status = "ready_to_progress"  -> 72
    [] missing = {}                  -> 50
    [] Cardinality(missing) = 1      -> 35
    [] OTHER                         -> 20

NewAgenda(type) ==
  CASE type = "auto_claim_guidance" -> [nextAct |-> "ask_injuries", progress |-> 10]
    [] type = "knowledge_lookup"    -> [nextAct |-> "provide_concept_explanation", progress |-> 25]
    [] OTHER                        -> [nextAct |-> "ask_user_need", progress |-> 5]

NoAgenda == [nextAct |-> None, progress |-> 0]

\* A claim is looked at anew in every turn; other missions keep what they have. The
\* request to clarify a withdrawal comes last.
AgendaAfter(before, mission, facts, unclear) ==
  LET advanced == IF mission.type = "auto_claim_guidance"
                  THEN [nextAct |-> NextActFor(facts, mission.missing, mission.status),
                        progress |-> ProgressFor(mission.missing, mission.status)]
                  ELSE before
  IN  IF unclear /\ IsMission(mission)
      THEN [advanced EXCEPT !.nextAct = "clarify_fact_revision"] ELSE advanced

\* requires_clarification of a recognised correction.
RequiresClarification(facts, m) ==
  "withdrawal" \in m.cues /\ Cardinality(Revisable(facts, m)) # 1

Strategy(act, nextAct, requiresClarification) ==
  CASE act = "simplification_request" -> "simplify"
    [] act = "recap_request"          -> "summarize"
    [] act = "deepening_request"      -> "deepen"
    [] act = "topic_shift"            -> "switch_topic"
    [] act = "continuation"           -> "continue"
    [] act = "correction"             ->
         IF nextAct = "clarify_fact_revision" \/ requiresClarification
         THEN "ask_clarification" ELSE "repair"
    [] act = "clarification_request"  -> "ask_clarification"
    [] act = "closing"                -> "close"
    [] OTHER                          -> "respond"

-----------------------------------------------------------------------------
\* The judgement of a turn. "response" says what the text that was written does:
\* it answers the primary need, it answers some of the inserted steps, it asks the
\* selected question.

Responses(p) == [answers : BOOLEAN, lateral : SUBSET p.inserted,
                 asks : IF p.asks = None THEN {FALSE} ELSE BOOLEAN]

\* Mutant of FailedSteps: an answer that leaves the step open fails it too.
FailedStepsWhateverSaid(p) ==
  {s \in {p.previous} : s = CurrentStep(p.steps) /\ s \in SlotStep \union FactStep}

\* The question that was open before the turn is open after it, and the message
\* neither answered a slot nor brought a fact.
FailedSteps(p) ==
  IF heard.resolved \/ heard.assimilated THEN {}
  ELSE {s \in {p.previous} : s = CurrentStep(p.steps) /\ s \in SlotStep \union FactStep}

StillPending(p, response) ==
  Pending(p.steps) \ ((IF response.answers THEN {"understand_user_need"} ELSE {})
                        \union response.lateral \union FailedSteps(p))

GoalStatus(p, response) ==
  LET open == StillPending(p, response) \ SideQuestion
  IN  IF FailedSteps(p) # {} THEN "failed"
      ELSE IF response.answers /\ open = {} THEN "fulfilled"
      ELSE IF response.answers /\ response.lateral \intersect SideQuestion # {}
      THEN "partially_fulfilled"
      ELSE IF response.answers /\ ~response.asks THEN "fulfilled"
      ELSE IF response.answers \/ response.asks \/ response.lateral # {} \/ Completed(p.steps) # {}
      THEN "partially_fulfilled"
      ELSE "not_fulfilled"

RecoveryAction(p, response) ==
  LET pending == StillPending(p, response)
  IN  IF FailedSteps(p) # {} THEN [action |-> "reask_or_reformulate", step |-> p.previous]
      ELSE IF p.inserted \intersect SideQuestion # {} /\ pending \ SideQuestion # {}
      THEN [action |-> "resume_main_plan", step |-> First(pending \ SideQuestion)]
      ELSE IF pending # {} THEN [action |-> "continue_with_next_pending_step", step |-> First(pending)]
      ELSE [action |-> "close_objective", step |-> None]

NoOutcome == [failed |-> {}, status |-> None, recovery |-> [action |-> None, step |-> None]]

-----------------------------------------------------------------------------
Unsaid == [message |-> [cues |-> {}, direction |-> "new_topic",
                        answers |-> [s \in FactSlot |-> "none"],
                        mentions |-> [f \in FactType |-> {}],
                        all |-> FALSE,
                        opens |-> "general_orientation"],
           signals |-> {}, worry |-> {}]

Unheard == [saying |-> Unsaid, resolved |-> FALSE, assimilated |-> FALSE, revised |-> FALSE,
            advanced |-> FALSE, strategy |-> None, slots |-> NoSlots, facts |-> NewState.facts]

PlanInit ==
  /\ Init
  /\ plan = NoPlan
  /\ asking = NoPlan
  /\ heard = Unheard
  /\ agenda = NoAgenda
  /\ outcome = NoOutcome

\* The value a fact has when the mentions of a message are looked at.
KnownBefore(facts, slots, closed, m, f) == FactBefore(facts, closed, slots, m, 0, f).value

\* The first value the message gives the fact is new or was known; or the report is said to
\* be loaded twice, which confirms what was just said. A fact is revised by a value other
\* than the one it has, and by a denial after an affirmation.
Assimilates(m, f, known) ==
  \/ \E v \in Values(m, f) : known \in {"none", v} /\ (v = "no" => "yes" \notin Values(m, f))
  \/ m.all /\ f = "claim_report_loaded" /\ "yes" \in m.mentions[f]

Revises(m, f, known) ==
  \/ Values(m, f) = {"yes", "no"}
  \/ Values(m, f) # {} /\ known # "none" /\ known \notin Values(m, f)

\* begin_turn, with the traces it leaves for this turn; those of the turn before are gone.
BeginPlannedTurn(h, sayings) ==
  \E s \in sayings :
    LET m == s.message
    IN  /\ BeginTurnWith(h, {m})
        /\ LET act       == work'[h].act
               state     == work'[h].state
               resolved  == ~SuppressesSlots(act)
                              /\ (Answered(session.slots, m) # {} \/ RepeatedAnswer(session.slots, m))
               closed    == IF SuppressesSlots(act) THEN {} ELSE JustClosed(session.slots, m)
               known(f)  == KnownBefore(session.facts, session.slots, closed, m, f)
               after     == AgendaAfter(agenda, state.mission, state.facts,
                                        AmbiguousWithdrawal(session.facts, closed, m))
               before    == ResolveSlots(session, m, act, turn').mission
           IN  /\ agenda' = after
               /\ heard' = [saying      |-> s,
                            resolved    |-> resolved,
                            assimilated |-> closed # {} \/ \E f \in FactType :
                                              Assimilates(m, f, known(f)),
                            revised     |-> "withdrawal" \in m.cues \/ \E f \in FactType :
                                              Revises(m, f, known(f)),
                            advanced    |-> before # state.mission \/ after # agenda,
                            strategy    |-> Strategy(act, after.nextAct,
                                                     RequiresClarification(session.facts, m)),
                            slots       |-> session.slots,
                            facts       |-> session.facts]
  /\ outcome' = NoOutcome
  /\ UNCHANGED <<plan, asking>>

\* The plan is laid out right after the mission manager, on the state as decided.
LayOutPlan(h) ==
  LET state == work'[h].state
  IN  asking' = PlanOf(state, MergedSlots(session.slots, MissionSlots(state.mission)),
                       agenda'.nextAct, work[h].act)

DecideAndPlan(h) ==
  /\ DecideMission(h)
  /\ agenda' = agenda
  /\ LayOutPlan(h)
  /\ UNCHANGED <<plan, heard, outcome>>

CreateAndPlan(h) ==
  /\ CreateMission(h)
  /\ agenda' = NewAgenda(work[h].opens)
  /\ LayOutPlan(h)
  /\ UNCHANGED <<plan, heard, outcome>>

\* The text is written and judged, and the plan stored with the state.
FinishPlannedTurn(h) ==
  /\ CommitTurn(h)
  /\ \E response \in Responses(asking) :
       outcome' = [failed   |-> FailedSteps(asking),
                   status   |-> GoalStatus(asking, response),
                   recovery |-> RecoveryAction(asking, response)]
  /\ plan' = asking
  /\ asking' = NoPlan
  /\ heard' = Unheard
  /\ agenda' = [agenda EXCEPT !.progress = IF @ < 75 THEN 75 ELSE @]

\* The state of the turn stays in the session, its plan does not.
FailPlannedTurn(h) ==
  /\ FailTurn(h)
  /\ asking' = NoPlan
  /\ heard' = Unheard
  /\ UNCHANGED <<plan, agenda, outcome>>

PlanNext == \E h \in Handlers :
  \/ BeginPlannedTurn(h, Sayings)
  \/ DecideAndPlan(h)
  \/ CreateAndPlan(h)
  \/ FinishPlannedTurn(h)
  \/ FailPlannedTurn(h)

PlanSpec == PlanInit /\ [][PlanNext]_planVars

-----------------------------------------------------------------------------
IsPlanned == asking # NoPlan

\* In a claim that was open before the turn, the question asked is never about something
\* the user has told: neither a slot that is closed nor a fact that is known, also when the
\* mission goes on checking a report that is missing, or when a failed turn left half of an
\* answer. (The turn that opens the claim plans on slots it has not merged yet.)
NeverAsksTheKnown ==
  IsPlanned /\ session.mission.type = "auto_claim_guidance" =>
    /\ asking.asks \in FactType => session.facts[asking.asks].value = "none"
    /\ asking.asks \in FactSlot => session.slots[asking.asks] \notin ClosedSlotState

\* A step counts as failed only when its question was already the open one and what it
\* asks for is as it was before the turn, unless the user took back or denied what a turn
\* that failed had taken, or a text that holds the affirmation in the denial ("no tengo la
\* documentacion") denied it again; a question about a slot is then put in other words.
FailedMeansAskedInVain ==
  [][\A h \in Handlers : \A s \in outcome'.failed :
       pc[h] = "decided" /\ pc'[h] = "idle" =>
         /\ s = CurrentStep(plan.steps) /\ s \in Pending(plan'.steps)
         /\ Subject(s) \in Slot =>
              session'.slots[Subject(s)] \in {heard.slots[Subject(s)], "pending"}
         /\ Subject(s) \in FactType =>
              \/ session'.facts[Subject(s)] \in {heard.facts[Subject(s)], NoFact}
              \/ /\ session'.facts[Subject(s)].value = "no"
                 /\ \/ heard.facts[Subject(s)].value = "yes"
                    \/ /\ heard.facts[Subject(s)].value = "no"
                       /\ Values(heard.saying.message, Subject(s)) = {"yes", "no"}
         /\ asking.asks = Subject(s) /\ s \in SlotStep => asking.reworded]_planVars

\* A claim turn that answers by asking what the user meant has guessed nothing: a
\* message that mentions no fact changes none.
GuessNothing ==
  [][\A h \in Handlers :
       (/\ pc[h] = "idle" /\ pc'[h] = "begun"
        /\ heard'.strategy = "ask_clarification"
        /\ session.mission.type = "auto_claim_guidance"
        /\ MentionsNothing(heard'.saying.message)) =>
          session'.facts = session.facts]_planVars
=============================================================================
