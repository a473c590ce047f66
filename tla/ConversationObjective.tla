------------------------- MODULE ConversationObjective -------------------------
(* What a reply must accomplish, projected from the structured decisions of the  *)
(* turn: the goal, what is still missing, the next step with its budget of       *)
(* questions, and the text that stands in for the language model. A situation    *)
(* holds what the projection reads; names are strings, confidences hundredths.   *)
EXTENDS Integers, Sequences, SequencesExt

None == "none"
NoGoal == [type |-> None, target |-> None, confidence |-> 0]

\* Targets that are single identifiers may become part of a goal type; free text
\* of the user may not.
Symbolic == {"greet", "restore_connectivity", "report_claim"}

\* _goal_projection: the semantic goal of the authority record, of the projection
\* or of the representation, then the conversational goal, then the user's need.
Goal(s) ==
  LET said == SelectSeq(s.semantic, LAMBDA g : g # NoGoal)
  IN  IF said # <<>>
      THEN [type |-> Head(said).type, target |-> IF Head(said).target \in Symbolic THEN Head(said).target ELSE None,
            confidence |-> Head(said).confidence, source |-> "semantic_authority"]
      ELSE [type |-> IF s.intention # None THEN s.intention ELSE s.need, target |-> None,
            confidence |-> s.confidence,
            source |-> IF s.intention # None THEN "conversational_goal" ELSE "conversation_response_plan"]

Greets(goal) == goal.type = "satisfy_intent" /\ goal.target = "greet"

\* _missing_information: what the plan requires, once each, unless a confident goal
\* makes asking for the need idle or the slot of that name is settled; three at most.
MissingInformation(s) ==
  LET goal == Goal(s)
      explicit == goal.source = "semantic_authority" /\ goal.confidence >= 80
      open(key) ==
        /\ ~(explicit /\ key = "user_need")
        /\ key \in DOMAIN s.slots => s.slots[key] \in {"pending", "partially_filled"}
      first(seq) == SelectSeq([i \in DOMAIN seq |-> IF seq[i] \in ToSet(SubSeq(seq, 1, i - 1)) THEN None ELSE seq[i]],
                              LAMBDA key : key # None)
      keys == SelectSeq(first(s.required), open)
  IN  SubSeq(keys, 1, IF Len(keys) > 3 THEN 3 ELSE Len(keys))

\* _next_step_projection: missing information is asked for before anything else is
\* considered, a request for a person included.
NextAction(s) ==
  IF MissingInformation(s) # <<>> THEN "request_information"
  ELSE IF s.action \in {"human_handoff", "escalate"} \/ s.flow \in {"human_handoff", "safe_escalation"} THEN "handoff"
  ELSE IF s.operation # None THEN "execute_tool"
  ELSE IF s.looksUp THEN "consult_knowledge"
  ELSE IF s.action \in {"static_response", "answer", "respond"} THEN "respond"
  ELSE IF Greets(Goal(s)) THEN "converse"
  ELSE IF s.completion THEN "finish" ELSE "converse"

QuestionBudget(s) == IF NextAction(s) = "request_information" \/ Greets(Goal(s)) THEN 1 ELSE 0

\* _urgency and _empathy.
Urgency(s) == IF s.critical THEN "critical" ELSE IF s.risk \in {"high", "critical", "level_4"} THEN "high" ELSE "normal"

Empathy(s) ==
  IF Urgency(s) # "normal" THEN "high" ELSE IF s.concern >= 65 THEN "medium" ELSE "light"

\* _constraints, without those that are always there.
Constraints(s) ==
  s.limits \union {c \in {"handoff_required", "confirmation_required", "human_approval_required"} :
     CASE c = "handoff_required" -> s.policy = "ESCALATE"
       [] c = "confirmation_required" -> s.confirm
       [] c = "human_approval_required" -> s.approve}

\* ConversationObjectiveProjector.project.
Objective(s) ==
  [goal |-> Goal(s), missing |-> MissingInformation(s), action |-> NextAction(s), budget |-> QuestionBudget(s),
   urgency |-> Urgency(s), empathy |-> Empathy(s), constraints |-> Constraints(s)]

\* ObjectiveDeterministicRealizer.realize, by the template and the questions in it:
\* a greeting goal is answered with a question whatever the next step is.
Realization(o) ==
  LET greets == o.goal.type \in {"greet", "respond_to_greeting"} \/ Greets(o.goal)
      thanks == o.goal.type \in {"acknowledge_thanks", "respond_to_thanks", "thank"}
  IN  [template |-> IF greets THEN "greeting" ELSE IF thanks THEN "thanks" ELSE o.action,
       questions |-> IF greets \/ (~thanks /\ o.action = "request_information") THEN 1 ELSE 0]
=============================================================================
