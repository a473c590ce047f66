---------------------------- MODULE ExecutionPlans ----------------------------
(* How a message becomes an execution plan without a language model: terms of    *)
(* the message select an intent, the intent an action, the action a flow with    *)
(* its steps and kernel program; the policy then judges the plan.                *)
EXTENDS Integers, Sequences, FiniteSetsExt

CONSTANTS MinConfidence, \* of the rule for auto_claim_guidance, in twelfths
          Concepts       \* keys of the domain's concepts; {} restricts nothing

ASSUME PlansAssumption == MinConfidence \in 0..12

\* DEFAULT_INTENT_RULES in their order, and how many terms each has.
Intents == <<"greeting", "auto_claim_guidance", "concept_cleas", "concept_franquicia",
             "concept_denuncia_administrativa", "real_claim_status", "human_request">>
Terms == <<5, 6, 3, 2, 2, 8, 9>>

\* Confidence counts in twelfths; an act or an answer to a question that overrides
\* the match is sure (0.74 and more).
Certain == 12
Sure == 9

Score(i, hits) ==
  LET needed == IF Terms[i] < 4 THEN Terms[i] ELSE 4
  IN  IF hits >= needed THEN Certain ELSE (Certain * hits) \div needed

\* IntentMatcher.match: the first of the rules with the best score. "hits" says how
\* many of the terms of each rule the text contains.
Match(hits) ==
  LET score(i) == Score(i, hits[i])
      best == {i \in DOMAIN Intents : \A j \in DOMAIN Intents : score(i) >= score(j)}
  IN  IF \A i \in DOMAIN Intents : hits[i] = 0
      THEN [intent |-> "fallback", confidence |-> 0]
      ELSE [intent |-> Intents[Min(best)], confidence |-> score(Min(best))]

\* _intent_from_conversation_act, then _intent_from_slot_resolution: a message that
\* carries the claim on, or answers a question of its mission, is about the claim.
\* "answers" is "fresh", "repeated" or "none"; a repeated answer counts while the
\* mission still misses something.
IntentOf(m, mission, missing) ==
  IF /\ mission = "auto_claim_guidance"
     /\ \/ m.continues
        \/ m.answers = "fresh"
        \/ m.answers = "repeated" /\ missing
  THEN [intent |-> "auto_claim_guidance", confidence |-> Sure]
  ELSE Match(m.hits)

NoToolKey == "no_tool_key"

ActionRules ==
  [greeting |-> "static_response", auto_claim_guidance |-> "process_guidance",
   concept_cleas |-> "knowledge_lookup", concept_franquicia |-> "knowledge_lookup",
   concept_denuncia_administrativa |-> "knowledge_lookup",
   real_claim_status |-> "safe_escalation", human_request |-> "human_handoff",
   fallback |-> "fallback_response"]

ToolKeys ==
  [concept_cleas |-> "cleas", concept_franquicia |-> "franquicia",
   concept_denuncia_administrativa |-> "denuncia_administrativa"]

\* ActionPlanner.plan
ActionFor(match) ==
  IF match.intent = "auto_claim_guidance" /\ match.confidence < MinConfidence
  THEN "clarify" ELSE ActionRules[match.intent]

\* DEFAULT_FLOW_ROUTES
Flows ==
  [static_response |-> "static_response", process_guidance |-> "guided_process",
   knowledge_lookup |-> "knowledge_lookup", safe_escalation |-> "safe_escalation",
   human_handoff |-> "human_handoff", clarify |-> "clarification",
   fallback_response |-> "fallback"]

Ending == <<"memory", "context", "output">>

StepsOf(flow) ==
  CASE flow = "guided_process" -> <<"policy", "kernel">> \o Ending
    [] flow = "knowledge_lookup" -> <<"policy", "tool_lookup", "kernel">> \o Ending
    [] flow = "safe_escalation" -> <<"policy", "escalation">> \o Ending
    [] flow = "human_handoff" -> <<"policy", "handoff">> \o Ending
    [] flow \in {"static_response", "clarification", "fallback"} -> <<"kernel">> \o Ending

\* _kernel_program_for; the one static response is the greeting. The compiler of the
\* kernel takes the program the plan names.
ProgramFor(flow) ==
  CASE flow = "knowledge_lookup" -> "knowledge_lookup"
    [] flow = "guided_process" -> "auto_claim_guidance"
    [] flow = "static_response" -> "greeting"
    [] OTHER -> "fallback"

\* FlowRouter.route and ExecutionPlan.from_flow
PlanFor(match) ==
  LET action == ActionFor(match)
      flow == Flows[action]
  IN  [flow |-> flow, steps |-> StepsOf(flow), program |-> ProgramFor(flow),
       key |-> IF action = "knowledge_lookup" THEN ToolKeys[match.intent] ELSE NoToolKey]

HasStep(plan, step) == \E i \in DOMAIN plan.steps : plan.steps[i] = step

Interruptions == {"safe_escalation", "human_handoff"}

\* PolicyManager._evaluate_execution_plan
PolicyOf(plan) ==
  IF plan.flow = "knowledge_lookup"
  THEN IF plan.key # NoToolKey /\ (Concepts = {} \/ plan.key \in Concepts)
       THEN "USE_TOOL" ELSE "ASK_CLARIFICATION"
  ELSE IF plan.flow \in Interruptions THEN "ESCALATE" ELSE "ALLOW"

\* The flows RuntimeExecutor owns; the other runs in LegacyRuntimeExecutor.
MigratedFlows == {"fallback", "guided_process", "human_handoff", "knowledge_lookup",
                  "safe_escalation", "static_response"}

\* before_kernel without an active mission: the mission a plan creates. "claimWords"
\* says that the text names a crash or a claim.
MissionFor(plan, claimWords) ==
  IF plan.flow = "knowledge_lookup" THEN "knowledge_lookup"
  ELSE IF plan.flow = "guided_process" \/ claimWords THEN "auto_claim_guidance"
  ELSE "general_orientation"
===============================================================================
