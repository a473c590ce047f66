---------------------------- MODULE OperationalWork ----------------------------
(* The operational work mapper: what a message, and what the runtime already     *)
(* made of the turn, say of the work a representative would do, and of the case.  *)
(* A message is the set of the groups of phrases found in it; a group is named     *)
(* for what its phrases say, and every list of the source is a union of groups.     *)
EXTENDS Integers, FiniteSets, FiniteSetsExt, GovernanceRules

Markers ==
  {"grievance", "confused", "lookup", "review_lookup", "upload", "open_modem", "summary", "simpler",
   "document_rejected", "rejected", "callback", "legal", "human", "someone", "drop_invoice",
   "drop_internet", "now_offline", "offline", "internet", "modem", "broken", "invoice", "wrong",
   "charge", "why", "why_charged", "claim", "back_to_claim", "retake_claim", "progress", "app",
   "days", "crash", "no_injuries", "report_loaded", "claim_loaded", "repair", "to_workshop",
   "workshop", "authorization", "how_long", "neighbours", "technician", "visit_set", "still",
   "restarted", "documents", "missing_documents", "which_documents", "have_documents", "have",
   "concept", "threat", "thanks", "settled"}

\* The groups whose phrases contain a phrase of another group.
Contained ==
  [m \in Markers |->
     CASE m \in {"open_modem"} -> {"modem"}
       [] m = "now_offline" -> {"offline", "internet", "have"}
       [] m = "offline" -> {"internet", "have"}
       [] m = "drop_internet" -> {"internet"}
       [] m = "drop_invoice" -> {"invoice"}
       [] m = "why_charged" -> {"why", "charge"}
       [] m \in {"back_to_claim", "retake_claim", "report_loaded", "claim_loaded"} -> {"claim"}
       [] m = "to_workshop" -> {"workshop"}
       [] m = "visit_set" -> {"technician"}
       [] m \in {"missing_documents", "which_documents"} -> {"documents"}
       [] m = "have_documents" -> {"documents", "have"}
       [] OTHER -> {}]

Message(groups) == groups \union UNION {Contained[m] : m \in groups}

\* What the turn brings beside its message. "loaded" is whether the state knows that
\* fact at all, as true or as false; "claims" whether the program is the claim's.
Turn ==
  [question : BOOLEAN, step : BOOLEAN, satisfied : BOOLEAN, loaded : BOOLEAN, escalated : BOOLEAN,
   claims : BOOLEAN, flow : {"none", "knowledge_lookup", "human_handoff"},
   need : {"none", "vehicle_repair_authorization", "claim_report_status"}]

-----------------------------------------------------------------------------
\* _select_operation: the first rule that applies.

Rule(applies, operation) == [applies |-> applies, operation |-> operation]

RepairMarks == {"repair", "to_workshop"}
ProgressMarks == {"progress", "app"}
BillingMarks == {"invoice", "charge"}
ServiceMarks == {"offline", "modem", "technician", "neighbours"}

SelectionRules(text, turn) ==
  LET any(marks) == text \cap marks # {}
  IN  <<Rule(any({"grievance"}), "repair_service_interaction"),
        Rule(any({"lookup"}), "block_real_status_lookup"),
        Rule(any({"upload"}), "block_document_upload"),
        Rule(any({"open_modem"}), "prevent_unsafe_technical_action"),
        Rule(any({"summary"}), "prepare_case_summary"),
        Rule(any({"simpler"}), "explain_current_step_simpler"),
        Rule(any({"document_rejected"}), "request_rejection_detail"),
        Rule(any({"callback", "legal", "human"}) \/ turn.escalated \/ turn.flow = "human_handoff",
             "prepare_handoff"),
        Rule(any({"drop_invoice", "now_offline"}) /\ any({"internet", "modem", "broken"}),
             "diagnose_connectivity_issue"),
        Rule(any({"offline"}) /\ any({"invoice", "wrong"}), "continue_conversation_plan"),
        Rule(any({"back_to_claim"}), "collect_claim_blocker"),
        Rule(any({"claim"}) /\ any(ProgressMarks) /\ any({"repair"}), "prepare_claim_follow_up"),
        Rule(any(RepairMarks) \/ turn.need = "vehicle_repair_authorization",
             "provide_repair_risk_guidance"),
        Rule(any({"workshop", "authorization"}), "prepare_claim_follow_up"),
        Rule(any({"how_long"}), "explain_domain_concept"),
        Rule(any({"claim", "crash"}) /\ any({"progress", "days"}), "prepare_claim_follow_up"),
        Rule(any({"no_injuries", "report_loaded"}) /\ any({"crash", "claim"}),
             "collect_claim_blocker"),
        Rule(turn.need = "claim_report_status", "prepare_claim_follow_up"),
        Rule(any(BillingMarks) /\ ~any({"why"}), "prepare_billing_review"),
        Rule(any(BillingMarks), "request_billing_line_item"),
        Rule(any(ServiceMarks) /\ any({"neighbours"}), "prepare_outage_follow_up"),
        Rule(any(ServiceMarks) /\ any({"technician", "restarted", "still"}), "prepare_technical_visit"),
        Rule(any(ServiceMarks), "diagnose_connectivity_issue"),
        Rule(any({"restarted", "still"}), "prepare_technical_visit"),
        Rule(any({"rejected"}), "request_rejection_detail"),
        Rule(any({"documents"}) /\ any({"have"}), "prepare_documentation_review"),
        Rule(any({"documents"}), "explain_documentation_requirements"),
        Rule(any({"concept"}) \/ turn.flow = "knowledge_lookup", "explain_domain_concept"),
        Rule((any({"crash"}) \/ turn.claims) /\ turn.question, "collect_claim_blocker"),
        Rule(any({"crash"}) \/ turn.claims, "start_claim_guidance"),
        Rule(any({"broken"}), "continue_conversation_plan"),
        Rule(any({"threat"}), "diagnose_connectivity_issue"),
        Rule(any({"thanks"}), "close_case_no_action"),
        Rule(turn.satisfied, "explain_domain_concept"),
        Rule(turn.step, "continue_conversation_plan"),
        Rule(TRUE, "no_operational_work_identified")>>

SelectedOperation(text, turn) ==
  LET rules == SelectionRules(text, turn)
  IN  rules[Min({i \in DOMAIN rules : rules[i].applies})].operation

\* _category_for_operation and _outcome_for_operation.
Protective ==
  {"provide_repair_risk_guidance", "block_real_status_lookup", "block_document_upload",
   "prevent_unsafe_technical_action"}

Category(op) ==
  CASE op \in {"prepare_claim_follow_up", "prepare_billing_review", "prepare_outage_follow_up",
               "prepare_technical_visit", "prepare_documentation_review", "prepare_case_summary",
               "repair_service_interaction"} -> "preparatory"
    [] op \in {"collect_claim_blocker", "request_billing_line_item", "request_rejection_detail",
               "diagnose_connectivity_issue", "continue_conversation_plan", "start_claim_guidance",
               "close_case_no_action"} -> "administrative"
    [] op \in {"explain_domain_concept", "explain_documentation_requirements",
               "explain_current_step_simpler"} -> "informative"
    [] op = "prepare_handoff" -> "escalation"
    [] op \in Protective -> "protective"
    [] OTHER -> "none"

Outcome(op, text, turn) ==
  CASE op \in {"block_real_status_lookup", "block_document_upload"} -> "blocked"
    [] op \in {"provide_repair_risk_guidance", "prevent_unsafe_technical_action"} -> "unsafe_operation"
    [] op = "prepare_handoff" -> "delegated"
    [] op = "close_case_no_action" -> "no_action_required"
    [] op = "prepare_technical_visit" /\ "visit_set" \in text -> "waiting_for_system"
    [] Category(op) = "informative" -> "explained"
    [] Category(op) = "administrative" /\ op # "close_case_no_action" -> "waiting_for_user"
    [] Category(op) = "preparatory" /\ ~(op = "prepare_technical_visit" /\ "visit_set" \in text) ->
         "prepared"
    [] OTHER -> IF turn.satisfied THEN "explained"
                ELSE IF turn.question THEN "waiting_for_user" ELSE "no_action_required"

\* Mutant of GateName: an outcome that is not worked on is not known to be harmless.
GateNameByCategory(op, outcome) ==
  IF op \in Inform \union Prepare THEN op
  ELSE IF Category(op) = "informative" THEN "unlisted_informative"
  ELSE IF Category(op) \in {"preparatory", "administrative", "escalation"}
       THEN "unlisted_preparatory" ELSE "unlisted"

\* _profile_for: what the gate takes an operation for that its table does not list.
GateName(op, outcome) ==
  IF op \in Inform \union Prepare THEN op
  ELSE IF \/ Category(op) \in {"informative", "protective"}
          \/ outcome \in {"explained", "blocked", "unsafe_operation", "no_action_required"}
       THEN "unlisted_informative"
  ELSE IF Category(op) \in {"preparatory", "administrative", "escalation"}
       THEN "unlisted_preparatory" ELSE "unlisted"

-----------------------------------------------------------------------------
\* The candidates: the selected operation, and the others the message asks for.

Candidate(role, status, priority) == [role |-> role, status |-> status, priority |-> priority]

\* The markers and the priority of _detected_secondary_operations.
Detects(marks, priority) == [marks |-> marks, priority |-> priority]

Detectors ==
  [op \in Inform \union Prepare \union Protective |->
     CASE op = "block_real_status_lookup" -> Detects({"lookup", "review_lookup"}, 88)
       [] op = "block_document_upload" -> Detects({"upload"}, 86)
       [] op = "prevent_unsafe_technical_action" -> Detects({"open_modem"}, 96)
       [] op = "provide_repair_risk_guidance" -> Detects(RepairMarks, 94)
       [] op = "prepare_claim_follow_up" ->
            Detects({"claim", "progress", "app", "authorization"}, 78)
       [] op = "prepare_documentation_review" -> Detects({"documents"}, 68)
       [] op = "explain_documentation_requirements" ->
            Detects({"which_documents"}, 66)
       [] op = "prepare_billing_review" -> Detects({"invoice", "wrong", "charge"}, 72)
       [] op = "request_billing_line_item" -> Detects({"why_charged"}, 73)
       [] op = "diagnose_connectivity_issue" -> Detects({"offline", "modem"}, 74)
       [] op = "prepare_outage_follow_up" -> Detects({"neighbours"}, 76)
       [] op = "prepare_technical_visit" -> Detects({"restarted", "still", "visit_set"}, 80)
       [] op = "prepare_handoff" -> Detects({"callback", "human", "someone"}, 82)
       [] op = "explain_domain_concept" -> Detects({"concept", "how_long"}, 64)
       [] op = "prepare_case_summary" -> Detects({"summary"}, 70)
       [] op = "repair_service_interaction" -> Detects({"grievance", "confused"}, 90)
       [] op = "close_case_no_action" -> Detects({"thanks"}, 60)
       [] OTHER -> Detects({}, 0)]

\* What the user puts off, and what the user takes up again.
PutOff(text) ==
  {op \in {"prepare_billing_review", "diagnose_connectivity_issue"} :
     (IF op = "prepare_billing_review" THEN "drop_invoice" ELSE "drop_internet") \in text}

TakenUp(text) ==
  IF text \cap {"back_to_claim", "retake_claim"} # {} THEN {"collect_claim_blocker"} ELSE {}

Asked(text) ==
  {op \in DOMAIN Detectors : Detectors[op].marks \cap text # {}} \union PutOff(text) \union TakenUp(text)

Blockable == {"block_real_status_lookup", "block_document_upload"}

\* _status_for_operation, of the selected operation only.
SelectedStatus(op, text) ==
  IF op \in Blockable THEN "blocked"
  ELSE IF op = "close_case_no_action" THEN "completed"
  ELSE IF op \in PutOff(text) THEN "suspended"
  ELSE IF "settled" \in text THEN "completed" ELSE "pending"

\* A putting off replaces what was detected of the same operation.
Detected(op, text) ==
  IF op \in PutOff(text) THEN Candidate("suspended", "suspended", 40)
  ELSE IF op \in TakenUp(text) THEN Candidate("recovered", "pending", 84)
  ELSE IF op = "close_case_no_action" THEN Candidate("completed", "completed", 60)
  ELSE Candidate("secondary", IF op \in Blockable THEN "blocked" ELSE "pending",
                 Detectors[op].priority)

\* _capability_for_operation.
Capability(op) ==
  CASE op \in {"prepare_claim_follow_up", "block_real_status_lookup"} -> "claim_status.lookup"
    [] op \in {"prepare_documentation_review", "block_document_upload"} -> "document.upload"
    [] op = "prepare_handoff" -> "handoff.prepare"
    [] op \in {"provide_repair_risk_guidance", "collect_claim_blocker", "start_claim_guidance",
               "explain_documentation_requirements", "explain_domain_concept"} -> "claims"
    [] OTHER -> "none"

\* Mutant of Blocked: without a manifest that says so nothing is blocked.
BlockedByManifest(op, turn, off) == Capability(op) \in off \/ turn.escalated

\* _blocked_by: a capability the manifests disable or block, a real tool nobody
\* has, or the policy.
Blocked(op, turn, off) ==
  Capability(op) \in off \/ op \in Blockable \/ turn.escalated

\* _operation_candidate, over the operations of a turn.
Candidates(text, turn, off) ==
  LET selected == SelectedOperation(text, turn)
      found(op) == IF op = selected
                   THEN Candidate("primary", SelectedStatus(op, text), 100) ELSE Detected(op, text)
      blocked(op) == Blocked(op, turn, off)
  IN  [op \in {selected} \union Asked(text) |->
         [role     |-> found(op).role,
          status   |-> IF blocked(op) /\ found(op).status = "pending" THEN "blocked"
                       ELSE found(op).status,
          priority |-> found(op).priority,
          expected |-> Outcome(op, text, turn),
          blocked  |-> blocked(op)]]

RoleRank(role) ==
  CASE role = "primary" -> 0 [] role = "recovered" -> 1 [] role = "secondary" -> 2
    [] role = "suspended" -> 3 [] role = "completed" -> 5

\* _candidate_sort_key. Two priorities are equal only where the user puts off both
\* kinds of work; there the name decides.
Precedes(candidates, a, b) ==
  LET x == candidates[a]
      y == candidates[b]
  IN  \/ RoleRank(x.role) < RoleRank(y.role)
      \/ RoleRank(x.role) = RoleRank(y.role) /\ x.priority > y.priority
      \/ x.role = y.role /\ x.priority = y.priority /\ a = "diagnose_connectivity_issue" /\ b # a

OriginalRank(candidates, op) ==
  1 + Cardinality({other \in DOMAIN candidates : Precedes(candidates, other, op)})

-----------------------------------------------------------------------------
(* The case as the mapper projects it from a turn and its candidates, and the    *)
(* order in which the candidates come when the case is looked at.                *)
\* _claim_report_loaded.
ClaimLoaded(text, turn, candidates) ==
  \/ text \cap {"claim_loaded", "report_loaded"} # {} \/ turn.loaded
  \/ /\ "prepare_claim_follow_up" \in DOMAIN candidates
     /\ candidates["prepare_claim_follow_up"].status = "completed"

\* _evidence_for_operation: what a selected follow-up has as its evidence.
FollowUpMarks(role) ==
  IF role = "primary" THEN {"claim", "progress", "authorization"}
  ELSE Detectors["prepare_claim_follow_up"].marks

\* _claim_follow_up_needed.
FollowUpNeeded(text, candidates) ==
  \/ "progress" \in text
  \/ /\ "prepare_claim_follow_up" \in DOMAIN candidates
     /\ candidates["prepare_claim_follow_up"].status \notin {"completed", "suspended"}
     /\ text \cap FollowUpMarks(candidates["prepare_claim_follow_up"].role) # {}

\* _documentation_case_state.
Documentation(text, candidates) ==
  LET said == IF "missing_documents" \in text THEN "unknown_or_pending"
              ELSE IF "have_documents" \in text THEN "available"
              ELSE IF "documents" \in text THEN "unknown_or_pending" ELSE "not_observed"
      review == "prepare_documentation_review"
  IN  IF \/ "block_document_upload" \in DOMAIN candidates
         \/ /\ review \in DOMAIN candidates /\ candidates[review].blocked
            /\ said \in {"not_observed", "unknown_or_pending"}
      THEN "blocked_upload" ELSE said

\* _repair_case_state, _technical_case_state and _billing_case_state.
RepairState(text, candidates) ==
  IF RepairMarks \cap text # {} \/ "provide_repair_risk_guidance" \in DOMAIN candidates
  THEN "risk_active" ELSE "not_observed"

TechnicalState(text, candidates) ==
  IF "prepare_technical_visit" \in DOMAIN candidates THEN "visit_needed_or_scheduled"
  ELSE IF "prepare_outage_follow_up" \in DOMAIN candidates THEN "possible_area_outage"
  ELSE IF text \cap {"offline", "modem"} # {} THEN "issue_open" ELSE "not_observed"

BillingState(text, candidates) ==
  IF /\ "prepare_billing_review" \in DOMAIN candidates
     /\ candidates["prepare_billing_review"].status = "suspended" THEN "suspended"
  ELSE IF text \cap BillingMarks # {} THEN "issue_open" ELSE "not_observed"

Unresolved == {"unknown_or_pending", "blocked_upload"}

\* _case_stage.
Stage(case, turn, candidates) ==
  IF case.loaded /\ case.followUp THEN "claim_loaded_follow_up_needed"
  ELSE IF case.loaded /\ case.documentation \in Unresolved
  THEN "documentation_pending_after_claim_loaded"
  ELSE IF case.loaded THEN "claim_report_loaded"
  ELSE IF case.repair # "not_observed" THEN "repair_authorization_risk"
  ELSE IF case.technical # "not_observed" THEN case.technical
  ELSE IF case.billing # "not_observed" THEN case.billing
  ELSE IF turn.claims THEN "claim_guidance_in_progress"
  ELSE IF "close_case_no_action" \in DOMAIN candidates THEN "case_closed_or_no_action_required"
  ELSE "unknown"

\* _case_pending_actions, by their operations.
Pending(case, candidates) ==
  (IF case.documentation \in Unresolved THEN {"prepare_documentation_review"} ELSE {})
    \union (IF case.followUp THEN {"prepare_claim_follow_up"} ELSE {})
    \union (IF case.repair = "risk_active" THEN {"provide_repair_risk_guidance"} ELSE {})
    \union (IF case.technical # "not_observed" THEN {"diagnose_connectivity_issue"} ELSE {})
    \union (IF case.billing = "issue_open" THEN {"prepare_billing_review"} ELSE {})
    \union {op \in DOMAIN candidates :
              /\ candidates[op].status \in {"pending", "blocked"}
              /\ case.loaded /\ ~case.followUp => op # "prepare_claim_follow_up"}

\* _case_current_owner.
Owner(blocked, pending, turn, stage) ==
  IF blocked # {} THEN "external_system_or_capability_owner"
  ELSE IF turn.question THEN "user"
  ELSE IF pending # {} THEN "aca_shadow_representative"
  ELSE IF stage = "visit_needed_or_scheduled" THEN "provider" ELSE "none"

\* _case_state_projection.
CaseProjection(text, turn, candidates) ==
  LET seen == [loaded        |-> ClaimLoaded(text, turn, candidates),
               followUp      |-> FollowUpNeeded(text, candidates),
               documentation |-> Documentation(text, candidates),
               repair        |-> RepairState(text, candidates),
               technical     |-> TechnicalState(text, candidates),
               billing       |-> BillingState(text, candidates)]
      stage   == Stage(seen, turn, candidates)
      pending == Pending(seen, candidates)
      blocked == {op \in DOMAIN candidates : candidates[op].blocked}
  IN  [seen |-> seen, stage |-> stage, pending |-> pending, blocked |-> blocked,
       owner |-> Owner(blocked, pending, turn, stage)]

-----------------------------------------------------------------------------
\* _case_state_candidate_score: only one stage changes the order, one in which the
\* documents are unresolved and no follow-up is needed.

\* Mutant of Demotion: only what is done comes later.
DemotionOfCompleted(status) == IF status = "completed" THEN 45 ELSE 0

Demotion(status) == CASE status = "suspended" -> 80 [] status = "completed" -> 45 [] OTHER -> 0

Score(op, candidate, case) ==
  LET add(points, when) == IF when THEN points ELSE 0
  IN  candidate.priority
        + (IF case.stage # "documentation_pending_after_claim_loaded" THEN 0
           ELSE - Demotion(candidate.status)
                + add(115, op = "prepare_documentation_review")
                + add(-65, op = "prepare_claim_follow_up")
                + add(45, op = "provide_repair_risk_guidance" /\ case.seen.repair = "risk_active")
                + add(35, op = "diagnose_connectivity_issue" /\ case.seen.technical = "issue_open")
                + add(35, op = "prepare_billing_review" /\ case.seen.billing = "issue_open")
                + add(-45, op = "close_case_no_action" /\ case.pending # {}))

\* _case_state_projected_ranking.
ProjectedPrecedes(candidates, case, a, b) ==
  LET x == Score(a, candidates[a], case)
      y == Score(b, candidates[b], case)
  IN  \/ x > y
      \/ x = y /\ OriginalRank(candidates, a) < OriginalRank(candidates, b)

\* _evidence_assessment: what the gate reads off the case.
CaseEvidence(case) ==
  (IF case.seen.loaded THEN {"case_reference"} ELSE {})
    \union (IF case.seen.documentation \in Unresolved THEN {"documents"} ELSE {})
    \union (IF case.seen.technical = "issue_open" THEN {"technical_diagnosis"} ELSE {})
=============================================================================
