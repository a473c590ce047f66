---------------------------- MODULE GovernanceRules ----------------------------
(* The rules of the operational governance gate: the profile of each operation   *)
(* and what is missing before it may be executed.                                *)
EXTENDS Integers

Plain(level) ==
  [level |-> level, tool |-> "", capability |-> "", evidence |-> {}, approval |-> level >= 4,
   manual |-> FALSE, regulated |-> FALSE]

Needs(level, tool, evidence) == [Plain(level) EXCEPT !.tool = tool, !.evidence = evidence]

\* An operation that only a person may carry out.
ManualOnly(tool, evidence) ==
  [Needs(4, tool, evidence) EXCEPT !.manual = TRUE, !.regulated = TRUE]

Inform ==
  {"explain_domain_concept", "explain_documentation_requirements", "explain_current_step_simpler",
   "provide_repair_risk_guidance", "close_case_no_action", "no_operational_work_identified",
   "block_real_status_lookup", "block_document_upload"}

Prepare ==
  {"collect_claim_blocker", "request_billing_line_item", "request_rejection_detail",
   "diagnose_connectivity_issue", "continue_conversation_plan", "start_claim_guidance",
   "repair_service_interaction", "prepare_claim_follow_up", "prepare_documentation_review",
   "prepare_billing_review", "prepare_outage_follow_up", "prepare_technical_visit",
   "prepare_handoff", "prepare_case_summary"}

\* _OPERATION_PROFILES, and _profile_for of an operation that is not among them.
Profile(op) ==
  CASE op \in Inform -> Plain(0)
    [] op \in Prepare -> Plain(1)
    [] op = "save_internal_case_note" -> Needs(2, "internal_case_notes", {"case_reference", "summary"})
    [] op = "mark_internal_checklist_item" ->
         Needs(2, "internal_case_checklist", {"case_reference", "checklist_item"})
    [] op = "real_claim_status_lookup" ->
         [Needs(3, "claim_status_lookup", {"case_reference"})
            EXCEPT !.capability = "insurance.claim_status.lookup"]
    [] op = "associate_documentation" ->
         [Needs(3, "document_association", {"case_reference", "documents"})
            EXCEPT !.capability = "insurance.document.upload"]
    [] op = "open_ticket" -> Needs(3, "ticket_create", {"issue_summary"})
    [] op = "schedule_technical_visit" ->
         Needs(3, "technical_visit_scheduler", {"technical_diagnosis", "service_address"})
    [] op = "request_callback" -> Needs(3, "callback_request", {"contact_channel", "issue_summary"})
    [] op = "execute_handoff" -> Needs(3, "handoff_dispatch", {"case_summary", "target_owner"})
    [] op = "apply_service_credit" ->
         ManualOnly("billing_credit_apply", {"account_reference", "credit_reason"})
    [] op = "modify_invoice" -> ManualOnly("invoice_modify", {"invoice_id", "discrepancy_evidence"})
    [] op = "change_account_holder" ->
         ManualOnly("account_holder_change", {"verified_identity", "legal_authorization"})
    [] op = "cancel_service" ->
         ManualOnly("service_cancel", {"verified_identity", "cancellation_confirmation"})
    [] op = "unlisted_informative" -> Plain(0)
    [] op = "unlisted_preparatory" -> Plain(1)
    [] OTHER -> Needs(2, "", {"operation_evidence"})

NoContract == "none"

Grants == {"permission", "user_confirmation", "human_approval", "idempotency_key"}

-----------------------------------------------------------------------------
\* _tool_availability. A capability, of the profile or named by what blocks the
\* case, that the manifests block or keep disabled makes the tool unavailable
\* whatever its contract says; without a capability the manifests are not asked.
ToolAvailable(profile, pf) ==
  \/ profile.tool = ""
  \/ /\ (profile.capability # "" \/ pf.named) => ~pf.blocked /\ pf.publicAction # "disabled"
     /\ pf.contract # NoContract

\* Mutant: a key is refused by a tool that does not ask for one.
IdempotencyMissingUnlessExact(profile, key, pf) ==
  /\ profile.level >= 2 /\ profile.tool # ""
  /\ ~(\/ pf.contract = "idempotent" /\ ~key
       \/ pf.contract = "requires_idempotency_key" /\ key)

\* _idempotency_assessment.
IdempotencyMissing(profile, key, pf) ==
  /\ profile.level >= 2 /\ profile.tool # ""
  /\ ~(\/ pf.contract = "idempotent"
       \/ pf.contract = "requires_idempotency_key" /\ key)

\* The missing_preconditions of assess_operational_governance, by their types.
MissingPreconditions(op, evidence, gr, pf) ==
  LET profile == Profile(op)
      lacks(grant) == grant \notin gr
  IN  {"missing_evidence" : e \in profile.evidence \ (evidence \union {"operation_evidence"})} \union
      {m \in {"permission_insufficient", "tool_unavailable", "confirmation_required",
              "human_approval_required", "idempotency", "manual_only", "regulatory_control_required"} :
         CASE m = "permission_insufficient" -> profile.level >= 2 /\ lacks("permission")
           [] m = "tool_unavailable" -> ~ToolAvailable(profile, pf)
           [] m = "confirmation_required" -> profile.level >= 2 /\ lacks("user_confirmation")
           [] m = "human_approval_required" -> profile.approval /\ lacks("human_approval")
           [] m = "idempotency" -> IdempotencyMissing(profile, "idempotency_key" \in gr, pf)
           [] m = "manual_only" -> profile.manual
           [] m = "regulatory_control_required" -> profile.regulated /\ lacks("human_approval")}

ExecutionAllowed(op, evidence, gr, pf) == MissingPreconditions(op, evidence, gr, pf) = {}

\* _recommendation.
Recommendation(op, evidence, gr, pf) ==
  LET profile == Profile(op)
  IN  IF profile.manual THEN "manual_only"
      ELSE IF ExecutionAllowed(op, evidence, gr, pf)
           THEN (IF profile.level <= 1 THEN "auto_execute" ELSE "execute_with_governance")
      ELSE IF profile.approval THEN "requires_human_approval"
      ELSE IF profile.level >= 2 THEN "requires_confirmation"
      ELSE "blocked_or_shadow_only"

\* _reversibility_assessment: the profiles of level 3 and 4 say it themselves.
Reversible(op) ==
  op \notin {"real_claim_status_lookup", "execute_handoff", "apply_service_credit",
             "modify_invoice", "change_account_holder", "cancel_service"}

\* _audit_requirements.
AuditRequirements(profile) ==
  {"governance_assessment_trace"} \union
  (IF profile.level >= 1 THEN {"selected_work_snapshot"} ELSE {}) \union
  (IF profile.level >= 2 THEN {"durable_operation_record", "idempotency_record"} ELSE {}) \union
  (IF profile.level >= 3 THEN {"external_correlation_id", "tool_receipt", "retry_policy"} ELSE {}) \union
  (IF profile.approval THEN {"human_approval_receipt"} ELSE {}) \union
  (IF profile.level >= 4 THEN {"compensation_or_manual_control", "regulated_operation_review"} ELSE {})

\* What assess_operational_governance tells the ledger and the tools.
Assessment(op, evidence, gr, pf) ==
  LET profile == Profile(op)
  IN  [operation |-> op, level |-> profile.level, tool |-> profile.tool,
       allowed |-> ExecutionAllowed(op, evidence, gr, pf), manual |-> profile.manual,
       confirm |-> profile.level >= 2, approve |-> profile.approval,
       keyed |-> profile.level >= 2 /\ profile.tool # "", guarantee |-> pf.contract,
       replay |-> pf.replay, reversible |-> Reversible(op),
       requirements |-> AuditRequirements(profile)]
=============================================================================
