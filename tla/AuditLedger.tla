----------------------------- MODULE AuditLedger -----------------------------
(* The records of the operational audit ledger: what is projected of an          *)
(* operation the gate has assessed, and what the record becomes once a tool has  *)
(* answered. A record is told apart by what a later attempt or an auditor asks   *)
(* of it.                                                                        *)
EXTENDS GovernanceRules

CONSTANT NoKey

\* ledger_context: what the caller says besides its grants, the receipt it pretends to
\* have, and the records it read of the ledger.
Context(key, granted) ==
  [key |-> key, granted |-> granted, rejected |-> {}, cancelled |-> FALSE,
   receipt |-> "none", previous |-> {}]

-----------------------------------------------------------------------------
\* _confirmation_status and _approval_status.
ConfirmationStatus(a, ctx) ==
  IF ~a.confirm THEN "not_required"
  ELSE IF "user_confirmation" \in ctx.rejected THEN "rejected"
  ELSE IF "user_confirmation" \in ctx.granted THEN "confirmed" ELSE "missing"

ApprovalStatus(a, ctx) ==
  IF ~a.approve THEN "not_required"
  ELSE IF "human_approval" \in ctx.rejected THEN "rejected"
  ELSE IF "human_approval" \in ctx.granted THEN "approved" ELSE "missing"

\* _idempotency_record: the key of the caller, or one made of the operation for a tool
\* that is idempotent by itself.
LedgerKey(a, ctx) ==
  IF ctx.key # NoKey THEN ctx.key
  ELSE IF a.keyed /\ a.guarantee = "idempotent" THEN <<"derived", a.operation>> ELSE NoKey

\* Mutant: a key that nobody gave is not missed.
CoveredAnyway(a, ctx) == TRUE

Covered(a, ctx) == a.keyed => LedgerKey(a, ctx) # NoKey

\* _duplicate_detection: the profile's tool is compared with the recorded one.
Duplicate(a, ctx) ==
  \E r \in ctx.previous :
    /\ LedgerKey(a, ctx) # NoKey /\ r.key = LedgerKey(a, ctx)
    /\ r.operation = a.operation /\ r.tool = a.tool

\* The status of _projected_request and the one of _external_receipt.
RequestStatus(a) ==
  IF a.tool = "" THEN "not_required"
  ELSE IF a.allowed THEN "would_send_if_execution_enabled" ELSE "blocked_before_send"

ReceiptStatus(a, ctx) ==
  IF ctx.receipt # "none" THEN ctx.receipt
  ELSE IF a.allowed THEN "not_created_shadow" ELSE "not_applicable_blocked"

\* _execution_status: what is known of the attempt comes before what the gate says.
ShadowState(a, ctx) ==
  IF Duplicate(a, ctx) THEN "duplicate_detected_shadow"
  ELSE IF ConfirmationStatus(a, ctx) = "rejected" THEN "cancelled_by_user_confirmation"
  ELSE IF ApprovalStatus(a, ctx) = "rejected" THEN "blocked_by_approval_rejected"
  ELSE IF ctx.cancelled THEN "cancelled_before_execution"
  ELSE IF ReceiptStatus(a, ctx) = "timeout" THEN "shadow_timeout"
  ELSE IF ReceiptStatus(a, ctx) = "partial_response" THEN "shadow_partial_response"
  ELSE IF ReceiptStatus(a, ctx) = "tool_down" THEN "shadow_tool_down"
  ELSE IF a.manual THEN "manual_only"
  ELSE IF ~a.allowed THEN "blocked_by_governance"
  ELSE "would_execute"

RetryableShadows == {"shadow_timeout", "shadow_tool_down", "duplicate_detected_shadow"}

\* _compensation_strategy.
Compensation(a) ==
  IF a.level <= 1 THEN "not_required"
  ELSE IF a.reversible THEN "covered" ELSE "manual_control_required"

\* _replay_safety.
ReplaySafe(a, ctx) ==
  \/ a.tool = ""
  \/ Covered(a, ctx) /\ (a.replay \/ ShadowState(a, ctx) \notin RetryableShadows)

\* project_operational_audit_ledger. (The completeness of a projection looks at
\* nothing that a projection can lack.)
Projected(a, ctx) ==
  LET state == ShadowState(a, ctx)
  IN  [mode |-> "shadow", operation |-> a.operation, tool |-> a.tool, allowed |-> a.allowed,
       requirements |-> a.requirements, key |-> LedgerKey(a, ctx), covered |-> Covered(a, ctx),
       duplicate |-> Duplicate(a, ctx), request |-> RequestStatus(a),
       receipt |-> ReceiptStatus(a, ctx), state |-> state,
       retryable |-> state \in RetryableShadows, safe |-> ReplaySafe(a, ctx),
       compensation |-> Compensation(a), complete |-> TRUE]

-----------------------------------------------------------------------------
\* _production_execution_state. A refusal of the gate has no receipt either.
ExecutionState(status) ==
  CASE status = "created" -> "executed"
    [] status = "duplicate_replayed" -> "duplicate_replayed"
    [] status = "timeout" -> "tool_timeout"
    [] status = "tool_down" -> "tool_unavailable"
    [] status \in {"invalid_receipt", "blocked_by_governance"} -> "invalid_receipt"
    [] status = "tool_error" -> "tool_error"

\* _production_completeness: a refused attempt has made no request.
ProductionComplete(key, result) == key # NoKey /\ result.requested

\* finalize_operational_audit_ledger: the tool that answered, its receipt, and what
\* they leave of the projection.
Finalized(r, result) ==
  LET key     == IF result.key # NoKey THEN result.key ELSE r.key
      covered == result.key # NoKey \/ r.covered
      state   == ExecutionState(result.status)
  IN  [r EXCEPT !.mode = "production", !.tool = result.tool, !.key = key, !.covered = covered,
                !.receipt = result.status, !.state = state,
                !.retryable = state \in {"tool_timeout", "tool_unavailable"},
                !.safe = covered /\ result.replayable,
                !.compensation = IF result.reversible THEN "covered" ELSE @,
                !.complete = ProductionComplete(key, result)]
=============================================================================
