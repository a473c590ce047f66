----------------------------- MODULE ToolContracts -----------------------------
(* What a tool declares of itself and what the tool engine makes of a call, by  *)
(* its mode and the contract of the tool.                                        *)

Modes == {"official", "shadow", "dry_run", "replay", "simulation"}

Idempotency == {"idempotent", "requires_idempotency_key", "non_idempotent", "unknown"}

Contract ==
  [sideEffects : BOOLEAN, dryRun : BOOLEAN, replay : BOOLEAN, shadow : BOOLEAN,
   idempotency : Idempotency]

Evidence == SUBSET {"existing", "replay"}

Actions == {"execute", "dry_run", "replay", "reuse_existing_evidence", "reject"}

\* ToolExecutionContract.validate.
Validate(c) ==
  /\ c.idempotency \in Idempotency
  /\ ~(c.sideEffects /\ c.shadow /\ c.idempotency = "non_idempotent")

\* Mutant: a tool that says it may run in shadow does, whatever it changes.
DecideShadowByContract(mode, c, evidence) ==
  IF mode = "official" THEN "execute"
  ELSE IF mode = "shadow" /\ "existing" \in evidence THEN "reuse_existing_evidence"
  ELSE IF mode = "shadow" /\ c.shadow THEN "execute"
  ELSE IF mode \in {"shadow", "simulation", "dry_run"} /\ c.dryRun THEN "dry_run"
  ELSE IF mode \in {"shadow", "simulation", "replay"} /\ c.replay THEN "replay"
  ELSE IF mode = "simulation" /\ "existing" \in evidence THEN "reuse_existing_evidence"
  ELSE "reject"

\* _decide_execution: the first of these that applies. "evidence" is what the
\* caller brings of earlier executions: "existing", "replay" or both. A simulation
\* prefers a dry run and a replay to existing evidence, a shadow execution the
\* reverse.
DecideExecution(mode, c, evidence) ==
  IF mode = "official" THEN "execute"
  ELSE IF mode = "shadow" /\ "existing" \in evidence THEN "reuse_existing_evidence"
  ELSE IF mode = "shadow" /\ c.shadow /\ ~c.sideEffects THEN "execute"
  ELSE IF mode \in {"shadow", "simulation", "dry_run"} /\ c.dryRun THEN "dry_run"
  ELSE IF mode \in {"shadow", "simulation", "replay"} /\ c.replay THEN "replay"
  ELSE IF mode = "simulation" /\ "existing" \in evidence THEN "reuse_existing_evidence"
  ELSE "reject"

\* HandoffPackageAdapter.execution_contract.
HandoffContract ==
  [sideEffects |-> TRUE, dryRun |-> TRUE, replay |-> TRUE, shadow |-> FALSE,
   idempotency |-> "idempotent"]
=============================================================================
