----------------------------- MODULE MCToolEngine -----------------------------
(* Adapters for the model checker: the two of the repository, and every          *)
(* contract with the weakest and the strongest methods an adapter may have.      *)
EXTENDS OperationalGate

KnowledgeAdapter ==
  [contract |-> [sideEffects |-> FALSE, dryRun |-> TRUE, replay |-> TRUE, shadow |-> TRUE,
                 idempotency |-> "idempotent"],
   ownDryRun |-> "runs", ownReplay |-> "runs"]

HandoffAdapter ==
  [contract |-> HandoffContract, ownDryRun |-> "pretends", ownReplay |-> "reads"]

MCAdapters ==
  {KnowledgeAdapter, HandoffAdapter} \union
  [contract : {c \in Contract : c.idempotency # "unknown"},
   ownDryRun : {"none"}, ownReplay : {"none", "reads"}]

\* One operation of every kind of profile.
MCOperations ==
  {"explain_domain_concept", "prepare_handoff", "save_internal_case_note", "associate_documentation",
   "open_ticket", "schedule_technical_visit", "cancel_service", "unlisted_informative", "unlisted_preparatory", "unlisted"}

Ordinary ==
  [question |-> FALSE, step |-> FALSE, satisfied |-> FALSE, loaded |-> FALSE, escalated |-> FALSE,
   claims |-> FALSE, flow |-> "none", need |-> "none"]

\* One thing a turn may bring at a time, and a claim that is loaded.
MCTurns ==
  {t \in Turn : Cardinality({f \in DOMAIN t : t[f] # Ordinary[f]}) <= 1}

Claimed == [Ordinary EXCEPT !.loaded = TRUE, !.claims = TRUE, !.question = TRUE]

MCOff == {{}, {"claims"}, {"claim_status.lookup", "document.upload", "handoff.prepare"}}

\* Any two phrases in any of these turns, any three in a turn of a loaded claim.
MCSituations ==
  [text : {{}} \union {Message({a, b}) : a, b \in Markers}, turn : MCTurns, off : MCOff]
  \union
  [text : {Message({a, b, c}) : a, b, c \in Markers}, turn : {Claimed}, off : {{}}]
=============================================================================
