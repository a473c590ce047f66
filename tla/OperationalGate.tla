---------------------------- MODULE OperationalGate ----------------------------
(* The governance gate over the registry of tools it reads its contracts from:   *)
(* what may be executed follows from what is registered at the moment it asks.   *)
EXTENDS ToolEngine, OperationalWork, AuditLedger

CONSTANTS Operations,    \* the operations that may be selected for a case
          Situations     \* a message, what the turn brings, the capabilities that are off

VARIABLE work    \* the work mapped last: its situation, candidates and case

NoWork == [candidates |-> <<>>]

GateInit == Init /\ work = NoWork

\* map_operational_work reads no tool, so it is looked at before any is registered.
MapWork(s) ==
  /\ work' = LET candidates == Candidates(s.text, s.turn, s.off)
             IN  [situation  |-> s,
                  candidates |-> candidates,
                  case       |-> CaseProjection(s.text, s.turn, candidates)]
  /\ UNCHANGED vars

GateNext ==
  /\ work = NoWork
  /\ \/ Next /\ UNCHANGED work
     \/ /\ last = NoExecution /\ adapters = [t \in Tools |-> NoAdapter]
        /\ \E s \in Situations : MapWork(s)

GateSpec == GateInit /\ [][GateNext]_<<vars, work>>

-----------------------------------------------------------------------------

\* _tool_contract_catalog: the contract of a name, none if nothing is registered.
ContractOf(t) == IF adapters[t] = NoAdapter THEN NoContract ELSE adapters[t].contract.idempotency

\* What the gate is told of the platform: the contract of the tool, and what the
\* manifests say of the capability that the operation or what blocks the case names.
Platform(t) ==
  [contract : {ContractOf(t)},
   replay : {adapters[t] # NoAdapter /\ adapters[t].contract.replay}, named : BOOLEAN, blocked : BOOLEAN,
   publicAction : {"none", "disabled", "enabled"}]

\* What the gate looks at in a case, and what it knows from the case and from what the
\* caller gives it.
SeenCase ==
  [loaded : BOOLEAN, documentation : {"available", "unknown_or_pending"},
   technical : {"issue_open", "visit_needed_or_scheduled"}]

Known(given, seen) == given \union CaseEvidence([seen |-> seen])

\* What a case stops saying when it moves on, nobody else having said it: that there are
\* documents, once they are no longer to be brought, and the diagnosis of a fault, once
\* it is more than reported.
Unsaid(op, given, seen) ==
  \/ /\ op = "associate_documentation" /\ "documents" \notin given
     /\ seen.documentation \notin Unresolved
  \/ /\ op = "schedule_technical_visit" /\ "technical_diagnosis" \notin given
     /\ seen.technical # "issue_open"

\* An operation that may be executed still may when the caller gives more evidence, the
\* user grants more and the case moves on, a loaded claim staying loaded: only what the
\* case alone said, and says no more, takes it back, and only for two operations.
MoreIsNeverLess ==
  last = NoExecution /\ work = NoWork =>
    \A t \in Tools, op \in Operations, granted \in SUBSET Grants :
      \A given \in SUBSET Profile(op).evidence, pf \in Platform(t), seen \in SeenCase :
        ExecutionAllowed(op, Known(given, seen), granted, pf) =>
          \A g \in Grants, e \in Profile(op).evidence \union {"other"}, later \in SeenCase :
            \/ seen.loaded /\ ~later.loaded
            \/ Unsaid(op, given \union {e}, later)
            \/ ExecutionAllowed(op, Known(given \union {e}, later), granted \union {g}, pf)

\* A record that says its operation may safely be repeated is enough to know the
\* repetition by: projected against it, before or after the tool it needs has run, the
\* operation is a duplicate, whatever was rejected, cancelled or answered meanwhile.
RetriesRecognised ==
  last = NoExecution /\ work = NoWork =>
    \A t \in Tools, op \in Operations, granted \in SUBSET Grants, key \in {NoKey, "given"} :
      \A pf \in Platform(t), receipt \in {"none", "timeout", "partial_response", "tool_down"} :
        LET a     == Assessment(op, Profile(op).evidence, granted, pf)
            ctx   == [Context(key, granted) EXCEPT !.receipt = receipt]
            first == Projected(a, ctx)
            done  == Finalized(first, [status |-> "created", tool |-> first.tool, key |-> first.key,
                                       requested |-> TRUE, replayable |-> TRUE, reversible |-> TRUE])
        IN  (first.tool # "" /\ first.safe) =>
              \A r \in {first, done}, rejected \in SUBSET {"user_confirmation", "human_approval"} :
                LET again == [ctx EXCEPT !.previous = {r}, !.rejected = rejected, !.cancelled = TRUE]
                IN  Projected(a, again).state = "duplicate_detected_shadow"

\* A mapped turn prepares and never acts: whatever work its message asks for, the gate
\* lets every candidate through with no grant, no tool and no more evidence than the
\* case itself gives.
PreparedOnly ==
  work # NoWork =>
    \A op \in DOMAIN work.candidates, t \in Tools :
      \A pf \in Platform(t) :
        Recommendation(GateName(op, work.candidates[op].expected), CaseEvidence(work.case), {}, pf)
          = "auto_execute"

\* Looking at the case never brings work that the user put off before work that is
\* pending, whatever the other adjustments add and take.
PutOffStaysBehind ==
  work # NoWork =>
    LET c == work.candidates
    IN  \A off, open \in DOMAIN c :
          (/\ c[off].status = "suspended" /\ c[open].status = "pending"
           /\ OriginalRank(c, off) > OriginalRank(c, open)) =>
             ProjectedPrecedes(c, work.case, open, off)

\* What nobody can do for the user stays in sight, whatever else the message asks for:
\* it is a candidate that is blocked, it is pending in the case, and the case is not
\* the user's turn to move.
LimitsStayVisible ==
  work # NoWork =>
    \A op \in Blockable :
      Detectors[op].marks \cap work.situation.text # {} =>
        /\ op \in work.case.blocked \cap work.case.pending
        /\ work.case.owner = "external_system_or_capability_owner"
=============================================================================
