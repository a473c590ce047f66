------------------------------ MODULE ToolEngine ------------------------------
(* The registry of tool adapters and the execution of one call. An adapter may  *)
(* bring its own dry run and replay, and these may or may not run the tool; the  *)
(* engine records what it believes happened.                                     *)
EXTENDS ToolContracts

CONSTANTS Tools,
          Adapters,    \* contracts, and what the methods of the adapter do
          NoAdapter

ASSUME AdaptersAssumption ==
  /\ NoAdapter \notin Adapters
  /\ \A a \in Adapters :
    /\ a.contract \in Contract
    /\ a.ownDryRun \in {"none", "pretends", "runs"}
    /\ a.ownReplay \in {"none", "reads", "runs"}
    \* A tool with effects is never run by its own dry run or replay.
    /\ a.contract.sideEffects => a.ownDryRun # "runs" /\ a.ownReplay # "runs"

VARIABLES adapters,    \* ToolEngine._adapters and _contracts
          last         \* the execution record of the last call

vars == <<adapters, last>>

NoExecution == [tool |-> "none", mode |-> "official", action |-> "reject",
                executed |-> FALSE, ran |-> FALSE, success |-> FALSE]

Init ==
  /\ adapters = [t \in Tools |-> NoAdapter]
  /\ last = NoExecution

\* register raises for a contract that is not valid, and otherwise replaces the
\* adapter and the contract of that name.
Register(t, a) ==
  /\ adapters' = IF Validate(a.contract) THEN [adapters EXCEPT ![t] = a] ELSE adapters
  /\ UNCHANGED last

\* Whether the adapter's own code looks the answer up again.
Ran(a, action, evidence) ==
  \/ action = "execute"
  \/ action = "dry_run" /\ a.ownDryRun = "runs"
  \/ action = "replay" /\ a.ownReplay = "runs" /\ evidence = {}

\* A reused or replayed result needs evidence, unless the adapter's own method
\* finds some; a dry run without a method of its own succeeds with no evidence.
\* "answers" says whether the tool itself succeeds.
Succeeds(a, action, evidence, answers) ==
  \/ action = "reuse_existing_evidence"
  \/ action = "dry_run" /\ (a.ownDryRun = "runs" => answers)
  \/ action = "replay" /\ (evidence # {} \/ (a.ownReplay # "none" /\ answers))
  \/ action = "execute" /\ answers

Execute(t, mode, evidence, answers) ==
  /\ last' =
       IF adapters[t] = NoAdapter THEN [NoExecution EXCEPT !.tool = t, !.mode = mode]
       ELSE LET a == adapters[t]
                action == DecideExecution(mode, a.contract, evidence)
            IN  [tool |-> t, mode |-> mode, action |-> action,
                 executed |-> action = "execute",
                 ran |-> Ran(a, action, evidence),
                 success |-> Succeeds(a, action, evidence, answers)]
  /\ UNCHANGED adapters

Next ==
  \/ \E t \in Tools, a \in Adapters : Register(t, a)
  \/ \E t \in Tools, mode \in Modes \union {"unheard_of"}, evidence \in Evidence, answers \in BOOLEAN :
       Execute(t, mode, evidence, answers)

Spec == Init /\ [][Next]_vars

-----------------------------------------------------------------------------
\* The types of the registry and of an execution record: no adapter with effects
\* that cannot be repeated offers itself for shadow execution.
TypeOK ==
  /\ adapters \in [Tools -> {NoAdapter} \union
       {a \in Adapters : a.contract.sideEffects /\ a.contract.shadow
                          => a.contract.idempotency # "non_idempotent"}]
  /\ last \in [tool : Tools \union {"none"}, mode : Modes \union {"unheard_of"},
               action : Actions, executed : BOOLEAN, ran : BOOLEAN, success : BOOLEAN]

\* Whatever is registered and replaced, a tool that changes the world runs in
\* official mode only: no shadow, simulation, dry run or replay of a plan does.
EffectsOnlyOfficial ==
  [][\A t \in Tools :
       (/\ last' # last /\ last'.tool = t /\ last'.ran
        /\ adapters[t].contract.sideEffects)
       => last'.mode = "official"]_vars

=============================================================================
