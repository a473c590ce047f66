---------------------------- MODULE StepExecution -----------------------------
(* What a plan does to a turn: the step handlers, the executor that walks the    *)
(* plan and the older executor that is kept to check it, as functions of the     *)
(* turn. A run is the part of the cognitive state the steps touch with what the  *)
(* executor carries along; answers and evidence are told apart by their origin.  *)
(* A context is what the handlers are given besides: the mode, whether the       *)
(* output step puts an objective first, whether the executor hands it what was   *)
(* understood of the text, whether that sets limits, and what the provider says. *)
EXTENDS ExecutionPlans, ToolContracts, SequencesExt

CONSTANTS Known,     \* keys the knowledge tool can answer
          Registered \* whether the engine has the knowledge tool at all

ASSUME StepsAssumption == Registered \in BOOLEAN

NoProgram == "no_program"
NoAnswer == <<>>
NoEvidence == "no_evidence"
NoReply == "no_reply" \* no provider, or nothing of it was accepted

\* StaticKnowledgeAdapter.execution_contract
Knowledge ==
  [sideEffects |-> FALSE, dryRun |-> TRUE, replay |-> TRUE, shadow |-> TRUE,
   idempotency |-> "idempotent"]

\* The knowledge tool called for a key: what it says, and whether the adapter ran.
\* A failed call is evidence too: its error.
Lookup(key, context, evidence) ==
  LET action == DecideExecution(context.mode, Knowledge,
                                IF evidence = NoEvidence THEN {} ELSE {"existing"})
  IN  IF ~Registered THEN [status |-> "error", evidence |-> "error", ran |-> FALSE]
      ELSE IF action = "reuse_existing_evidence"
      THEN [status |-> "success", evidence |-> evidence, ran |-> FALSE]
      ELSE IF key \in Known THEN [status |-> "success", evidence |-> "concept", ran |-> TRUE]
      ELSE [status |-> "error", evidence |-> "error", ran |-> TRUE]

\* ExecutionStepOutcome: evidence is recorded for the steps that handle it.
Outcome(step, status, r) ==
  [step |-> step, status |-> status,
   evidence |-> IF step \in {"tool_lookup", "context"} THEN r.evidence ELSE NoEvidence]

Noted(r, step, status) == [r EXCEPT !.outcomes = Append(@, Outcome(step, status, r))]

\* Generate: a tool's answer when the policy asked for one, else what the program says.
KernelAnswer(r, program) ==
  IF r.decision = "USE_TOOL" /\ r.evidence # NoEvidence
  THEN <<"kernel", program, r.evidence>> ELSE <<"kernel", program>>

\* PolicyStepHandler: a plan that asks for a person interrupts the turn.
Decide(plan, r) ==
  LET decided == [r EXCEPT !.decision = PolicyOf(plan)]
  IN  IF decided.decision = "ESCALATE"
      THEN [Noted(decided, "policy", "interrupted") EXCEPT !.interrupted = TRUE]
      ELSE Noted(decided, "policy", "success")

\* ToolLookupStepHandler: the tool is called when the policy asked for one.
LookUp(plan, context, r) ==
  IF r.decision # "USE_TOOL" THEN Noted(r, "tool_lookup", "skipped")
  ELSE LET found == Lookup(plan.key, context, r.evidence)
       IN  Noted([r EXCEPT !.evidence = found.evidence, !.ran = @ \/ found.ran],
                 "tool_lookup", found.status)

\* _interruption_result: the policy's own answer; the steps of the turn end here.
Interruption(step, r) ==
  [Noted([r EXCEPT !.answer = <<"policy">>], step, "success") EXCEPT !.interrupted = TRUE]

\* MemoryStepHandler: what the memory holds by then, the last type of mission.
Remember(remembered, r) == Noted([r EXCEPT !.remembered = remembered], "memory", "success")

\* OutputStepHandler: the answer is that of the objective, when one is put first, and in
\* the words of the provider, when they are accepted. The objective tells the limits the
\* text sets (ConversationObjectiveProjector) if the executor hands on what was understood.
Speak(context, r) ==
  LET said == r.answer \o (IF context.first THEN <<"objective">> ELSE <<>>)
                       \o (IF context.reply = NoReply THEN <<>> ELSE <<context.reply>>)
  IN  [r EXCEPT !.answer = said,
                !.outcomes = Append(@, [step |-> "output", status |-> "success", said |-> said,
                                        limits |-> context.first /\ context.informed /\ context.limits])]

\* The handlers of step_handlers.py.
Handle(plan, context, remembered, step, r) ==
  CASE step = "policy" -> Decide(plan, r)
    [] step = "tool_lookup" -> LookUp(plan, context, r)
    [] step = "kernel" ->
         Noted([r EXCEPT !.program = plan.program, !.answer = KernelAnswer(r, plan.program)],
               step, "success")
    [] step \in {"handoff", "escalation"} -> Interruption(step, r)
    [] step = "memory" -> Remember(remembered, r)
    [] step = "context" -> Noted(r, step, "success")
    [] step = "output" -> Speak(context, r)

AfterInterruption == {"handoff", "escalation", "memory", "context", "output"}

\* RuntimeExecutor.execute. The policy is evaluated first when the plan has no such step.
Execute(plan, context, remembered, r) ==
  LET walk(x, step) == IF x.interrupted /\ step \notin AfterInterruption THEN x
                       ELSE Handle(plan, context, remembered, step, x)
      start == IF HasStep(plan, "policy") THEN r ELSE [r EXCEPT !.decision = PolicyOf(plan)]
  IN  FoldLeft(walk, start, plan.steps)

\* execute_step_slice: some steps of a plan, in its order.
Slice(plan, context, remembered, steps, r) ==
  LET walk(x, step) == IF step \in steps THEN Handle(plan, context, remembered, step, x) ELSE x
  IN  FoldLeft(walk, r, plan.steps)

-----------------------------------------------------------------------------
\* Mutant: the interruption is looked for among the handoffs only.
LegacyInterruptionHandoff(plan) ==
  IF HasStep(plan, "handoff") THEN <<"handoff">> ELSE <<>>

\* _interruption_step
LegacyInterruption(plan) ==
  IF HasStep(plan, "escalation") THEN <<"escalation">>
  ELSE IF HasStep(plan, "handoff") THEN <<"handoff">> ELSE <<>>

\* The older executor runs its steps whatever the plan lists, and keeps the outcomes of
\* the planned ones.
LegacyStep(plan, context, remembered, step, r) ==
  LET after == Handle(plan, context, remembered, step, r)
  IN  IF HasStep(plan, step) THEN after ELSE [after EXCEPT !.outcomes = r.outcomes]

\* _finalize_state: memory, context and output.
LegacyEnd(plan, context, remembered, r) ==
  LET walk(x, step) == LegacyStep(plan, context, remembered, step, x)
  IN  FoldLeft(walk, r, Ending)

\* The outcome of the policy, which was evaluated before the executor was called.
LegacyStart(plan, r) ==
  IF HasStep(plan, "policy") THEN Decide(plan, r) ELSE [r EXCEPT !.decision = PolicyOf(plan)]

\* _execute_interruption: no program is named.
LegacyInterrupted(plan, context, remembered, r) ==
  LET handle(x, step) == Handle(plan, context, remembered, step, x)
      stopped == FoldLeft(handle, LegacyStart(plan, r), LegacyInterruption(plan))
  IN  [LegacyEnd(plan, context, remembered, stopped) EXCEPT !.program = NoProgram]

\* _execute_kernel_path: the tool, the kernel, and the program that was compiled.
LegacyKernelPath(plan, context, remembered, r) ==
  LET looked == Slice(plan, context, remembered, {"tool_lookup"}, LegacyStart(plan, r))
      processed == LegacyStep(plan, context, remembered, "kernel", looked)
  IN  [LegacyEnd(plan, context, remembered, processed) EXCEPT !.program = plan.program]

\* LegacyRuntimeExecutor.execute, and project, which differs in its mode.
LegacyExecute(plan, context, remembered, r) ==
  IF PolicyOf(plan) = "ESCALATE" THEN LegacyInterrupted(plan, context, remembered, r)
  ELSE LegacyKernelPath(plan, context, remembered, r)

\* compare_runtime_executions: the fields in which two runs of a plan differ.
Divergences(a, b) ==
  {f \in {"outcomes", "evidence", "program", "answer", "decision", "remembered"} : a[f] # b[f]}

\* A turn before its steps. A caller that hands in the state of an earlier turn hands
\* in its program and its answer.
NewRun(program, answer) ==
  [decision |-> "none", evidence |-> NoEvidence, ran |-> FALSE, interrupted |-> FALSE,
   program |-> program, answer |-> answer, outcomes |-> <<>>, remembered |-> "nothing"]
===============================================================================
