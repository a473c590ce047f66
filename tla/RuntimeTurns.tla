----------------------------- MODULE RuntimeTurns -----------------------------
(* ACAOSRuntime.process and process_output: a turn is planned, executed by one   *)
(* engine, executed again by the other on a copy of the memory, compared,        *)
(* committed and recorded. All turns of a runtime share its event bus, sessions, *)
(* memory and last trace; the servers run one thread for each request.           *)
EXTENDS StepExecution

CONSTANTS Threads, Conversations,
          MaxTurns,     \* bound: turns the runtime is asked for
          Settings      \* the threads that run, messages (conversation, hits, continues,
                        \* answers, claimWords, limits), how they are asked for
                        \* (process_output or process), whether callers hand in the state of
                        \* the turn before, whether the output puts an objective first
                        \* (ConversationalFirstConfig), what a provider replies, and bounds on
                        \* the turns and on the events at which a subscriber raises

ASSUME RuntimeAssumption ==
  /\ MaxTurns \in Nat
  /\ \A s \in Settings : /\ s.threads \subseteq Threads /\ s.clears \subseteq BOOLEAN
                         /\ s.turns \in 0..MaxTurns /\ s.raises \in Nat /\ s.chained \in BOOLEAN
                         /\ s.first \in BOOLEAN
                         /\ \A m \in s.messages : m.hits \in [DOMAIN Intents -> Nat]

VARIABLES setting,
          turn,      \* what each thread is doing
          calls,     \* turns begun: a turn is known by its number
          bus,       \* for each turn, its events the bus holds, in order
          session,   \* for each conversation, whose state is stored and its mission
          returned,  \* for each conversation, the program and answer its caller got last
          semantic,  \* the memory's last type of mission
          episodes,  \* for each turn, how often it was put into the memory
          lookups,   \* for each turn, how often the knowledge tool ran
          lastTrace, \* the turn of the last trace and the events it holds
          replies,   \* what callers got of each turn
          raises

vars == <<setting, turn, calls, bus, session, returned, semantic, episodes, lookups,
          lastTrace, replies, raises>>

Turns == 1..MaxTurns
Idle == [step |-> "idle"]
NoTrace == [turn |-> 0, events |-> [n \in Turns |-> <<>>]]

Planning == <<"intent_matched", "action_planned", "flow_routed", "execution_plan_created",
              "decision_graph_created">>

\* The events of a turn, in order. The engines compare under one of two names.
AllEvents == <<"started">> \o Planning \o
             <<"policy_evaluated", "authority_resolved", "compared", "completed">>

Init ==
  /\ setting \in Settings
  /\ turn = [t \in Threads |-> Idle]
  /\ calls = 0
  /\ bus = [n \in Turns |-> <<>>]
  /\ session = [c \in Conversations |->
                 [by |-> "nobody", turn |-> 0, mission |-> "none"]]
  /\ returned = [c \in Conversations |-> [program |-> NoProgram, answer |-> NoAnswer]]
  /\ semantic = "nothing"
  /\ episodes = [n \in Turns |-> 0]
  /\ lookups = [n \in Turns |-> 0]
  /\ lastTrace = NoTrace
  /\ replies = {}
  /\ raises = 0

At(t, step) == turn[t].step = step
Mine(t) == turn[t].number
Talk(t) == turn[t].message.conversation
Official(t) == turn[t].plan.flow \in MigratedFlows

\* A record with what a step adds to it and sets in it.
Extend(r, more) ==
  [x \in DOMAIN r \union DOMAIN more |-> IF x \in DOMAIN more THEN more[x] ELSE r[x]]

\* EventBus.publish: the event is kept, then its subscribers are called; one that
\* raises ends the turn of the publisher.
Emit(t, events, next) ==
  /\ bus' = [bus EXCEPT ![Mine(t)] = @ \o events]
  /\ turn' = [turn EXCEPT ![t] = next]
  /\ UNCHANGED raises

Raise(t, events) ==
  /\ raises < setting.raises
  /\ raises' = raises + 1
  /\ \E n \in DOMAIN events : bus' = [bus EXCEPT ![Mine(t)] = @ \o SubSeq(events, 1, n)]
  /\ turn' = [turn EXCEPT ![t] = Idle]

\* ConversationManager.after_process
Store(t, by) ==
  session' = [session EXCEPT ![Talk(t)] =
               [by |-> by, turn |-> Mine(t), mission |-> turn[t].mission]]

-----------------------------------------------------------------------------
Call(t, m, clears) ==
  /\ At(t, "idle") /\ calls < setting.turns
  /\ calls' = calls + 1
  /\ turn' = [turn EXCEPT ![t] = [step |-> IF clears THEN "clear" ELSE "start",
                                  number |-> calls + 1, message |-> m, clears |-> clears]]
  /\ UNCHANGED <<setting, bus, session, returned, semantic, episodes, lookups, lastTrace, replies, raises>>

\* Mutant: the events of earlier turns stay.
ClearNothing(t) ==
  /\ At(t, "clear")
  /\ turn' = [turn EXCEPT ![t].step = "start"]
  /\ UNCHANGED <<setting, calls, bus, session, returned, semantic, episodes, lookups, lastTrace, replies,
                 raises>>

\* process_output empties the bus for the events of its own turn.
Clear(t) ==
  /\ At(t, "clear")
  /\ bus' = [n \in Turns |-> <<>>]
  /\ turn' = [turn EXCEPT ![t].step = "start"]
  /\ UNCHANGED <<setting, calls, session, returned, semantic, episodes, lookups, lastTrace, replies, raises>>

Begin(t) ==
  /\ At(t, "start")
  /\ \/ Emit(t, <<"started">>, [turn[t] EXCEPT !.step = "plan"])
     \/ Raise(t, <<"started">>)
  /\ UNCHANGED <<setting, calls, session, returned, semantic, episodes, lookups, lastTrace, replies>>

\* begin_turn loads the mission of the conversation; intent, action, flow and plan
\* follow. Whether the mission still misses something is the conversation's affair.
Plan(t) ==
  LET mission == session[Talk(t)].mission
      plan(missing) == PlanFor(IntentOf(turn[t].message, mission, missing))
  IN  /\ At(t, "plan")
      /\ \/ \E missing \in BOOLEAN :
              Emit(t, Planning, Extend(turn[t], [step |-> "policy", plan |-> plan(missing),
                                                 mission |-> mission]))
         \/ Raise(t, Planning)
      /\ UNCHANGED <<setting, calls, session, returned, semantic, episodes, lookups, lastTrace, replies>>

\* before_kernel creates a mission if there is none; then the plan is judged.
Prepare(t) ==
  LET mission == IF turn[t].mission = "none"
                 THEN MissionFor(turn[t].plan, turn[t].message.claimWords) ELSE turn[t].mission
  IN  /\ At(t, "policy")
      /\ \/ Emit(t, <<"policy_evaluated">>,
                 [turn[t] EXCEPT !.step = "authorize", !.mission = mission])
         \/ Raise(t, <<"policy_evaluated">>)
      /\ UNCHANGED <<setting, calls, session, returned, semantic, episodes, lookups, lastTrace, replies>>

\* The state the steps start from is the caller's, when it hands one in.
Authorize(t) ==
  LET given == returned[Talk(t)]
      run == IF setting.chained THEN NewRun(given.program, given.answer)
             ELSE NewRun(NoProgram, NoAnswer)
  IN  /\ At(t, "authorize")
      /\ \/ Emit(t, <<"authority_resolved">>,
                 Extend(turn[t], [step |-> "consolidate", run |-> run]))
         \/ Raise(t, <<"authority_resolved">>)
      /\ UNCHANGED <<setting, calls, session, returned, semantic, episodes, lookups, lastTrace, replies>>

\* The memory step of the official engine: MemoryEngine.consolidate, ...
Consolidate(t) ==
  /\ At(t, "consolidate")
  /\ semantic' = turn[t].mission
  /\ episodes' = [episodes EXCEPT ![Mine(t)] = @ + 1]
  /\ turn' = [turn EXCEPT ![t].step = "execute"]
  /\ UNCHANGED <<setting, calls, bus, session, returned, lookups, lastTrace, replies, raises>>

Counted(t, r) == lookups' = [lookups EXCEPT ![Mine(t)] = @ + IF r.ran THEN 1 ELSE 0]

\* The official executor of a migrated flow is handed what was understood of the text.
Context(t, mode, informed, reply) ==
  [mode |-> mode, first |-> setting.first, informed |-> informed,
   limits |-> turn[t].message.limits, reply |-> reply]

\* ... what it remembers of it, and the steps around it; their outcome is committed.
Run(t) ==
  /\ At(t, "execute")
  /\ \E reply \in setting.replies :
       LET context == Context(t, "official", Official(t), reply)
           done == IF Official(t) THEN Execute(turn[t].plan, context, semantic, turn[t].run)
                   ELSE LegacyExecute(turn[t].plan, context, semantic, turn[t].run)
       IN  /\ Counted(t, done)
           /\ Store(t, "official")
           /\ turn' = [turn EXCEPT ![t] = Extend(@, [step |-> "validate", official |-> done, reply |-> reply])]
  /\ UNCHANGED <<setting, calls, bus, returned, semantic, episodes, lastTrace, replies, raises>>

Alone == \E t \in Threads : setting.threads = {t}

\* The engines share a verbalizer that keeps what became of a brief, failures too: asked
\* again for the same one it says the same. Of two threads, one may have made it another.
Repeats(t, reply) == Alone /\ ~(setting.first /\ Official(t)) => reply = turn[t].reply

\* Mutant: the tool runs again for the comparison.
CheckOfficially(t) ==
  /\ At(t, "validate")
  /\ \E reply \in setting.replies :
       LET context == Context(t, "official", FALSE, reply)
           check == IF Official(t) THEN LegacyExecute(turn[t].plan, context, turn[t].mission, turn[t].run)
                    ELSE Execute(turn[t].plan, context, turn[t].mission, turn[t].run)
       IN  /\ Repeats(t, reply)
           /\ Counted(t, check)
           /\ turn' = [turn EXCEPT ![t] = Extend(@, [step    |-> "compare",
                                                      differs |-> Divergences(turn[t].official, check)])]
  /\ IF Official(t) THEN Store(t, "validation") ELSE UNCHANGED session
  /\ UNCHANGED <<setting, calls, bus, returned, semantic, episodes, lastTrace, replies, raises>>

\* The other engine executes the plan again, on a copy of the memory and with the evidence
\* of the first, but never with what was understood of the text. The legacy engine ends in
\* after_process either way.
Check(t) ==
  /\ At(t, "validate")
  /\ \E reply \in setting.replies :
       LET context == Context(t, "shadow", FALSE, reply)
           run == [turn[t].run EXCEPT !.evidence = turn[t].official.evidence]
           check == IF Official(t) THEN LegacyExecute(turn[t].plan, context, turn[t].mission, run)
                    ELSE Execute(turn[t].plan, context, turn[t].mission, run)
       IN  /\ Repeats(t, reply)
           /\ Counted(t, check)
           /\ turn' = [turn EXCEPT ![t] = Extend(@, [step    |-> "compare",
                                                      differs |-> Divergences(turn[t].official, check)])]
  /\ IF Official(t) THEN Store(t, "validation") ELSE UNCHANGED session
  /\ UNCHANGED <<setting, calls, bus, returned, semantic, episodes, lastTrace, replies, raises>>

\* Mutant: the commit of before the comparison is taken to be enough.
CompareOnly(t) ==
  /\ At(t, "compare")
  /\ \/ Emit(t, <<"compared">>, [turn[t] EXCEPT !.step = "complete"])
     \/ Raise(t, <<"compared">>)
  /\ UNCHANGED <<setting, calls, session, returned, semantic, episodes, lookups, lastTrace, replies>>

\* The comparison is published before the official state is committed again.
Compare(t) ==
  /\ At(t, "compare")
  /\ \/ Emit(t, <<"compared">>, [turn[t] EXCEPT !.step = "attach"]) /\ Store(t, "official")
     \/ Raise(t, <<"compared">>) /\ UNCHANGED session
  /\ UNCHANGED <<setting, calls, returned, semantic, episodes, lookups, lastTrace, replies>>

\* _attach_conversation_state_runtime_record
Attach(t) ==
  /\ At(t, "attach")
  /\ Store(t, "final")
  /\ turn' = [turn EXCEPT ![t].step = "complete"]
  /\ UNCHANGED <<setting, calls, bus, returned, semantic, episodes, lookups, lastTrace, replies, raises>>

Complete(t) ==
  /\ At(t, "complete")
  /\ \/ Emit(t, <<"completed">>, [turn[t] EXCEPT !.step = "record"])
     \/ Raise(t, <<"completed">>)
  /\ UNCHANGED <<setting, calls, session, returned, semantic, episodes, lookups, lastTrace, replies>>

\* _record_trace: every event the bus holds.
Record(t) ==
  /\ At(t, "record")
  /\ lastTrace' = [turn |-> Mine(t), events |-> bus]
  /\ turn' = [turn EXCEPT ![t].step = "reply"]
  /\ UNCHANGED <<setting, calls, bus, session, returned, semantic, episodes, lookups, replies, raises>>

\* The state is returned; process_output adds the events and the last trace there are.
Reply(t) ==
  LET r == turn[t].official
  IN  /\ At(t, "reply")
      /\ replies' = replies \union
           {[turn |-> Mine(t), message |-> turn[t].message, plan |-> turn[t].plan, run |-> r,
             differs |-> turn[t].differs, clears |-> turn[t].clears,
             events |-> bus, trace |-> lastTrace.turn]}
      /\ returned' = [returned EXCEPT ![Talk(t)] = [program |-> r.program, answer |-> r.answer]]
      /\ turn' = [turn EXCEPT ![t] = Idle]
      /\ UNCHANGED <<setting, calls, bus, session, semantic, episodes, lookups, lastTrace, raises>>

Step(t) ==
  \/ Clear(t) \/ Begin(t) \/ Plan(t) \/ Prepare(t) \/ Authorize(t) \/ Consolidate(t) \/ Run(t)
  \/ Check(t) \/ Compare(t) \/ Attach(t) \/ Complete(t) \/ Record(t) \/ Reply(t)

Next ==
  \E t \in Threads :
    \/ t \in setting.threads /\ \E m \in setting.messages, clears \in setting.clears : Call(t, m, clears)
    \/ Step(t)

Spec == Init /\ [][Next]_vars
-----------------------------------------------------------------------------
TypeOK ==
  /\ calls \in 0..setting.turns /\ raises \in 0..setting.raises
  /\ \A n \in Turns : \E i \in DOMAIN AllEvents, j \in 0..Len(AllEvents) : bus[n] = SubSeq(AllEvents, i, j)
  /\ \A c \in Conversations : session[c].by \in {"nobody", "official", "validation", "final"}
  /\ \A r \in replies : r.turn \in 1..calls

\* What two executions of a turn may differ in. An interrupted turn that starts from the
\* state of an earlier one keeps the name of the earlier program; a lookup that failed is
\* evidence to the second engine, which takes it for a success; and where an objective is
\* put first, only the executor of a migrated flow knows the limits that the text sets, and
\* only its brief says what was understood, so a provider may word the answer anew.
Excused(message, plan, run) ==
  UNION {IF setting.chained /\ plan.flow \in Interruptions THEN {"program"} ELSE {},
         IF run.decision = "USE_TOOL" /\ Registered /\ plan.key \notin Known THEN {"outcomes"} ELSE {},
         IF ~ setting.first \/ plan.flow \notin MigratedFlows THEN {}
         ELSE IF setting.replies # {NoReply} THEN {"answer", "outcomes"}
         ELSE IF message.limits THEN {"outcomes"} ELSE {}}

\* The engine that decides and the engine that checks it make the same of every plan
\* (compare_runtime_executions), but for these. Of two threads one may change the memory
\* between the two.
EnginesAgree == Alone => \A r \in replies : r.differs \subseteq Excused(r.message, r.plan, r.run)

\* However a turn is executed twice, its effects are there once: what it adds to the
\* memory, and the call of the tool.
RememberedOnce ==
  /\ \A n \in Turns : episodes[n] <= 1
  /\ \A r \in replies : episodes[r.turn] = 1

LookedUpOnce ==
  /\ \A n \in Turns : lookups[n] <= 1
  /\ \A r \in replies :
       lookups[r.turn] = (IF r.run.decision = "USE_TOOL" /\ Registered THEN 1 ELSE 0)

EffectsOnce == RememberedOnce /\ LookedUpOnce

\* Between turns the session of a conversation holds the state of the official
\* engine, never the one made for the comparison, unless a subscriber raised.
SessionIsOfficial ==
  (raises = 0 /\ \A t \in Threads : At(t, "idle")) =>
    \A c \in Conversations : session[c].by # "validation"

\* The caller of process_output gets the events of its own turn, all of them and in
\* order, no other's, and the trace of its own turn, as long as one thread runs.
OutputIsOwn ==
  \A r \in replies : Alone /\ r.clears =>
    /\ r.trace = r.turn
    /\ r.events = [n \in Turns |-> IF n = r.turn THEN AllEvents ELSE <<>>]
===============================================================================
