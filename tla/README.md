# ACA Framework: specifications, model checks and proofs

This directory holds TLA+ specifications of ACA, a conversational runtime that
keeps the state of each conversation explicitly and lets small deterministic
components decide what becomes of it. The specifications are translated from the
Python source (paths below are relative to `src/`). TLC checks them on small
instances; TLAPS proves some of the properties for every instance.

## 1. The system

| Component | Source | State it keeps | Operations that change it | Hard behaviour |
| --- | --- | --- | --- | --- |
| Conversation manager | `aca_os/conversation_manager.py` | one session per conversation: number of turns, `ConversationState`, records | `begin_turn`, `project_from_cognitive_state`, `after_process` | shared by request threads; stores at the start and at the end of a turn, merging the second time |
| Conversation state | `aca_os/conversation_state.py`, `conversation_objective.py` | slots, facts, mission, topic stack, plan, `derived_state` (with the proposals) | act, slots, facts, topic stack, plan, clarification, next question | the same information in several places; long sequences of answers, withdrawals and topic changes |
| Mission manager | `aca_os/mission_manager.py` | none of its own; the only writer of `CognitiveState.active_mission` | `before_kernel` (load, create, decide), `after_kernel` | conflicting, stale and repeated proposals |
| Semantic authority pilot | `aca_os/semantic_authority.py`, `semantic_projection.py`, `semantic_authority_pilot.py` | the record of one representation and its history | interpretation, projection, choice of act and goal | rollback to the legacy act; two readings of one text |
| Runtime pipeline | `aca_os/runtime.py`, `runtime_executor.py`, `legacy_runtime_executor.py`, `step_handlers.py` | traces, last result | `process`, `process_output`, `replay_session` | every plan is run by two engines; any stage may raise |
| Kernel | `kernel/aca_kernel/` | immutable, versioned `CognitiveState` | `run`, `evolve` | a contract violation in the middle of a program |
| Policy and planning | `zero_cost/*.py`, `aca_os/policy_manager.py`, `execution_authority.py` | none | match, plan, route, authorise | interruptions and overrides of the intent |
| Tool engine | `aca_os/tool_engine.py` | registry of adapters | `register`, `execute`, dry run, shadow, replay | effects outside the official mode |
| Governance gate | `aca_os/operational_governance_gate.py` | none | recommendation per operation | evidence and grants that arrive in any order |
| Work mapper | `aca_os/operational_work_mapper.py` | the projected case | selection, candidates, ranking | adjustments that add up |
| Handoff tool | `aca_os/operational_tools.py` | a JSON-lines file | `execute`, `dry_run`, `replay` | check and append without a lock, torn lines |
| Audit ledger | `aca_os/operational_audit_ledger.py` | a JSON-lines file | projection, finalisation, `persist` | record and effect are separate steps |
| Plugins | `aca_os/plugin_loader.py`, `plugin_lifecycle.py`, `plugin_validator.py`, `component_registry.py` | lifecycle records, registry | load, initialize, activate, pause, stop, reset, unload, fail | two tables changed one after the other |
| Platform plugins | `aca_core/platform_plugins.py` | registry, plugin state | discovery, routing | selection by priority and capability |
| Memory, event bus | `aca_os/memory_engine.py`, `event_bus.py` | memories and their file; events, handlers | `consolidate`, `persist`; `publish`, `clear` | whole-file rewrite; a handler that raises |
| Public layer | `aca_os/public_conversation_product_layer.py` | cache of layers, runtimes and memories per conversation | `run`, `reset` | shared by threads without a lock |
| Demo domain flow | `aca_os/demo_domain_flow.py`, `public_conversation_{workflow,state,derivation,...}.py` | a `PublicConversationState` per conversation | one demo request | read, compose, store without a lock |
| Verbalization | `aca_os/llm_verbalization.py` | bounded cache, warm-up lock | `verbalize`, `warmup` | time limits, remembered failures |
| Domain packs, front ends, response composition, evaluation, studio | see `PROJECT.json` | none, or files read once | | |

How they interact. An HTTP thread calls `runtime.process`, directly or through
the public layer or the demo flow. That calls `begin_turn`, which computes from the
session what the message says and stores it; the planners choose a flow and a plan;
`before_kernel` decides the mission from the proposals that the conversation state
has left in `derived_state`; policy authorises; the executor walks the plan (tools,
kernel, renderer), a second engine repeats it for comparison; `after_process`
projects the cognitive state back and merges it into the session. Beside the
answer, the work mapper derives the operational case, the gate judges each
operation, and the ledger projects or persists a record around a tool. Components
speak through state values and files, not through messages.

What makes each of them correct is stated in section 4; what can go wrong, line by
line, is the list of hazards in `PROJECT.json`.

## 2. Modules

| Module | Models |
| --- | --- |
| `MissionLifecycle`, `MissionManager` | mission types, status graph; which proposals are candidates, who wins, merge, conflict, gates, decision |
| `MissionDecisions` | the mission manager before any component that keeps to the proposal contract |
| `ConversationState` | acts, slots, facts, mission advancement, topics, proposals, merge of a finished turn (operators) |
| `ConversationTurns`, `MCConversationTurns` | the turns of a conversation with request threads and failures |
| `ConversationObjective` | goal, missing information, next step, question budget, urgency (operators) |
| `ConversationPlans`, `MCConversationPlans` | turns again, with needs, questions, agenda, conversation plan, clarification and fulfilment; EXTENDS `ConversationTurns` |
| `SemanticAuthority` | interpretation of a text of clauses; its projection to an act, slots and a goal (operators) |
| `SemanticTurns`, `MCSemanticTurns` | a conversation with the pilot side by side with one without it |
| `ExecutionPlans` | matcher, planner, router, execution plan and policy (operators) |
| `StepExecution` | one plan executed by the official engine and by the legacy one (operators) |
| `RuntimeTurns`, `MCRuntimeTurns` | `process` and `process_output` stage by stage, with threads, event bus, memory, session and traces |
| `ToolContracts`, `ToolEngine` | contracts of adapters; registration and calls in every mode |
| `GovernanceRules`, `AuditLedger` | profiles, preconditions, audit requirements of operations; the ledger's projection, finalisation, duplicates, replay safety (operators) |
| `OperationalWork` | selection of work from a message; the case and the order it gives the candidates (operators) |
| `OperationalGate`, `MCToolEngine` | tool registry, gate, ledger and work mapper composed |
| `HandoffPackages` | abstract: the first package of a key answers it for good |
| `HandoffService`, `MCHandoffService` | attempts of the handoff tool around gate, package file and ledger, by several processes with stops; the files' lines, torn and split ones included |
| `PluginManifest` | validation, versions and load order (operators) |
| `PluginStates` | abstract: the published lifecycle of plugins |
| `PluginLifecycle`, `MCPluginLifecycle` | loader, lifecycle manager and component registry |
| `CapabilityRouting` | platform plugin registry, policies and routing (operators) |
| `PublicMemory` | the decisions of the public layer about one message and its memory (operators) |
| `DemoWorkflow` | understanding, policy, plan, reply, review and state of a demo message (operators) |
| `DemoFlow` | the steps of a demo request |
| `PublicConversations`, `MCPublicConversations` | the product layer under threads and resets, composed with `DemoFlow` |
| `Verbalization`, `MCVerbalization` | brief, cache, warm-up, call, validation and fallback |
| `*_proofs` | theorems |

### State and actions

*ConversationTurns.* `session` is `session.conversation_state`, reduced to what the
turn logic reads: slots, active facts (value and turn), mission, topic stack,
proposals. `turn` counts the messages. `pc[h]` and `work[h]` are a request thread and
the turn it carries. `BeginTurn` is `begin_turn`; `DecideMission` and `CreateMission`
are `before_kernel` with and without a mission; `CommitTurn` is `after_process`;
`FailTurn` is an exception anywhere in between. A message is a record of what the
recognisers find in a text (cues, direction of a topic change, answers to the claim
questions, the values of each fact); everything after recognition is computed as by the code.
`ConversationPlans` adds `heard` (the session before the turn) and `asking` (what
the turn plans and asks), and repeats the actions with planning inside them.
`SemanticTurns` runs a whole turn in one step (`TakeTurn`), twice: `session` with the
pilot's act, `unaided` with the legacy act; `representation` is what was interpreted.

*RuntimeTurns.* One action per stage of `process`, per thread: `Clear`, `Begin`,
`Plan`, `Prepare`, `Authorize`, `Consolidate`, `Run` (official engine), `Check` (legacy
engine), `Compare`, `Attach`, `Complete`, `Record`, `Reply`. Each stage that publishes
may end in `Raise`. `bus`, `session`, `semantic`, `episodes`, `lookups` and
`lastTrace` are the objects the threads share. A `context` is what the executors hand the
steps besides the turn; the official one of a migrated flow is `informed`, no other is.

*OperationalGate.* `Register`, and `Execute` in each mode, of `ToolEngine`; `MapWork` maps one
message. The gate and the ledger are functions of the registry's contract, so
that their properties quantify over evidence, grants and receipts in every registry
state.

*HandoffService.* `Begin` (gate and projection), `Fail` (a forced failure), `Find`
(look the key up), `StorePackage`, `Record` (finalise and persist), `Stop` (between
two steps), `StopInLine` (inside an append: in the text, in a character of several bytes,
or before the newline). `BeginRaises` and `FindRaises` are the error of a file that cannot
be decoded. `packages` and `ledger` are the files. Nothing repeats an attempt that was
stopped; that a caller makes another one is one of the attempts of the setting.

*PluginLifecycle.* `StartLoad`, then `LoadManifest`, `SkipManifest` or `AbortLoad` for
each manifest, `AttachLoaded`; `Transition`, `Unload`, `MarkFailed`, each also refused.
`records` and `registry` are the two tables.

*PublicConversations.* `Receive`, `LookupLayer`, `BuildLayer`, `Start`, the three steps
of getting a runtime, `RunTurn`, the two halves of a reset. The legacy pipeline that runs
beside the turn works on the memory that all threads share: `RouteShadow` and `StoreState`
(the plugin's state), `UpdateMemory` three times (what the text says of the talk, what it
is about, details), `Decide`, `Apply`, and `Finish` (the reply). Within one of these the
code reads and writes field by field; the model has other requests between the stages, which
is where a decision goes stale. And
of `DemoFlow` its read, its composition with the store, its runtime and its failure.

*Verbalization.* `EnterWarmup`, `FinishWarmup`, `Take`, `Hit`, `Miss`,
`ProviderAnswers`, `Remember` of each thread; `caches` maps a verbalizer to its bounded
list of entries.

### Abstractions

* Texts are known by what the code finds in them: cues, marks, phrases, clauses with
  their features, the template a reply comes from. The messages of the MC modules were
  read off the recognisers for the texts quoted beside them.
* Confidences and scores are integers (percentages, tenths); rounding that decides is
  kept.
* Lists whose order the code never uses are sets; others are sequences.
* Identifiers, timestamps, reasons and wording are left out.

Names that would bound the model only: `MaxTurns`, `MaxProposals` and the `turns`,
`requests`, `times`, `stops`, `tears` and `raises` of the settings. Nothing in the code
limits them.

## 3. Settings, bounds and fairness

Most runs check several instances at once: the initial state picks a `setting` (threads,
inputs, bounds) that never changes. A property is thus checked with one thread and a rich
vocabulary, and with two threads and the messages that interact.

| Run | Settings | Why that is enough |
| --- | --- | --- |
| `turns` | 19 messages, 4 turns; 8 messages, 6 turns (claims); 8 messages, 6 turns (navigation); 2 threads, 7 messages, 4 turns; 2 threads, 6 messages, 5 turns (answers, revisions, withdrawals) | six turns open a claim, answer both questions, load report and papers, and withdraw or leave afterwards, with a failure at any point; four with two threads let a turn begin before and commit after a complete turn of the other |
| `decisions` | 2 components, 2 proposals, 3 turns | precedence, merging and conflict are about two proposals; three turns let one outlive an abandoned mission |
| `plugins` | 2 plugins, one needing the other; 7 directories; no bound on calls | every state is reached |
| `operations` | 1 tool, every contract; 9 operations, one of each profile; messages of 2 phrases in every turn, of 3 in a loaded claim | the gate looks at one operation, the ranking compares two candidates |
| `handoffs`, `handoffs_raced` | 1 process with 1 stop; 2 processes with 2 stops; 2 processes with 2 torn lines, each torn in one of three places; 1 process whose package is not read back; up to 3 requests of one key | a race, a repetition after it, and a stop of either |
| `runtime` | 1 thread, 13 messages, 3 turns; with 2 failing subscribers; with chained states; 2 turns with an objective put first, with a provider of two answers, with both; 2 threads in 2 conversations | each stage of one turn meets each stage of another; two answers tell whether both engines spoke alike |
| `public`, `claim_repeat` | 14 inputs in 4 turns; 2 conversations with resets and 4 programs; 2 threads that answer and reset; 2 threads that cancel and reject over one memory; demo: 14 messages in 4 turns; 2 threads with failing runtimes | amounts, a topic and its rejection need three turns and one more to come back; three requests let two overlap after a first |
| `verbalization` | every situation against every answer; caches of one and two; 5 requests; 2 threads on one cache; 2 warm-ups; no key | the cache drops entries and meets them again |
| `planning` | 1 thread; 31 messages in 2 turns; five vocabularies in 4 or 5 turns | a step is asked, fails, is reworded and answered; papers affirmed and denied in one message |
| `semantic` | 21 texts in 3 turns; two vocabularies in 5 turns | a greeting after a topic change needs four turns |

`CHECK_DEADLOCK FALSE` stands where conversations end with their last message or
callers stop asking; `plugins` and `public` check for deadlock (the latter has a step for
a server at rest).

Fairness is assumed of the program's own steps, never of users or failures:

* `Verbalization`: a thread that is not waiting for the provider goes on (`WF`). Nothing is
  assumed of a call to the provider or of a warm-up, which holds a lock of the process:
  `urlopen` limits the time of each socket operation and an answer may drip in for ever.
  `EveryTurnAnswered` says who may be kept waiting by what.
* `HandoffService`: an attempt that was begun, and is not stopped, runs on (`WF`). No
  fairness makes a caller begin one: nothing in the code repeats an attempt that was
  stopped, and `EveryPackageAudited` speaks of attempts that were begun.
* `PluginLifecycle`: the loop over the manifests goes on (`WF`).

The other specifications state none and claim no liveness: that a turn ends is up to
user code (packs, subscribers) outside them.

## 4. Runs and what they show

### `turns` (conversation manager, conversation state, mission manager)

`TypeOK`; `OneOpenTopic`; `EvidenceBacked` (a claim takes no question for answered whose
fact the session has forgotten, and is ready or in progress only on facts still held);
`SuspensionHonoured` (who asks to suspend wins over everything else proposed that turn);
`ReturnResumes`; `OnlyFreshEvidence` (what a decision changes comes from a proposal of its
own turn); `AnsweredStaysAnswered` (also across interleaved turns).

### `decisions`

`OrderDoesNotMatter`: for two proposals of different kinds, or two sure ones to maintain,
the decision does not depend on the order in which components emitted them.

### `planning`

One thread: two interleaved turns can break the first two (section 7).
`SlotsAgree` (between turns a closed question of a claim holds the value of its fact);
`LifecycleRespected` (whatever a turn stores, the status of the mission has moved along
an edge of the published lifecycle);
`NeverAsksTheKnown` (a claim that was open before the turn asks nothing it knows);
`FailedMeansAskedInVain` (a step fails only if it was asked and what it asks for did
not change, was withdrawn or denied in the same message, or was denied once more by a text
that holds the affirmation; its question is then reworded); `GuessNothing` (a clarification changes no fact).

### `semantic`

`PilotIsLocal`: slots and facts are the same with the pilot and without, for good, and
everything is until a greeting meets a topic without a name. `RevisionIsContradiction`:
a fact revised by the conversation is a contradiction of the representation.

### `runtime`

`EnginesAgree` (the two engines make the same of every plan, but for what `Excused` lists: an
interrupted turn that starts from the state of an earlier one keeps the name of that one's
program; a failed lookup has two outcomes; where an objective is put first, the output step
of a migrated flow differs, section 7); `EffectsOnce` (memory and tool,
though every plan is run twice: its two halves are `RememberedOnce` and `LookedUpOnce`);
`SessionIsOfficial`; `OutputIsOwn`.

### `operations`

`MoreIsNeverLess` (one more piece of evidence, one more grant and a case that moves on
never turn an allowed execution into a blocked one, with two exceptions that the property
spells out: nobody but the case told of the documents and they are no longer pending, or
of the diagnosis and a visit is already prepared); `PreparedOnly`; `PutOffStaysBehind`; `LimitsStayVisible`;
`RetriesRecognised` (an operation that declares its tool, attempted again with the record
of the first attempt in the ledger, is a duplicate, whatever that attempt came to);
`EffectsOnlyOfficial`.

### `handoffs`

`RacesBounded` (as many packages of a key as processes, and no more, if the packages of
the key can be read back: `records()` also splits a line at U+2028, which `json.dumps`
leaves alone, and a package with such a text is written at each attempt);
`AnswersStand` (a reply names the package that answers its key for good);
`StoreKeepsAnswers` (refinement: the package file, line by line, implements
`HandoffPackages`: the first package of a key answers it for good, or the file can no
longer be decoded and no key is answered at all); `EveryPackageAudited` (liveness: an
attempt that is not stopped leaves a complete and replayable record for the package of its
key, also where an earlier one was stopped between the two files; and it tells of the
package unless the tool fails).

### `plugins`

`RegistryMirrors`; `RegistryNeverInTheWay` (the registry refuses only to unload a component
that is active although its plugin failed, whether the record still says failed or
`transition` has already marked it unloaded); and `LifecycleFollowed` (refinement: the
manager with its loader implements `PluginStates`). `transition` is called with every
state, the two included that it does not tell the registry of.

### `public`

`SessionsApart`, `ResetForgets` (under threads); `PairWasSaid` (memory across subjects,
under threads); `RejectionHeard` (a turn that no other request of its conversation
overlaps, after any that did); `TurnsCounted` (a demo conversation loses turns only when its
requests overlap); `HandoffTellsAll` (a derivation leaves nothing out that is known).

### `verbalization`

`ReplyOfItsTurn` (a remembered text passes every check against the brief of the turn it
is given to, or the deterministic text is used); `EveryTurnAnswered` (liveness).

### Where documents and code part

Two runs find a counterexample to what a document says; `PROJECT.json` quotes it.
`handoffs_raced`: two processes with one key both look before either writes, and two
packages are written (`OnePackagePerKey`). `claim_repeat`: the signature of the last
reply is stored by one function and compared by another, so the same fallback is given
twice (`FallbackNotRepeated`).

Every property of a passing run is broken by a mutant of the modelled code; the mutants
stand beside the operators they replace.

## 5. Proofs

The theorems hold for every value of the constants (any handlers, messages, number of
turns; any plugins, directories and versions), from the named assumptions on them only.

| Module | Theorem | States |
| --- | --- | --- |
| `ConversationPlans_proofs` | `TypeCorrect` | `Spec => []TypeOK` |
| | `OneOpenTopicAlways` | `Spec => []OneOpenTopic` |
| | `AnsweredUntilForgotten` | `Spec => AnsweredStaysAnswered` |
| | `FreshEvidenceOnly` | `Spec => OnlyFreshEvidence` |
| | `SuspensionAlwaysHonoured` | `Spec => []SuspensionHonoured` |
| | `EvidenceStaysBacked` | `Spec => []EvidenceBacked` |
| | `ReturnAlwaysResumes` | `Spec => []ReturnResumes` |
| | `SlotsAlwaysAgree` | `OneHandler`: `Spec => []SlotsAgree` |
| | `LifecycleAlwaysRespected` | `OneHandler`: `Spec => LifecycleRespected` |
| | `PlannedTurnsAreTurns` | `PlanSpec => Spec` |
| | `NothingEverGuessed` | `PlanSpec => GuessNothing` |
| | `KnownNeverAsked` | `OneHandler`: `PlanSpec => []NeverAsksTheKnown` |
| | `FailedAlwaysInVain` | `OneHandler`: `PlanSpec => FailedMeansAskedInVain` |
| | `PilotAlwaysLocal` | `SemanticSpec => []PilotIsLocal` |
| `MissionDecisions_proofs` | `OrderNeverMatters` | `Spec => []OrderDoesNotMatter` |
| `PluginLifecycle_proofs` | `PluginsTypeCorrect` | `Spec => []TypeOK` |
| | `TablesAgree` | `Spec => []RegistryMirrors` |
| | `RegistryRefusesOnlyFailed` | `Spec => []RegistryNeverInTheWay` |
| | `ManagerImplementsLifecycle` | `Spec => LifecycleFollowed` |
| `OperationalGate_proofs` | `EffectsNeedOfficialMode` | `GateSpec => EffectsOnlyOfficial` |
| | `MoreKeepsAllowed` | `GateSpec => []MoreIsNeverLess` |
| | `SafeRetriesRecognised` | `GateSpec => []RetriesRecognised` |
| | `MappedWorkOnlyPrepares` | `GateSpec => []PreparedOnly` |
| | `LimitsAlwaysVisible` | `GateSpec => []LimitsStayVisible` |
| | `WorkPutOffStaysBehind` | `GateSpec => []PutOffStaysBehind` |
| `HandoffService_proofs` | `FileImplementsPackages` | `Spec => StoreKeepsAnswers` |
| | `RacesAlwaysBounded` | `Spec => []RacesBounded` |
| | `AnswersAlwaysStand` | `Spec => []AnswersStand` |
| `RuntimeTurns_proofs` | `SessionsStayOfficial` | `Spec => []SessionIsOfficial` |
| | `OutputStaysOwn` | `Spec => []OutputIsOwn` |
| | `TurnsRememberedOnce` | `Spec => []RememberedOnce` |
| | `EnginesAlwaysAgree` | `Spec => []EnginesAgree` |
| | `EffectsHappenOnce` | `Spec => []EffectsOnce` |
| `PublicConversations_proofs` | `RuntimesServeOne`, `ServerSessionsApart` | `Spec => []SessionsApart`, `ServerSpec => []SessionsApart` |
| | `ResetsAreFinal`, `ServerResetsAreFinal` | `Spec => []ResetForgets`, `ServerSpec => []ResetForgets` |
| | `TurnsAlwaysCounted` | `ServerSpec => []TurnsCounted` |
| | `SummariesAlwaysTell` | `ServerSpec => []HandoffTellsAll` |
| | `RejectionsAreHeard`, `ServerHearsRejections` | `Spec => RejectionHeard`, `ServerSpec => RejectionHeard` |
| | `PairsWereSaid`, `ServerPairsWereSaid` | `Spec => []PairWasSaid`, `ServerSpec => []PairWasSaid` |
| `Verbalization_proofs` | `RepliesSuitTheirTurns` | `Spec => []ReplyOfItsTurn` |

* `TopicInv` is `TypeOK /\ OneOpenTopic`. Neither is inductive alone: a topic move is
  typed only if the search for the open topic finds one, and that an open topic is left
  needs the types. Typing is not a formality here: an answered slot takes its value from
  a fact, so `TypeOK` needs that a slot follows a fact only when there is one.
* `AnsweredUntilForgotten` follows from types, action by action: `MergedSlots` keeps what
  is closed in the session, and of the functions of `begin_turn` only a withdrawal opens
  a slot, together with its fact.
* `DecisionInv` adds that every proposal ever emitted is `Sound`: it carries its turn in
  its id, its delta agrees with its snapshot outside `changes`, a suspension states the
  status and is sure enough, and only two sources suspend. So two candidates of one turn
  with one id are the same, a candidate of this turn exists when one was emitted,
  and what a decision changes comes from a candidate.
* `SuspensionInv` adds that a turn without a mission has proposed nothing of the kind. The
  winner among the candidates exists by well-foundedness of the naturals.
* `EvidenceInv` carries what is true of a stored session (`StoredBacked`) through the turn
  that is under way in each thread: what the turn carries is as well backed as what it
  read (`CarriedBacked`), its proposals fit the mission they were made for, and once a
  conversation is opened all turns carry a mission of its type. `EvidenceBacked` alone is
  lost in the merge: the mission a turn commits was decided steps ago, from slots and
  facts that another thread may have changed since, so the invariant has to say what
  survives the merge. That a return resumes (`ReturnBegun`, `ReturnDecided`) is said of
  the turn before and after its decision, for the proposal to resume has to win against
  all that the same message proposes.
* `AloneInv`, under `OneHandler` (at most one handler; with two the properties do not
  hold): what the turn under way carries has the slots and facts of the session, which
  only its commit will merge; a mission that was open before the turn is either where the
  session has it or one edge further (`StepsAlone`); and a claim's slots follow its facts
  in both directions (`Agree`), which `SlotsAgree`, about one direction and between
  turns, does not say. That a status moves along edges needs to know what may win: a
  proposal made before the advancement of the same turn carries the status of before, and
  loses to it (`Steers`), or agrees with it.
* `GuessNothing` follows from `EvidenceInv` and from what a message makes of the session:
  a claim turn asks what was meant on a request to clarify or on a correction that names
  nothing or is ambiguous, and these withdraw nothing that the message does not mention.
* `PlanInv`, under `OneHandler`, joins the plan that is laid out on a decision with the
  state the turn will store only when it finishes. The plan of a decided turn holds open
  steps of its own mission, not done on that state, and asks for what is pending or
  unknown there (`LaidOut`); with `Agree` that is `NeverAsksTheKnown`. A message that
  resolved and assimilated nothing left each slot as it was or open again, each fact as it
  was, withdrawn or turned over (`HeardRight`); so a step that fails, being the current
  one of the plan before and not done, has its subject where it was or open. The slot of
  the user's need, which the decision does not merge, is never closed (`NeedInv`). A plan
  has a first step by well-foundedness of the naturals.
* `PilotInv`, for the two conversations of `SemanticTurns`: slots and facts are not enough,
  for what a turn stores of the slots comes from its mission. So the missions too are alike
  but for their status (`Alike`), whatever topics and proposals the two have; that a
  decision cannot undo this needs that all a turn proposes is about the status of the
  mission the turn has come to (`ForStatus`), and that in turn that the need of a claim has
  never been asked for (`NeedUnasked`). While they are not parted the two are equal because
  a turn has one outcome: one act is the surest and most urgent (`OneActSelected`), one
  topic is open, one proposal wins (`OneDecision`); and a greeting that finds no topic
  without a name moves the topics as an answer would (`GreetingLikeAnswer`). It rests on
  `TextsAssumption`: in a text that is nothing but a greeting the recognisers find no cue,
  though perhaps an answer.
* `ProposalInv`, for the mission manager alone: the proposals of this turn were made from
  the mission as it is, since a mission changes only when a turn ends. So two candidates
  are merged into one snapshot, and `SameVerdict` gives one verdict to winners of one kind
  and worth in lists that mirror each other. Of two proposals of different kinds the
  winner is the same one (`PrecedenceIsStrict`); of two sure ones to maintain either may
  win, and what is merged, and whether they conflict, is the same (`SameEvidence`).
* `PluginInv` strengthens the agreement of the two tables for the middle of a load: a
  plugin the loop has registered is new, with no record or an unloaded one
  (`LoadedIsNew`), and a component that never had a record is as the loader left it
  (`UnmanagedIsInert`). From it the published lifecycle
  is implemented step by step: every action is a move of one plugin, a registration of
  several, or a stutter.
* `RegistryInv` (a name is free or has an adapter that may be registered) is all the gate
  needs of the state. `EffectsOnlyOfficial` rests on the assumption that no adapter with
  effects brings a dry run or a replay that runs the tool (`AdaptersAssumption`).
  `MoreIsNeverLess` holds because an execution is allowed exactly when a conjunction of
  conditions holds, each of which grows with what is known and granted, and because no
  operation but the two excepted ones needs evidence that a case takes back.
  `RetriesRecognised` holds because the record of an attempt that is safe to repeat
  carries the tool and the key the repetition is looked up by.
* `WorkIsMapped`: what is looked at is what the mapper made of some message in some
  situation. All the rest is about the operators: no candidate that can be mapped has an
  operation that acts (`PreparedOnly`); blocked work that nobody here can do gets no owner
  on the way from the selection to the case (`LimitsStayVisible`); and the ranking keeps
  work that was put off behind what is pending, whatever is added to the scores
  (`PutOffStaysBehind`).
* `StoreInv`: the file is a sequence of lines, and what a process is about to write is
  one. Whatever is appended, by whom and however torn, adds one complete line or none, and
  a file that cannot be decoded stays so (`AppendDecodes`). The first line of a key exists
  by well-foundedness and stays the first, which is what `HandoffPackages` asks for.
* `RaceInv` counts, for each key that can be read back, the packages that are written
  together with those that a process has decided to write: a process that looks when one
  is there decides otherwise, and one that is stopped only takes away. The processes have
  to be finitely many (`HandoffAssumption`), for the bound is their number.
* `AnswerInv` says of an attempt between its look and its reply what has to hold of the
  reply: what it found is the first package of its key, and a process that is alone and
  found none will have written the first. That the first stays first is `StoreInv`.
* `ShapeInv` (one turn per thread, with its number, through all its stages) is what the
  three theorems about `RuntimeTurns` share. `SessionInv`: where the session holds the
  state that was made for the comparison, a thread is about to put the official one over
  it. `OutputInv`: while one thread runs, the bus holds exactly what its turn has said by
  the stage it is at (`Heard`). `MemoryInv`: numbers of turns are not shared, and a turn
  is in the memory from its memory stage on, once. `SessionInv` needs that nobody raised,
  as the property does: an exception between the two engines leaves the wrong state.
* `EngineInv` follows what a thread has of its turn, stage by stage, to the comparison: the
  plan is one the planner makes (`PlanOK`), and what either engine made of it is written
  out as a function of the plan, the evidence the engine was given and what was remembered
  (`Result`). The legacy engine gets the evidence of the first, so that the two results
  can be laid side by side. The last step compares what the two output steps were given:
  `EnginesCompare` says in which fields two results can differ then, and the sharing of the
  verbalizer's cache (`Repeats`) that the answers are one where the briefs are. Both engines
  fold over the steps of a plan. A fold is a recursion over sets of places; it is shown to
  have a solution, for lists of any length (`RecursionSolved`), that goes along the list
  from its start to its end (`RecursionWalks`), and the plans are then gone through flow by
  flow.
* `LookupInv`: the tool has run for a turn once from the official execution on if its policy
  asked for it, not for any other, and never for the comparison; numbers of turns are not
  shared (`MemoryInv`).
* `PublicInv`, for one runtime per conversation: what a layer has for a conversation is a
  runtime of that conversation; a request that has not come to its turn is in no
  runtime, and no two threads carry one request. A plain "each runtime holds one
  conversation" is not inductive, for the thread brings the runtime it found some steps
  ago.
* `HistoryInv`, for resets: a runtime and a memory are only ever in the layer they were
  made in, layers are numbered up to the cached one, and a request works on the layer
  that was cached when it came. So what was answered before a reset is in an older
  layer than the reset's, which nobody who comes later is given, or in the same and then
  gone from it; and no slot takes an old object again.
* `RejectionInv`, for the memory of a conversation: cancellation is the only service topic a
  memory ever holds, and no claim type and no focus of a bill takes its place (`MemoryOK`);
  what a thread serves is an input of the setting. The first part is what makes a rejection
  final: a topic by another name would survive the clearing, and the next complaint would
  bring the service domain back. It rests on `ClassifiersAssumption`: a text that takes a
  cancellation back is not also one that asks for it (`_mentions_baja`), and no billing
  option and no insurance subject is called so. Under threads it carries two more parts: a
  memory belongs to one conversation (`MemoriesOwned`, by a choice of owners), and from the
  stage that hears a rejection on, the memory of a turn that nobody overlaps holds no
  cancellation, nor does what was decided on it (`Heeds`). That another thread's step leaves
  that memory alone follows from both: a request of the same
  conversation that is still at work overlaps, so that one is for another conversation and
  has another memory (`OthersElsewhere`).
* `PairInv` joins `RejectionInv`, which gives each memory its shape, to the property: the
  amounts of a text join the list before one of them is taken for the pair, the expected
  amount is filled before the received one, and all that else happens to a memory leaves
  the three fields alone (`SamePair`). The list is a fold over the amounts of the text, of
  any number; that it keeps what was there and takes all that was said (`RememberedHolds`)
  is an induction along the text, done by the first place where it would fail (`UpTo`), for
  well-foundedness gives that without an induction rule. `ClassifiersAssumption` says that
  amounts are texts, none of them the absent one.
* `AnswerInv`, for verbalization: every entry of every cache passes the checks of each
  brief whose fingerprint it is stored under, for the fingerprint tells apart whatever
  the checks look at.
* `DemoInv`, for the demo endpoint: the state of a conversation counts every turn that has
  been composed, answered or not, and that no other request of the conversation overlapped
  (`Counted`); what a thread has read holds those answered before its request came
  (`CountedBefore`); and a summary it has composed tells their facts. `TurnsCounted` alone
  is not inductive twice over: a turn is in the state some steps before it is answered,
  and a thread stores what it computed from an older read. It is safe because a turn that
  is alone was answered before any other request of its conversation could read
  (`CountedCameBefore`), and because later requests only make turns cease to be alone
  (`AloneBefore`).

The product layer and the demo flow share nothing: every step of the server is a step of
one and a stutter of the other (`ServerRunsLayer`), so what was proved of the layer by
itself holds of the server that the run `public` checks.

Checked by TLC only, and why:

* `EveryPackageAudited`, `EveryTurnAnswered`: liveness and `ENABLED` are out of the prover's
  reach.
* `RevisionIsContradiction`: that the two readings of a text agree on what it takes back
  is a fact about the recognisers and the extractors, which `Texts` gives as values. No
  assumption on `Texts` short of the property would be enough to prove it.
* `OnePackagePerKey` and `FallbackNotRepeated`, which the code does not keep.

## 6. Agreement with the code

* 25 random conversations of six of the texts of `MCConversationTurns` were run through
  the runtime and compared, after each turn, with `ConversationTurns`: no difference.
* `DemoWorkflow` was compared with the demo endpoint on 1,089 pairs of messages, 500
  conversations of four messages and 400 of six: no difference.

## 7. Met while modelling

What the code does and a reader may not expect. The modules model it as it is.

*Conversation.* A repeated question about the report or the papers is not reworded by the
plan (`conversation_state.py:2500`). After a turn with a lateral step an unanswered
question is not marked failed. `plan["previous_plan"]` nests all earlier plans (1819). In a
general mission an ambiguous "me equivoque" leaves `clarify_fact_revision` for good. "no
entiendo" while injuries are asked closes injuries as "no"; "no, me equivoque" closes them
and asks which fact to correct. A greeting may answer "no" too: terms are looked for anywhere
in the text (`conversation_state.py:6727`), and "buenas noches" contains "no". A resumed topic
can leave its mission suspended, when the suspension of an unmatched answer outranks the
resume; two interleaved turns put an older mission status back. Two interleaved turns can
also undo the revision of a fact and leave its question closed on the revised value: the
merge of `conversation_manager.py:452` takes the turn's facts but keeps the session's
closed slot.

A claim asks what it knows in the turn that opens it ("me chocaron el auto y hubo lesionados" is
answered by "Hubo lesionados?": the plan is laid out on slots that the opening turn has not
merged), and so does a mission of another type whose own slots are out of date;
`docs/ARCHITECTURE.md:571` says that assimilation lets it stop asking for what was supplied.
A question that a message answers and denies at once counts as failed. The recognisers of
the papers look for each value on its own: "no tengo la documentacion" holds both
(`conversation_state.py:6058` and 6070), the papers are affirmed and then denied, and said
again it fails the step although it was answered. "no tengo todos los documentos" holds only
the affirmation and counts as having them.

*Public layer.* Requests of one conversation share its memory without a lock
(`public_conversation_product_layer.py:532`). "nunca dije baja" clears the topic (699), another
thread's "baja" sets it again (732), and the turn that rejected it decides on that (539) and
asks for its scope (635).

*Pilot.* Promotion of "hola" changes the topic stack and through it a later mission
(`conversation_state.py:3535`). The projection compares a pending question's id with a
slot's name, so that an answered slot is also listed as pending
(`semantic_projection.py:405`). The risk gates are vacuous for the only act that may be
promoted.

*Runtime.* A lookup whose tool reports an error (a key it does not know) is an "error" for
the official engine; the legacy one is given the error as evidence and reports a reused
"success" (`tool_engine.py:167`, `step_handlers.py:171`). The comparison of such a turn is
not equivalent, where `tests/test_runtime_executor_shadow.py:75` expects that for its messages.
The output step is handed what was understood of the text by the official executor only
(`runtime.py:376`, not `legacy_runtime_executor.py:344`). With an objective put first
(`ACA_CONVERSATIONAL_FIRST_ENABLED`) the limits that the text sets ("lo necesito hoy") are in the
objective of one engine and not of the other, and the two ask a provider with different
briefs, whose answers need not be the same.

*Work and gate.* A case with a pending handoff may be
`case_closed_or_no_action_required` (`operational_work_mapper.py:1421`); a denied
report makes a case loaded (1329); `impossible_work_suggested` is never true (1777);
pending or blocked documents count as evidence, available ones do not
(`operational_governance_gate.py:442`); `MoreIsNeverLess` excepts them by name.

*Plugins.* `transition(name, "unloaded")` marks the record and leaves the component
(`plugin_lifecycle.py:252`): the loader skips the plugin as registered from then on, until
`unload` is called on top of it, and if the plugin failed while active that call is
refused for good.

*Handoff and ledger.* A second `prepare_handoff` is never detected as a production
duplicate (`operational_audit_ledger.py:434`): the profile names no tool; the package
file still answers it. Replay looks for the payload's key only
(`operational_tools.py:131`). `records()` splits lines at U+2028
(`operational_tools.py:35`). Texts are written as they are (`ensure_ascii=False`, 28) and the
file is decoded outside of what passes a broken line over (35, and
`operational_audit_ledger.py:36`): a stop inside a character of several bytes makes the whole
file unreadable, and each later attempt raises. A package appended behind a torn line is lost though
reported as created (27), and so is a ledger record
(`operational_audit_ledger.py:29`). A retry that fails after a stop leaves a record
`tool_timeout` for a package that exists; for that reason the last conjunct of
`EveryPackageAudited` is about keys whose requests do not fail.

*Demo.* "me cobraron 5000 por el ticket 12345" answers about 12345 and stores 5000.
"bueno" counts as frustration (`public_conversation_state.py:217`). With a ticket at hand
every long message is a query of its status. A claim of another kind gets the text of a
collision if the earlier claim was one. `AdaptiveReplyPolicy` is imported by nobody.

## 8. Not modelled

* Domain packs, HTTP and CLI front ends: reading and transport; their threads are the
  handlers and workers of the models.
* Response composition: wording.
* Evaluation, benchmarks, adversarial suites, dependency graph of authorities, studio,
  deployment: offline harnesses that run the system and report; they keep no
  state that the system reads.
* Of modelled components: traces, decision graphs and shadow metrics, the confidence
  and coherence notes of the work mapper, the memory file (it is rewritten whole; no
  document says what is left after a stop), and how a single term is matched in a text.
* The text policy of `policy_manager.py` is unreachable while every turn has a plan.
