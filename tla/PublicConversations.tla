------------------------ MODULE PublicConversations ------------------------
(* The public surface under the threads of its HTTP server.  A request finds *)
(* or builds the product layer in a process-wide cache, takes the memory of  *)
(* its conversation, answers an action at once or finds or builds the        *)
(* conversation's runtime, runs the turn on it, and then lets the legacy     *)
(* pipeline run beside it for comparison.  No step holds a lock.  The inside *)
(* of a runtime's turn is the subject of RuntimeTurns; here it is a step.    *)
(* Source: aca_os/public_conversation_product_layer.py.                      *)
EXTENDS PublicMemory, Integers, TLC

CONSTANTS
    Workers,        \* the server's threads
    Conversations,  \* conversation ids
    Settings        \* the circumstances a behaviour may have, see setting

(* A setting says which threads serve, which conversations are spoken to,    *)
(* what a client may send ([msg, action]), which programs a runtime's turn   *)
(* may select and, as a bound, how many requests arrive.                     *)
ASSUME PublicAssumption ==
    /\ RegistryLoads
    /\ \A s \in Settings : /\ s.workers \subseteq Workers /\ s.conversations \subseteq Conversations
                           /\ s.requests \in Nat

(* What the classifiers find: a text that takes a cancellation back does not *)
(* ask for one, no billing option and no insurance subject is one, and an    *)
(* amount is a piece of the text.                                            *)
ASSUME ClassifiersAssumption ==
    \A s \in Settings : \A input \in s.inputs :
        /\ ~(Is(input.msg, "rejects") /\ Is(input.msg, "baja"))
        /\ "baja" \notin {input.msg.option, input.msg.subject}
        /\ input.msg.amounts \in Seq(STRING) /\ None \notin ToSet(input.msg.amounts)

VARIABLES
    setting,    \* the setting of this behaviour
    cache,      \* _LAYER_CACHE: the number of the cached layer, 0 when empty
    layers,     \* the layers ever built: conversation -> memory, runtime (0: none), plugin versions
    memories,   \* the ConversationProductMemory objects ever created
    runtimes,   \* the runtimes ever built: the requests each has answered, in order
    workers,    \* what each thread is doing
    received,   \* how many requests have arrived
    answers     \* what each request was answered, and when it was accepted

vars == <<setting, cache, layers, memories, runtimes, workers, received, answers>>

ObservabilityActions == {"show_process", "show_diagnostic"}
Idle == [pc |-> "idle"]
NewLayer == [memory  |-> [c \in Conversations |-> 0],
             session |-> [c \in Conversations |-> 0],
             version |-> [c \in Conversations |-> [cap \in {} |-> 0]]]

Init ==
    /\ setting \in Settings
    /\ cache = 0 /\ layers = << >> /\ memories = << >> /\ runtimes = << >>
    /\ workers = [w \in Workers |-> Idle]
    /\ received = 0 /\ answers = << >>

(* A record, or a table, with what a step sets in it.                        *)
Extend(r, more) ==
    [x \in DOMAIN r \union DOMAIN more |-> IF x \in DOMAIN more THEN more[x] ELSE r[x]]

(* The requests that already have an answer.                                 *)
Answered == {i \in DOMAIN answers : answers[i].kind # "pending"}

(* run_public_conversation_product_layer: a request reaches a thread.        *)
Receive(w) ==
    /\ workers[w].pc = "idle" /\ w \in setting.workers /\ received < setting.requests
    /\ received' = received + 1
    /\ \E c \in setting.conversations, input \in setting.inputs :
          /\ workers' = [workers EXCEPT ![w] =
                [pc |-> "layer", request |-> received + 1, conv |-> c, input |-> input]]
          /\ answers' = Append(answers, 
                    [conv |-> c, kind |-> "pending", action |-> input.action, after |-> Answered])
    /\ UNCHANGED <<setting, cache, layers, memories, runtimes>>

(* get_public_conversation_product_layer: the test, the construction and the *)
(* read that returns the layer are three steps.                              *)
LookupLayer(w) ==
    /\ workers[w].pc = "layer"
    /\ workers' = [workers EXCEPT ![w] =
          IF cache = 0 THEN [@ EXCEPT !.pc = "build"]
          ELSE Extend(@, [pc    |-> IF workers[w].input.action = "reset_conversation"
                                   THEN "forget" ELSE "start",
                          layer |-> cache])]
    /\ UNCHANGED <<setting, cache, layers, memories, runtimes, received, answers>>

BuildLayer(w) ==
    /\ workers[w].pc = "build"
    /\ layers' = Append(layers, NewLayer)
    /\ cache' = Len(layers) + 1
    /\ workers' = [workers EXCEPT ![w].pc = "layer"]
    /\ UNCHANGED <<setting, memories, runtimes, received, answers>>

LayerOf(w) == layers[workers[w].layer]
Conv(w) == workers[w].conv

Answer(w, answer) ==
    /\ answers' = [answers EXCEPT ![workers[w].request] = Extend(@, answer)]
    /\ workers' = [workers EXCEPT ![w] = Idle]

(* run: the memory is taken or created; a disabled action answers at once.   *)
Start(w) ==
    LET fresh == LayerOf(w).memory[Conv(w)] = 0
        mid == IF fresh THEN Len(memories) + 1 ELSE LayerOf(w).memory[Conv(w)]
        mem == IF fresh THEN NewMemory ELSE memories[mid]
        act == FindAction(workers[w].input.action, mem.plugin)
    IN /\ workers[w].pc = "start"
       /\ memories' = IF fresh THEN Append(memories, NewMemory) ELSE memories
       /\ layers' = [layers EXCEPT ![workers[w].layer].memory[Conv(w)] = mid]
       /\ IF act.enabled
          THEN /\ workers' = [workers EXCEPT ![w] = Extend(@, [pc |-> "session", mid |-> mid, action |-> act])]
               /\ UNCHANGED answers
          ELSE Answer(w, [kind |-> "disabled", plugin |-> mem.plugin, capability |-> act.capability])
       /\ UNCHANGED <<setting, cache, runtimes, received>>

(* _runtime_for: the test, the construction and the read of the result.      *)
CheckSession(w) ==
    /\ workers[w].pc = "session"
    /\ workers' = [workers EXCEPT ![w].pc = IF LayerOf(w).session[Conv(w)] = 0 THEN "create" ELSE "fetch"]
    /\ UNCHANGED <<setting, cache, layers, memories, runtimes, received, answers>>

\* Mutant: the new runtime is stored for every conversation.
CreateSharedSession(w) ==
    /\ workers[w].pc = "create"
    /\ runtimes' = Append(runtimes, [conv |-> Conv(w), turns |-> << >>])
    /\ layers' = [layers EXCEPT ![workers[w].layer].session = [c \in Conversations |-> Len(runtimes) + 1]]
    /\ workers' = [workers EXCEPT ![w].pc = "fetch"]
    /\ UNCHANGED <<setting, cache, memories, received, answers>>

CreateSession(w) ==
    /\ workers[w].pc = "create"
    /\ runtimes' = Append(runtimes, [conv |-> Conv(w), turns |-> << >>])
    /\ layers' = [layers EXCEPT ![workers[w].layer].session[Conv(w)] = Len(runtimes) + 1]
    /\ workers' = [workers EXCEPT ![w].pc = "fetch"]
    /\ UNCHANGED <<setting, cache, memories, received, answers>>

(* The read raises KeyError when the session has gone since the test.        *)
FetchSession(w) ==
    LET r == LayerOf(w).session[Conv(w)]
    IN /\ workers[w].pc = "fetch"
       /\ IF r = 0 THEN Answer(w, [kind |-> "key_error"])
          ELSE IF workers[w].action.id \in ObservabilityActions
          THEN Answer(w, [kind |-> "observed", runtime |-> r])
          ELSE /\ workers' = [workers EXCEPT ![w] = Extend(@, [pc |-> "turn", runtime |-> r])]
               /\ UNCHANGED answers
       /\ UNCHANGED <<setting, cache, layers, memories, runtimes, received>>

(* runtime.process: the turn is added to the runtime's conversation.         *)
RunTurn(w) ==
    /\ workers[w].pc = "turn"
    /\ runtimes' = [runtimes EXCEPT ![workers[w].runtime].turns = Append(@, workers[w].request)]
    /\ \E outcome \in setting.outcomes :
          workers' = [workers EXCEPT ![w] = Extend(@, [pc |-> "shadow", outcome |-> outcome])]
    /\ UNCHANGED <<setting, cache, layers, memories, received, answers>>

VersionOf(layer, c, cap) == IF cap \in DOMAIN layer.version[c] THEN layer.version[c][cap] ELSE 1

(* _run_legacy_shadow up to PluginRuntime.process, which reads the plugin's  *)
(* state of the conversation.                                                *)
RouteShadow(w) ==
    LET msg == workers[w].input.msg
        mem == memories[workers[w].mid]
        requested == Or(workers[w].action.capability, RequestedCapability(msg, mem))
        route == RouteRequest(requested, msg.text)
    IN /\ workers[w].pc = "shadow"
       /\ workers' = [workers EXCEPT ![w] =
             Extend(@, [pc |-> "state", requested |-> requested, route |-> route,
                        version |-> VersionOf(LayerOf(w), Conv(w), route.capability)])]
       /\ UNCHANGED <<setting, cache, layers, memories, runtimes, received, answers>>

(* _active_public_route: the action, the program the runtime selected, and   *)
(* only then the capability of the shadow.                                   *)
PluginForCapability(c) ==
    IF c \in {"insurance.claims", "insurance.glass", "insurance.accident", "insurance.handoff.prepare"}
    THEN Insurance ELSE Generic
ActiveRoute(outcome, action, shadow) ==
    IF action.capability # None THEN action.capability
    ELSE IF outcome = "human_handoff" THEN "insurance.handoff.prepare"
    ELSE IF outcome = "glass_terms" THEN "insurance.glass"
    ELSE IF outcome \in {"auto_claim_guidance", "knowledge_lookup"} THEN "insurance.claims"
    ELSE Or(shadow, Generic)

(* PluginRuntime.process stores the plugin's state; then the plugin and the  *)
(* capability of the turn are found, before the memory is touched.           *)
StoreState(w) ==
    LET me == workers[w]
        mem == memories[me.mid]
    IN /\ me.pc = "state"
       /\ layers' = [layers EXCEPT ![me.layer].version[me.conv] =
                       Extend(@, [cap \in {me.route.capability} |-> me.version + 1])]
       /\ workers' = [workers EXCEPT ![w] =
             Extend(@, [pc |-> "hear",
                        plugin |-> Or(me.route.plugin, Or(me.action.plugin, mem.plugin)),
                        capability |-> Or(me.route.capability, Or(me.requested, mem.capability))])]
       /\ UNCHANGED <<setting, cache, memories, runtimes, received, answers>>

After == [hear |-> "locate", locate |-> "detail", detail |-> "decide"]

(* _update_memory: one stage on the shared memory.                           *)
UpdateMemory(w) ==
    LET me == workers[w]
    IN /\ me.pc \in DOMAIN After
       /\ memories' = [memories EXCEPT ![me.mid] = Updated(me.pc, me.input.msg, @, me)]
       /\ workers' = [workers EXCEPT ![w] = Extend(@, [pc |-> After[me.pc]])]
       /\ UNCHANGED <<setting, cache, layers, runtimes, received, answers>>

(* _decide_cognitive_turn.                                                   *)
Decide(w) ==
    LET me == workers[w]
    IN /\ me.pc = "decide"
       /\ workers' = [workers EXCEPT ![w] =
             Extend(@, [pc |-> "apply", turn |-> Decided(me.input.msg, memories[me.mid])])]
       /\ UNCHANGED <<setting, cache, layers, memories, runtimes, received, answers>>

Apply(w) ==
    LET me == workers[w]
    IN /\ me.pc = "apply"
       /\ memories' = [memories EXCEPT ![me.mid] = Applied(@, me.turn)]
       /\ workers' = [workers EXCEPT ![w] = Extend(@, [pc |-> "finish"])]
       /\ UNCHANGED <<setting, cache, layers, runtimes, received, answers>>

(* The reply is written from the memory, remembered in it, and sent.         *)
Finish(w) ==
    LET me == workers[w]
        active == ActiveRoute(me.outcome, me.action, me.capability)
    IN /\ me.pc = "finish"
       /\ memories' = [memories EXCEPT ![me.mid] = Replied(me.input.msg, @, me)]
       /\ Answer(w, [kind |-> "answered", runtime |-> me.runtime, mid |-> me.mid, layer |-> me.layer,
                     capability |-> active, plugin |-> PluginForCapability(active), version |-> me.version,
                     domain |-> memories[me.mid].domain,
                     unshadowed |-> ActiveRoute(me.outcome, me.action, None)])
       /\ UNCHANGED <<setting, cache, layers, runtimes, received>>

(* reset: the memory goes, then the runtime.                                 *)
ForgetMemory(w) ==
    /\ workers[w].pc = "forget"
    /\ layers' = [layers EXCEPT ![workers[w].layer].memory[Conv(w)] = 0]
    /\ workers' = [workers EXCEPT ![w].pc = "forget_session"]
    /\ UNCHANGED <<setting, cache, memories, runtimes, received, answers>>

\* Mutant: the runtime stays.
ForgetNothing(w) ==
    /\ workers[w].pc = "forget_session"
    /\ Answer(w, [kind |-> "reset"])
    /\ UNCHANGED <<setting, cache, layers, memories, runtimes, received>>

ForgetSession(w) ==
    /\ workers[w].pc = "forget_session"
    /\ layers' = [layers EXCEPT ![workers[w].layer].session[Conv(w)] = 0]
    /\ Answer(w, [kind |-> "reset"])
    /\ UNCHANGED <<setting, cache, memories, runtimes, received>>

Serve(w) ==
    \/ LookupLayer(w) \/ BuildLayer(w) \/ Start(w)
    \/ CheckSession(w) \/ CreateSession(w) \/ FetchSession(w)
    \/ RunTurn(w) \/ RouteShadow(w) \/ StoreState(w)
    \/ UpdateMemory(w) \/ Decide(w) \/ Apply(w) \/ Finish(w)
    \/ ForgetMemory(w) \/ ForgetSession(w)

Quiet == received = setting.requests /\ \A w \in Workers : workers[w].pc = "idle"
Rest == Quiet /\ UNCHANGED vars

Next == (\E w \in Workers : Receive(w) \/ Serve(w)) \/ Rest

Spec == Init /\ [][Next]_vars

-----------------------------------------------------------------------------
Before(i, j) == i \in answers[j].after
(* A runtime only ever runs the turns of one conversation, and a turn runs   *)
(* once, however the first requests of the conversations interleave.         *)
SessionsApart ==
    \A r \in DOMAIN runtimes :
       LET turns == runtimes[r].turns
       IN \A i, j \in DOMAIN turns :
             /\ answers[turns[i]].conv = runtimes[r].conv
             /\ turns[i] = turns[j] => i = j

(* What was answered before a reset is in no runtime and no memory that      *)
(* serves a request accepted after it.                                       *)
ResetForgets ==
    \A i, k, j \in DOMAIN answers :
       (/\ answers[k].kind = "reset" /\ answers[k].conv = answers[j].conv
        /\ answers[j].kind = "answered" /\ answers[i].kind = "answered"
        /\ answers[i].conv = answers[j].conv
        /\ Before(i, k) /\ Before(k, j))
       => answers[i].runtime # answers[j].runtime /\ answers[i].mid # answers[j].mid

(* A quoted pair of amounts was said by the user: both are in the list of    *)
(* amounts heard, and a second amount is never known without a first.        *)
PairWasSaid ==
    \A m \in DOMAIN memories :
       LET mem == memories[m]
       IN /\ {mem.expected, mem.received} \subseteq ToSet(mem.amounts) \cup {None}
          /\ mem.received # None => mem.expected # None

(* No other request of its conversation overlapped request i.                *)
Undisturbed(i) ==
    \A j \in DOMAIN answers \ {i} : answers[j].conv = answers[i].conv => Before(j, i)

(* After "I never said cancellation" a turn that no other request of the     *)
(* conversation overlapped neither keeps nor reopens the topic, whatever the *)
(* memory held, wherever the message was routed and whatever was left        *)
(* half-way by earlier requests.                                             *)
RejectionHeard ==
    [][\A w \in Workers :
          (/\ workers[w].pc = "finish" /\ workers'[w].pc = "idle"
           /\ Is(workers[w].input.msg, "rejects") /\ Undisturbed(workers[w].request)) =>
             LET mem == memories'[workers[w].mid]
             IN /\ mem.topic # "baja" /\ mem.domain # "service_request"
                /\ mem.next_action # "ask_service_request_scope"]_vars

=============================================================================
