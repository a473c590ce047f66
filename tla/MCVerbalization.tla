---------------------------- MODULE MCVerbalization ----------------------------
(* Turns, texts and providers for the model checker.                            *)
EXTENDS Verbalization

CONSTANTS w1, w2

Text(name, terms, questions) ==
  [name |-> name, terms |-> terms, done |-> FALSE, leaks |-> FALSE, questions |-> questions, keeps |-> TRUE]

Amount == [check |-> "numeric_grounding", term |-> "15000"]
Ticket == [check |-> "operational_grounding", term |-> "ticket"]

Plain == [semantic |-> <<NoGoal, NoGoal, NoGoal>>, intention |-> "respond_to_statement", need |-> "satisfy_user_need",
          confidence |-> 60, required |-> <<>>, slots |-> [x \in {} |-> None], action |-> "guided", flow |-> "guided",
          operation |-> None, looksUp |-> FALSE, completion |-> FALSE, critical |-> FALSE, risk |-> "normal",
          concern |-> 0, limits |-> {}, policy |-> "ALLOW", confirm |-> FALSE, approve |-> FALSE, malformed |-> FALSE]

Greeting == [Plain EXCEPT !.semantic = <<NoGoal, NoGoal, [type |-> "satisfy_intent", target |-> "greet", confidence |-> 90]>>]
Asking == [Plain EXCEPT !.required = <<"injuries", "injuries", "user_need">>,
                        !.slots = [x \in {"injuries", "documents"} |-> IF x = "injuries" THEN "pending" ELSE "answered"]]
Goalful == [Asking EXCEPT !.semantic = <<NoGoal, [type |-> "achieve_user_outcome", target |-> "free text", confidence |-> 84], NoGoal>>,
                          !.required = <<"user_need", "documents">>]
Human == [Plain EXCEPT !.flow = "human_handoff", !.policy = "ESCALATE", !.critical = TRUE]
Broken == [Plain EXCEPT !.malformed = TRUE]

Turn(s, first, legacy, message) ==
  [situation |-> s, first |-> first, legacy |-> legacy, selected |-> legacy.questions > 0, message |-> message,
   facts |-> {}, executed |-> FALSE]

LegacyQuestion == Text("legacy question", {}, 1)
LegacyAnswer == Text("legacy answer", {}, 0)

Said(text) == [error |-> None, text |-> text]
Failed(reason) == [error |-> reason, text |-> Text("empty", {}, 0)]

Invention == [Text("done", {}, 0) EXCEPT !.done = TRUE]
Digression == [Text("digression", {}, 1) EXCEPT !.keeps = FALSE]
Leak == [Text("leak", {}, 1) EXCEPT !.leaks = TRUE]

Answers == {Said(Text("plain", {}, 0)), Said(Text("asks", {}, 1)), Said(Text("amount", {Amount}, 0)), Said(Digression),
            Failed("provider_timeout")}
Wild == Answers \union {Said(Text("ticket", {Ticket}, 1)), Said(Text("interrogates", {}, 2)), Said(Text("empty", {}, 0)),
                        Said(Text("endless", {}, 1)), Said(Invention), Said(Leak), Failed("ollama_model_not_found")}

Setting(threads, warmup, turns, unavailable, answers, limit, requests, mode) ==
  [workers |-> threads, warmup |-> warmup, turns |-> turns, unavailable |-> unavailable, answers |-> answers,
   limit |-> limit, requests |-> requests, mode |-> mode]

\* Turns of every kind against everything a provider may say; two turns that differ
\* in the message only; a small cache under many turns; two threads on one cache;
\* two threads that build their verbalizers; a provider that is not configured.
MCSettings ==
  {Setting({w1}, FALSE, {Turn(s, TRUE, LegacyQuestion, {}) : s \in {Greeting, Asking, Goalful, Human, Broken}},
           None, Wild, 2, 2, "strict"),
   Setting({w1}, FALSE, {Turn(Plain, first, LegacyAnswer, m) : first \in BOOLEAN, m \in {{}, {Amount}}},
           None, Answers, 2, 3, "standard"),
   Setting({w1}, FALSE, {Turn(s, TRUE, LegacyAnswer, {}) : s \in {Greeting, Asking, Human}},
           None, {Said(Text("asks", {}, 1)), Failed("provider_timeout")}, 2, 5, "strict"),
   Setting({w1, w2}, FALSE, {Turn(Plain, FALSE, LegacyAnswer, m) : m \in {{}, {Amount}}},
           None, Answers, 1, 4, "strict"),
   Setting({w1, w2}, TRUE, {Turn(Asking, TRUE, LegacyAnswer, {})}, None, Answers, 1, 3, "strict"),
   Setting({w1}, FALSE, {Turn(Broken, TRUE, LegacyAnswer, {})}, "missing_api_key", Answers, 1, 2, "strict")}
=============================================================================
