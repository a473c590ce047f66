----------------------- MODULE MCPublicConversations -----------------------
(* Instances of DemoFlow, the server's two conversational endpoints: the two  *)
(* plugins of the repository and, for each endpoint, a catalogue of messages *)
(* with what its classifiers find in each.                                   *)
EXTENDS DemoFlow

CONSTANTS w1, w2, c1, c2

Act(id, capability, enabled) ==
    [id |-> id, capability |-> capability, enabled |-> enabled, reason |-> IF enabled THEN None ELSE "no tool"]

InsuranceManifest ==
    [id |-> Insurance, semantic |-> TRUE,
     handles |-> <<"insurance.claims", "insurance.glass", "insurance.accident", "insurance.handoff.prepare">>,
     blocked |-> {"insurance.claim_status.lookup", "insurance.document.upload", "insurance.representative.transfer"},
     actions |-> <<Act("show_process", "insurance.claims", TRUE), Act("show_diagnostic", "insurance.claims", TRUE),
                   Act("prepare_handoff", "insurance.handoff.prepare", TRUE),
                   Act("real_claim_status_lookup", "insurance.claim_status.lookup", FALSE)>>]
ChatManifest ==
    [id |-> Generic, semantic |-> TRUE, handles |-> <<Generic>>, blocked |-> {},
     actions |-> <<Act("show_process", Generic, TRUE), Act("show_diagnostic", Generic, TRUE),
                   Act("reset_conversation", Generic, TRUE)>>]
TheManifests == <<InsuranceManifest, ChatManifest>>

RankOrder == <<Insurance, Generic, "insurance.accident", "insurance.claims", "insurance.glass",
               "insurance.handoff.prepare">>
TheRanks == [n \in ToSet(RankOrder) |-> CHOOSE i \in DOMAIN RankOrder : RankOrder[i] = n]

Said(capability, confidence) == [capability |-> capability, confidence |-> confidence]
(* A text whose words meet n tokens of the insurance plugin's names and      *)
(* what that plugin's analyser says.  Its names hold no word of a capability *)
(* and the chat plugin's analyser is not asked.                              *)
Text(n, said) ==
    [empty |-> FALSE,
     tokens |-> (Insurance :> n @@ Generic :> 0),
     hits |-> [c \in {"insurance.claims", "insurance.glass", "insurance.accident",
                      "insurance.handoff.prepare", Generic} |-> 0],
     analysis |-> (Insurance :> said @@ Generic :> Said(Generic, 50))]
Plain == Text(0, Said(None, 0))

Message(insurance, subject, marks, option, amounts, text) ==
    [insurance |-> insurance, subject |-> subject, marks |-> marks, option |-> option,
     amounts |-> amounts, text |-> text]
Marks(marks) == Message(None, None, marks, None, << >>, Plain)

Glass    == Message("insurance.glass", "cristales", {"windscreen"}, None, << >>, Text(0, Said("insurance.glass", 86)))
Accident == Message("insurance.accident", "siniestro", {"accident", "glass"}, None, << >>, Text(0, Said("insurance.glass", 86)))
Bill     == Message(None, None, {"billing", "factura", "arrived"}, None, << >>, Text(1, Said(None, 0)))
BillGlass == Message("insurance.glass", "cristales", {"billing", "factura", "glass"}, None, <<"20", "30">>, Text(1, Said(None, 0)))
Told     == Message(None, None, {"told"}, None, <<"40", "50">>, Plain)
Paid     == Message(None, None, {}, None, <<"60">>, Plain)
Cancel   == Message(None, None, {"baja"}, None, << >>, Text(1, Said(None, 0)))
NoCancel == Marks({"rejects"})
Again    == Marks({"repetition", "continues"})
Helpless == Marks({"frustration"})
Human    == Marks({"human", "person"})
Amount   == Message(None, None, {"billing", "amount"}, "importe", << >>, Plain)
Proof    == Marks({"evidence"})
Yes      == Marks({"affirms"})
Hello    == Marks({"ping"})
Empty    == Message(None, None, {}, None, << >>, [Plain EXCEPT !.empty = TRUE])

Says(messages) == {[msg |-> m, action |-> None] : m \in messages}
Presses(actions) == {[msg |-> Empty, action |-> a] : a \in actions}

Talk == Says({Glass, Accident, Bill, BillGlass, Told, Paid, Cancel, NoCancel, Again, Helpless, Human,
              Amount, Proof}) \cup Presses({"prepare_handoff"})
Few == Says({Bill, Glass}) \cup Presses({"reset_conversation", "show_process", "real_claim_status_lookup"})
Race == Says({Bill}) \cup Presses({"reset_conversation", "show_process"})
Programs == {"human_handoff", "glass_terms", "knowledge_lookup", "other"}
OneProgram == {"other"}

-----------------------------------------------------------------------------
(* Messages of the demo endpoint: marks of the words, kind of claim, number  *)
(* given as a ticket's and first number of three digits or more.             *)
Words(marks, claim, ticket, number) ==
    [marks |-> marks, claim |-> claim, ticket |-> ticket, number |-> number]

Useless      == Words({"asks_help", "short", "tired", "upset"}, None, None, None)     \* no ayuda
WhoAreYou    == Words({"asks_who", "short"}, None, None, None)                        \* sos un bot?
Person       == Words({"person"}, None, None, None)             \* quiero hablar con una persona
BillOfTicket == Words({}, None, "12345", "5000")                \* me cobraron 5000 por el ticket 12345
Crash        == Words({"short"}, "choque", None, None)                                \* tuve un choque
Windscreen   == Words({"papers"}, "cristales", None, None)      \* se rompio el parabrisas, que papeles ...
Filed        == Words({"loaded", "reported", "where"}, None, None, None)  \* cargue la denuncia desde la app
Deadline     == Words({"deadline", "short", "status"}, None, None, None)              \* plazos
Sent         == Words({"done", "loaded", "short"}, None, None, None)                  \* ya la envie
Show         == Words({"example", "short", "tired"}, None, None, None)                \* mostrame un ejemplo
Fine         == Words({"brief", "short", "tired"}, None, None, None)                  \* bueno
Deductible   == Words({}, "franquicia", None, None)                                   \* que es la franquicia
Vague        == Words({}, None, None, None)                     \* mira el pago del mes que viene
Greeting     == Words({"greets", "short"}, None, None, None)                          \* hola

Chat == {Useless, WhoAreYou, Person, BillOfTicket, Crash, Windscreen, Filed, Deadline, Sent, Show, Fine,
         Deductible, Vague, Greeting}
Asks(messages) == {[msg |-> m, pack |-> None] : m \in messages}
Misled == {[msg |-> Crash, pack |-> "unknown"]}

DemoSetting(threads, asks, requests, faults) ==
    [workers |-> threads, asks |-> asks, requests |-> requests, faults |-> faults]
NoDemo == DemoSetting({}, {}, 0, FALSE)

Setting(threads, convs, inputs, outcomes, requests) ==
    [workers |-> threads, conversations |-> convs, inputs |-> inputs,
     outcomes |-> outcomes, requests |-> requests, demo |-> NoDemo]
OnlyDemo(convs, asks) == [Setting({}, convs, {}, {}, 0) EXCEPT !.demo = asks]

(* The product layer: one long conversation; two conversations that start    *)
(* over and change program; two threads that answer, and reset, at the same  *)
(* time; two that cancel and reject over one memory.  The demo               *)
(* endpoint: one conversation of four messages; two threads in one           *)
(* conversation, with packs that are not there and failing runtimes.         *)
TheSettings ==
    {Setting({w1}, {c1}, Talk, OneProgram, 4),
     Setting({w1}, {c1, c2}, Few, Programs, 3),
     Setting({w1, w2}, {c1, c2}, Race, OneProgram, 3),
     Setting({w1, w2}, {c1}, Says({BillGlass, Cancel, NoCancel}), OneProgram, 3),
     OnlyDemo({c1}, DemoSetting({w1}, Asks(Chat), 4, FALSE)),
     OnlyDemo({c1, c2}, DemoSetting({w1, w2}, Asks({Crash, Filed, Person}) \cup Misled, 3, TRUE))}

(* A user the workflow does not understand, twice.                           *)
RepeatSettings == {OnlyDemo({c1}, DemoSetting({w1}, Asks({Vague, Crash, Greeting}), 3, FALSE))}
=============================================================================
