------------------------ MODULE MCConversationTurns -------------------------
(* Conversations of a few messages, each with what the recognisers of the code *)
(* extract from the Spanish text quoted above it.                              *)
EXTENDS ConversationTurns

CONSTANTS h1, h2    \* request threads

Silent == [s \in FactSlot |-> "none"]
Nothing == [f \in FactType |-> {}]

Text(cues, direction, answers, mentions, opens) ==
  [cues |-> cues, direction |-> direction, answers |-> answers,
   mentions |-> mentions, all |-> FALSE, opens |-> opens]

\* "me chocaron el auto"
Crash == Text({}, "new_topic", Silent, Nothing, "auto_claim_guidance")
\* "hola"
Hello == Text({"greeting"}, "new_topic", Silent, Nothing, "general_orientation")
\* "que es una franquicia"
Concept == Text({}, "new_topic", Silent, Nothing, "knowledge_lookup")
\* "no"
No == Text({"negation"}, "new_topic", [Silent EXCEPT !.injuries = "no"], Nothing,
           "general_orientation")
\* "si"
Yes == Text({"confirmation"}, "new_topic", Silent, Nothing, "general_orientation")
\* "no se"
DontKnow == Text({"negation", "correction"}, "new_topic", [s \in FactSlot |-> "unsure"],
                 Nothing, "general_orientation")
\* "hubo lesionados"
Injured == Text({}, "new_topic", [Silent EXCEPT !.injuries = "yes"],
                [Nothing EXCEPT !.injuries = {"yes"}], "general_orientation")
\* "no hubo lesionados"
NotInjured == Text({"negation", "correction"}, "new_topic", [Silent EXCEPT !.injuries = "no"],
                   [Nothing EXCEPT !.injuries = {"no"}], "general_orientation")
\* "soy tercero"
ThirdParty == Text({"correction"}, "new_topic", [Silent EXCEPT !.user_role = "no"],
                   [Nothing EXCEPT !.user_role = {"no"}], "auto_claim_guidance")
\* "ya cargue la denuncia y tengo toda la documentacion"
AllLoaded == Text({}, "previous", Silent,
                  [Nothing EXCEPT !.claim_report_loaded = {"yes"},
                                  !.documentation_available = {"yes"}], "auto_claim_guidance")
\* "me faltan documentos"
PapersMissing == Text({}, "new_topic", Silent,
                      [Nothing EXCEPT !.documentation_available = {"no"}], "general_orientation")
\* "no tengo la documentacion": it is found to have it and not to have it
NoPapers == Text({"negation", "correction"}, "new_topic", [Silent EXCEPT !.injuries = "no"],
                 [Nothing EXCEPT !.documentation_available = {"yes", "no"}], "general_orientation")
\* "me equivoque"
Mistaken == Text({"withdrawal", "correction"}, "new_topic", Silent, Nothing,
                 "general_orientation")
\* "no, me equivoque"
NoMistaken == Text({"withdrawal", "correction", "negation"}, "new_topic",
                   [Silent EXCEPT !.injuries = "no"], Nothing, "general_orientation")
\* "cambiemos de tema"
ChangeTopic == Text({"topic_shift"}, "new_topic", Silent, Nothing, "general_orientation")
\* "volvamos a lo anterior"
GoBack == Text({"topic_shift"}, "previous", Silent, Nothing, "general_orientation")
\* "seguimos"
GoOn == Text({"continuation"}, "new_topic", Silent, Nothing, "general_orientation")
\* "gracias"
Thanks == Text({"closing"}, "new_topic", Silent, Nothing, "general_orientation")
\* "que lindo dia"
SmallTalk == Text({}, "new_topic", Silent, Nothing, "general_orientation")

\* The whole vocabulary, for short conversations.
AllMessages == {Crash, Hello, Concept, No, Yes, DontKnow, Injured, NotInjured, ThirdParty,
                AllLoaded, PapersMissing, NoPapers, Mistaken, NoMistaken, ChangeTopic, GoBack, GoOn,
                Thanks, SmallTalk}

-----------------------------------------------------------------------------
(* A behaviour has one of five settings: the threads that serve it, what their  *)
(* users say, and how many messages there are.                                  *)
Setting(handlers, turns, messages) == [handlers |-> handlers, turns |-> turns, messages |-> messages]

Settings ==
  {\* anything, in short conversations
   Setting({h1}, 4, AllMessages),
   \* claims that make progress, withdraw and change topic
   Setting({h1}, 6, {Crash, No, Yes, AllLoaded, PapersMissing, Mistaken, ChangeTopic, GoBack}),
   \* navigation
   Setting({h1}, 6, {Crash, Hello, DontKnow, Injured, Mistaken, ChangeTopic, GoBack, GoOn}),
   \* two threads
   Setting({h1, h2}, 4, {Crash, No, ThirdParty, Mistaken, ChangeTopic, GoBack, SmallTalk}),
   \* two threads that answer, revise and withdraw
   Setting({h1, h2}, 5, {Crash, Injured, NotInjured, ThirdParty, AllLoaded, Mistaken})}

VARIABLE setting

MCInit == Init /\ setting \in Settings

MCBegin(h) ==
  /\ h \in setting.handlers
  /\ turn < setting.turns
  /\ BeginTurnWith(h, setting.messages)
  /\ UNCHANGED setting

MCNext ==
  \E h \in Handlers :
    \/ MCBegin(h)
    \/ DecideMission(h) /\ UNCHANGED setting
    \/ CreateMission(h) /\ UNCHANGED setting
    \/ CommitTurn(h) /\ UNCHANGED setting
    \/ FailTurn(h) /\ UNCHANGED setting

MCSpec == MCInit /\ [][MCNext]_<<vars, setting>>
=============================================================================
