------------------------- MODULE MCConversationPlans -------------------------
(* Planned conversations: the texts of MCConversationTurns and a few that ask   *)
(* about the process, each with what the recognisers of needs find in it.        *)
EXTENDS ConversationPlans, MCConversationTurns

Say(message, signals) == [message |-> message, signals |-> signals, worry |-> {}]

\* "no cargue la denuncia"
NotReported == Text({"negation", "correction"}, "previous", [Silent EXCEPT !.injuries = "no"],
                    [Nothing EXCEPT !.claim_report_loaded = {"no"}], "auto_claim_guidance")
\* "ya cargue todo, pero la denuncia no esta cargada"
AllButReport == [Text({"correction"}, "previous", [Silent EXCEPT !.injuries = "no"],
                      [Nothing EXCEPT !.claim_report_loaded = {"no"}], "auto_claim_guidance")
                   EXCEPT !.all = TRUE]
\* "no entiendo"
DontUnderstand == Text({"clarification_request", "negation"}, "new_topic",
                       [Silent EXCEPT !.injuries = "no"], Nothing, "general_orientation")
\* "no me pidieron las fotos"
NotAsked == Text({"negation"}, "new_topic", [Silent EXCEPT !.injuries = "no"], Nothing,
                 "general_orientation")

\* "me chocaron el auto y hubo lesionados"
CrashInjured == Text({}, "new_topic", [Silent EXCEPT !.injuries = "yes"],
                     [Nothing EXCEPT !.injuries = {"yes"}], "auto_claim_guidance")

SayLoaded == Say(AllLoaded, {"report", "documents"})
SayMissing == Say(PapersMissing, {"documents"})
SayNoPapers == Say(NoPapers, {"documents"})
SayNotReported == Say(NotReported, {"report"})
SayAllButReport == Say(AllButReport, {"report"})
SayNotAsked == Say(NotAsked, {"no_photo", "photo"})
\* "puedo arreglar el auto?"
Repair == Say(SmallTalk, {"repair", "question"})
\* "nadie me contacto"
Nobody == Say(SmallTalk, {"contact"})
\* "cuando me pagan"
WhenPaid == Say(SmallTalk, {"status", "question"})
\* "mande las fotos"
PhotosSent == Say(SmallTalk, {"photo"})
\* "mande las fotos?"
WerePhotosSent == Say(SmallTalk, {"photo", "question"})
\* "las fotos estan, pero me preocupa la documentacion"
WorryPapers == [message |-> SmallTalk, signals |-> {"photo", "documents"}, worry |-> {"documents"}]
\* "eso"
That == Say(SmallTalk, {"ambiguous"})

Plain(messages) == {Say(m, {}) : m \in messages}

Everything ==
  Plain(AllMessages \ {AllLoaded, PapersMissing, NoPapers})
    \union {SayLoaded, SayMissing, SayNoPapers, SayNotReported, SayAllButReport, SayNotAsked,
            Say(DontUnderstand, {}), Say(CrashInjured, {}), Repair, Nobody, WhenPaid, PhotosSent, WerePhotosSent, WorryPapers, That}

PlanMessages == {s.message : s \in Everything}

-----------------------------------------------------------------------------
\* The settings: anything in short conversations; claims that are answered, asked about,
\* withdrawn, denied, left, affirmed and denied in one message; conversations without a
\* claim.
PlanSettings ==
  {[turns |-> 2, sayings |-> Everything],
   [turns |-> 5, sayings |-> Plain({Crash, Injured, No, Yes, Mistaken})
                               \union {SayLoaded, SayNotReported, Repair}],
   [turns |-> 4, sayings |-> Plain({Crash, ThirdParty, DontKnow, NoMistaken, GoOn})
                               \union {SayLoaded, SayMissing, Nobody}],
   [turns |-> 5, sayings |-> Plain({ThirdParty})
                               \union {Say(CrashInjured, {}), SayLoaded, SayMissing, SayNoPapers,
                                       SayAllButReport}],
   [turns |-> 4, sayings |-> Plain({Crash, NotInjured, ThirdParty, ChangeTopic, GoBack})
                               \union {WhenPaid, SayNotAsked}],
   [turns |-> 4, sayings |-> Plain({Hello, Concept, Injured, Mistaken, GoOn, DontUnderstand})
                               \union {PhotosSent, That, WorryPapers}]}

MCPlanInit == PlanInit /\ setting \in PlanSettings

MCPlanNext ==
  \E h \in Handlers :
    \/ turn < setting.turns /\ BeginPlannedTurn(h, setting.sayings) /\ UNCHANGED setting
    \/ DecideAndPlan(h) /\ UNCHANGED setting
    \/ CreateAndPlan(h) /\ UNCHANGED setting
    \/ FinishPlannedTurn(h) /\ UNCHANGED setting
    \/ FailPlannedTurn(h) /\ UNCHANGED setting

MCPlanSpec == MCPlanInit /\ [][MCPlanNext]_<<planVars, setting>>
=============================================================================
