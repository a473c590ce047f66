---------------------------- MODULE MCSemanticTurns ----------------------------
(* Short conversations in the texts quoted above each definition, with what the   *)
(* recognisers of the conversation state and the extractors of the semantic       *)
(* authority find in them.                                                         *)
EXTENDS SemanticTurns, MCConversationTurns

Said(message, clauses) == [message |-> message, clauses |-> clauses]

Plainly ==
  [question |-> FALSE, greets |-> FALSE, human |-> FALSE, wants |-> FALSE, first |-> FALSE,
   shifts |-> FALSE, unsure |-> FALSE, topics |-> <<>>, marks |-> {}, repair |-> NoValue,
   facts |-> [f \in FactType |-> "none"], names |-> {}, refers |-> {}]

\* The extractors find one value where the recognisers may find two: a denial.
Asserting(m) ==
  [Plainly EXCEPT !.facts = [f \in FactType |-> IF "no" \in Values(m, f) THEN "no"
                                               ELSE IF "yes" \in Values(m, f) THEN "yes"
                                               ELSE "none"]]

\* "hola"; the recognisers find nothing in it.
Hi == Said(SmallTalk, <<[Plainly EXCEPT !.greets = TRUE]>>)
\* "buenas noches"; the matcher of the injuries finds a "no" in it.
GoodNight ==
  Said(Text({}, "new_topic", [Silent EXCEPT !.injuries = "no"], Nothing, "general_orientation"),
       Hi.clauses)
\* "tuve un choque"
Collision == Said(Crash, <<[Plainly EXCEPT !.topics = <<"claim">>]>>)
\* "no"
SayNo == Said(No, <<Plainly>>)
\* "hubo lesionados"
SayInjured == Said(Injured, <<Asserting(Injured)>>)
\* "no hubo lesionados"
SayUnhurt == Said(NotInjured, <<Asserting(NotInjured)>>)
\* "soy tercero"
SayThird == Said(ThirdParty, <<Asserting(ThirdParty)>>)
\* "ya cargue la denuncia y tengo toda la documentacion"
SayAll == Said(AllLoaded, <<[Asserting(AllLoaded) EXCEPT !.topics = <<"claim", "documentation">>]>>)
\* "no tengo la documentacion"
SayNoPapers == Said(NoPapers, <<[Asserting(NoPapers) EXCEPT !.topics = <<"documentation">>]>>)
\* "no se"
SayUnsure == Said(DontKnow, <<[Plainly EXCEPT !.unsure = TRUE]>>)
\* "me equivoque"
SayMistaken == Said(Mistaken, <<[Plainly EXCEPT !.marks = {"correction"}, !.repair = "replace"]>>)
\* "otra cosa"
SayOther == Said(ChangeTopic, <<[Plainly EXCEPT !.marks = {"topic_shift"}]>>)
\* "volvamos a lo anterior"
SayBack == Said(GoBack, <<[Plainly EXCEPT !.marks = {"topic_shift"}, !.topics = <<"control">>]>>)
\* "seguimos"
SayOn == Said(GoOn, <<[Plainly EXCEPT !.marks = {"continuation"}, !.topics = <<"control">>]>>)
\* "que es una franquicia?"
SayConcept == Said(Concept, <<[Plainly EXCEPT !.question = TRUE]>>)
\* "no, gracias"
SayNoThanks == Said(No, <<[Plainly EXCEPT !.marks = {"closing"}]>>)
\* "eso"
SayThat == Said(SmallTalk, <<[Plainly EXCEPT !.refers = {"place"}]>>)
\* "tengo un choque, pero ahora quiero ver la factura"
SayTwoTopics ==
  Said(Crash, <<[Plainly EXCEPT !.topics = <<"claim">>], Plainly,
                [Plainly EXCEPT !.topics = <<"billing">>, !.shifts = TRUE, !.wants = TRUE]>>)
\* "mi hermana se llama Eva. me llamo Ana"
SayPeople ==
  Said(SmallTalk, <<[Plainly EXCEPT !.names = {<<"person", "Eva">>}],
                    [Plainly EXCEPT !.topics = <<"identity">>, !.names = {<<"person", "Ana">>}]>>)
\* "mi prioridad es la factura"
SayPriority == Said(SmallTalk, <<[Plainly EXCEPT !.topics = <<"billing">>, !.first = TRUE]>>)
\* "quiero un asesor"
SayHuman == Said(SmallTalk, <<[Plainly EXCEPT !.human = TRUE, !.wants = TRUE]>>)
\* a message without text
SayNothing == Said(SmallTalk, <<>>)

Everything ==
  {Hi, GoodNight, Collision, SayNo, SayInjured, SayUnhurt, SayThird, SayAll, SayNoPapers, SayUnsure,
   SayMistaken, SayOther, SayBack, SayOn, SayConcept, SayNoThanks, SayThat, SayTwoTopics,
   SayPeople, SayPriority, SayHuman, SayNothing}

-----------------------------------------------------------------------------
\* The settings: anything in short conversations; claims and other missions that change
\* topic and are greeted on the way.
SemanticSettings ==
  {[turns |-> 3, texts |-> Everything],
   [turns |-> 5, texts |-> {Hi, GoodNight, Collision, SayNo, SayInjured, SayUnhurt, SayOther, SayBack}],
   [turns |-> 5, texts |-> {Hi, SayConcept, SayOther, SayOn, SayBack, SayNoThanks}]}

MCSemanticInit == SemanticInit /\ setting \in SemanticSettings

MCSemanticNext ==
  \E text \in setting.texts, failed, interrupted \in BOOLEAN :
    /\ turn < setting.turns
    /\ TakeTurn(text, failed, interrupted)
    /\ UNCHANGED setting

MCSemanticSpec == MCSemanticInit /\ [][MCSemanticNext]_<<semanticVars, setting>>
=============================================================================
