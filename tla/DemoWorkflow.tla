---------------------------- MODULE DemoWorkflow ----------------------------
(* The conversational workflow of the demo endpoint: what one message, known *)
(* by the marks its words leave, is understood to ask, what the policy and   *)
(* the planner allow, which reply is written, how the supervisor reviews it  *)
(* and what the conversation's public state becomes.  A reply is known by    *)
(* the text it is written from and the facts it tells.                       *)
(* Source: aca_os/public_conversation_workflow.py and _state.py.             *)
EXTENDS PublicMemory

Nothing == <<"none", None>>
NewTalk ==
    [turns |-> 0, goal |-> None, topic |-> None, claim |-> None, case |-> None,
     category |-> None, facts |-> {}, fallbacks |-> 0, confusions |-> 0,
     frustrations |-> 0, signature |-> <<"as written", Nothing>>]

Fact(kind, value) == IF value = None THEN {} ELSE {<<kind, value>>}
Loaded == <<"done", "loaded">>
StepDone == <<"done", "step">>
StateFacts(talk) == talk.facts \cup Fact("ticket", talk.case) \cup Fact("claim", talk.claim)

-----------------------------------------------------------------------------
(* SemanticUnderstandingLayer.parse: five requests are understood at once,   *)
(* the first one found; the message's other contents are then left aside.    *)
Understood(intent, topic, goal, action, facts) ==
    [intent |-> intent, topic |-> topic, goal |-> goal, action |-> action, facts |-> facts,
     sure |-> TRUE, tool |-> FALSE, case |-> None, claim |-> None]

AtOnce(msg, talk) ==
    IF Is(msg, "greets") THEN
        Understood("saludo", "inicio", "iniciar_conversacion", "answer_with_capabilities", {})
    ELSE IF Marked(msg, {"upset", "repeats"}) THEN
        Understood("expresar_frustracion", talk.topic, "recibir_ayuda_sin_repeticion", "repair", StateFacts(talk))
    ELSE IF Is(msg, "asks_help") THEN
        Understood("consultar_capacidades", talk.topic, "saber_que_puede_hacer_aca", "answer_capabilities", {})
    ELSE IF Is(msg, "asks_who") THEN
        Understood("consultar_identidad_o_ia", talk.topic, "entender_limites_del_asistente",
                   "answer_identity_or_ai_limits", {})
    ELSE
        Understood("solicitar_derivacion", talk.topic, "hablar_con_una_persona", "prepare_handoff", StateFacts(talk))

(* What is left is guidance, refined by what the message mentions: each step *)
(* may overrule the ones before it.  A ticket is the number the message      *)
(* gives as one; failing that, any number in it, or the ticket at hand.      *)
Guidance == [Understood("general_guidance", None, "orientarse", "answer_with_guidance", {})
             EXCEPT !.sure = FALSE]

AboutTicket(msg, talk, number) ==
    LET case == Or(msg.ticket, number)
        carried == msg.ticket = None /\ number = talk.case /\ Is(msg, "short")
    IN IF case = None THEN Guidance
       ELSE [Guidance EXCEPT
               !.topic = "ticket", !.case = case, !.facts = Fact("ticket", case), !.sure = TRUE,
               !.goal = IF carried THEN "continuar_contexto_ticket" ELSE "saber_estado_y_proximo_paso",
               !.intent = IF carried THEN @ ELSE "consultar_estado_o_plazo",
               !.action = IF carried THEN @ ELSE "consultar_estado_real",
               !.tool = ~carried]

AboutClaim(p, msg, talk) ==
    LET claim == Or(msg.claim, IF Is(msg, "short") THEN talk.claim ELSE None)
        q == [p EXCEPT !.topic = "siniestro", !.claim = claim, !.sure = TRUE,
                       !.facts = @ \cup Fact("claim", claim)
                                   \cup (IF Is(msg, "loaded") THEN {Loaded} ELSE {})]
        Wants(intent, goal) == [q EXCEPT !.intent = intent, !.goal = goal]
    IN IF claim = None THEN p
       ELSE IF Is(msg, "status") THEN
           [Wants("consultar_estado_o_plazo", "saber_cuando_tendra_respuesta")
            EXCEPT !.tool = TRUE, !.action = "answer_with_guidance"]
       ELSE IF Marked(msg, {"papers", "needs"}) THEN
           Wants("consultar_documentacion", "saber_que_documentacion_corresponde")
       ELSE IF Is(msg, "where") THEN Wants("consultar_canal", "saber_canal_de_denuncia")
       ELSE IF claim = "franquicia" THEN Wants("consultar_concepto_o_reclamo", "entender_franquicia")
       ELSE Wants("orientar_siniestro", "entender_proximo_paso")

AboutReport(p, msg) ==
    IF p.claim = None /\ Is(msg, "reported")
    THEN [p EXCEPT !.topic = "siniestro", !.intent = "consultar_estado_o_plazo",
                   !.goal = "saber_si_hay_novedades", !.action = "ask_clarification_or_orient",
                   !.facts = @ \cup Fact("done", "reported"), !.tool = TRUE, !.sure = TRUE]
    ELSE p

(* Deadlines, papers and channels, in this order.                            *)
Question(p, msg, talk, mark, intent, goal) ==
    IF Is(msg, mark)
    THEN [p EXCEPT !.intent = intent, !.goal = goal, !.topic = Or(@, talk.topic), !.sure = TRUE]
    ELSE p
Questioned(p, msg, talk) ==
    LET deadline == Question(p, msg, talk, "deadline", "consultar_estado_o_plazo", "saber_cuando_tendra_respuesta")
        papers == Question(deadline, msg, talk, "papers", "consultar_documentacion",
                           "saber_que_documentacion_corresponde")
    IN Question(papers, msg, talk, "channel", "consultar_canal", "saber_canal_de_denuncia")

(* A step already done, then a reply the user wants to see.                  *)
Reported(p, msg, talk) ==
    LET done == IF ~Is(msg, "done") THEN p
                ELSE [p EXCEPT !.intent = "informar_paso_realizado", !.topic = talk.topic, !.sure = TRUE,
                               !.goal = "evitar_repetir_pasos_y_saber_siguiente_paso",
                               !.facts = @ \cup {StepDone}]
    IN IF ~Is(msg, "example") THEN done
       ELSE [done EXCEPT !.intent = "pedir_respuesta_modelo", !.topic = talk.topic, !.sure = TRUE,
                         !.goal = "ver_como_responderia_a_un_cliente", !.action = "show_example"]

Parse(msg, talk, number) ==
    IF Marked(msg, {"greets", "upset", "repeats", "asks_help", "asks_who", "person"})
    THEN AtOnce(msg, talk)
    ELSE LET claim == AboutReport(AboutClaim(AboutTicket(msg, talk, number), msg, talk), msg)
         IN [Reported(Questioned(claim, msg, talk), msg, talk) EXCEPT !.facts = @ \cup StateFacts(talk)]

-----------------------------------------------------------------------------
(* PolicyLayer.authorize: there is no tool for the state of a real case.     *)
Authorize(p) ==
    IF p.action = "consultar_estado_real" \/ (p.tool /\ p.topic \in {"ticket", "siniestro"}) THEN "blocked"
    ELSE IF ~p.sure THEN "needs_clarification"
    ELSE "authorized"

(* HybridConversationPlanner.plan                                            *)
PlanFor(p, authorization) ==
    IF p.intent = "solicitar_derivacion" THEN "prepare_handoff"
    ELSE IF authorization = "needs_clarification" THEN "ask_clarification"
    ELSE IF authorization = "blocked" THEN "explain_limit"
    ELSE IF p.intent = "expresar_frustracion" THEN "repair"
    ELSE IF p.intent = "pedir_respuesta_modelo" THEN "show_example"
    ELSE "answer"

-----------------------------------------------------------------------------
Written(category, text) == [category |-> category, text |-> text, told |-> {}]

(* A collision now or before: a new claim of another kind does not end it.   *)
Collision(claim, talk) == "choque" \in {claim, talk.claim}

(* Replies that depend on the case at hand: on the ticket, on a collision.   *)
OnCase(category, case, collision) ==
    Written(category, IF case # None THEN <<category, case>>
                      ELSE <<category, IF collision THEN "choque" ELSE None>>)

Timeline(category, submitted) ==
    Written(category, <<"timeline", IF submitted THEN "submitted" ELSE None>>)

(* A derivation tells what is known of the conversation and of the message.  *)
Derivation(p, talk) ==
    [Written("handoff_summary", <<"handoff", None>>) EXCEPT !.told = StateFacts(talk) \cup p.facts]

ClaimReply(p, claim, submitted) ==
    IF p.intent = "orientar_siniestro" /\ p.claim = "choque" THEN
        IF submitted THEN Timeline("claim_collision_followup", TRUE)
        ELSE Written("claim_collision", <<"claim", "choque">>)
    ELSE IF claim \in {"cristales", "robo parcial"} THEN
        Written(IF claim = "cristales" THEN "claim_glass" ELSE "claim_theft", <<"claim", claim>>)
    ELSE IF claim = "franquicia" THEN Written("deductible", <<"deductible", None>>)
    ELSE Written("fallback", <<"fallback", None>>)

StatusReply(case, collision, submitted) ==
    IF case # None THEN Written("ticket_status", <<"ticket_status", None>>)
    ELSE IF collision THEN Timeline("claim_collision_timeline", submitted)
    ELSE Written("claim_status_waiting", <<"waiting", None>>)

(* NaturalReplyGenerator.generate: of the plan it only reads whether to ask, *)
(* and only guidance is ever so unsure.                                      *)
Generate(p, plan, msg, talk) ==
    LET claim == Or(p.claim, talk.claim)
        case == Or(p.case, talk.case)
        collision == Collision(claim, talk)
        submitted == {Loaded, StepDone} \cap p.facts # {}
    IN IF p.intent = "saludo" THEN Written("greeting", <<"greeting", None>>)
       ELSE IF p.intent = "consultar_capacidades" THEN Written("capability", <<"capability", None>>)
       ELSE IF p.intent = "consultar_identidad_o_ia" THEN Written("ai_limit", <<"ai_limit", None>>)
       ELSE IF p.intent = "solicitar_derivacion" THEN Derivation(p, talk)
       ELSE IF p.intent = "expresar_frustracion" THEN OnCase("repair", case, collision)
       ELSE IF plan = "ask_clarification" THEN
              Written("clarification", <<"clarification", IF Is(msg, "confused") THEN "explained" ELSE None>>)
       ELSE IF p.intent = "informar_paso_realizado" THEN OnCase("step_already_done", None, collision)
       ELSE IF p.intent = "pedir_respuesta_modelo" THEN OnCase("client_example", case, collision)
       ELSE IF p.intent = "general_guidance" /\ case # None THEN
              Written("ticket_context_followup", <<"followup", case>>)
       ELSE IF p.intent = "general_guidance" /\ claim # None THEN
              Written("claim_context_followup", <<"followup", claim>>)
       ELSE IF p.intent = "consultar_estado_o_plazo" THEN StatusReply(case, collision, submitted)
       ELSE IF p.intent = "consultar_documentacion" THEN Written("claim_documentation", <<"papers", claim>>)
       ELSE IF p.intent = "consultar_canal" THEN Written("claim_channel", <<"channel", None>>)
       ELSE IF p.intent = "consultar_concepto_o_reclamo" THEN
              Written("deductible", <<"deductible", IF Is(msg, "confused") THEN "simple" ELSE None>>)
       ELSE ClaimReply(p, claim, submitted)

-----------------------------------------------------------------------------
(* The first words of a reply: the state keeps them with their punctuation,  *)
(* the supervisor compares them without.  Every reply has a comma, a colon   *)
(* or a stop among its first words, so the two forms never are the same.     *)
StoredSignature(text) == <<"as written", text>>
ReviewSignature(text) == <<"bare words", text>>

(* OutputSupervisor.review and _safe_rewrite                                 *)
Rewritten(reply, talk) ==
    [reply EXCEPT !.text = <<"changed", IF talk.claim = "choque" THEN "choque" ELSE None>>]
Reviewed(reply, talk) ==
    IF ReviewSignature(reply.text) = talk.signature THEN Rewritten(reply, talk) ELSE reply

(* PublicConversationWorkflow.run                                            *)
Workflow(msg, talk, number) ==
    LET p == Parse(msg, talk, number)
        plan == PlanFor(p, Authorize(p))
    IN [parse |-> p, plan |-> plan, reply |-> Reviewed(Generate(p, plan, msg, talk), talk)]

(* _extract_entities: any number of the message, or the ticket at hand.      *)
CaseNumber(msg, talk) == Or(msg.number, talk.case)

\* Mutant: the facts are those of the message's own parse.
UpdateForgetting(msg, talk, number, out) ==
    [talk EXCEPT !.turns = @ + 1, !.facts = out.parse.facts,
                 !.signature = StoredSignature(out.reply.text)]

(* update_public_conversation_state                                          *)
Update(msg, talk, number, out) ==
    LET p == out.parse
        case == Or(number, Or(p.case, talk.case))
        claim == Or(p.claim, msg.claim)
        before == IF claim # None THEN "siniestro" ELSE IF case # None THEN "ticket" ELSE talk.topic
        topic == Or(p.topic, before)
        Count(n, mark) == IF Is(msg, mark) THEN n + 1 ELSE n
    IN [talk EXCEPT
          !.turns = @ + 1, !.goal = p.goal, !.case = case, !.claim = Or(claim, @),
          !.topic = IF Is(msg, "asks_what") THEN Or(topic, "capacidades") ELSE topic,
          !.category = out.reply.category, !.facts = @ \cup p.facts,
          !.fallbacks = IF out.reply.category = "fallback" THEN @ + 1 ELSE 0,
          !.confusions = Count(@, "brief"), !.frustrations = Count(@, "tired"),
          !.signature = StoredSignature(out.reply.text)]
=============================================================================
