---------------------------- MODULE PublicMemory ----------------------------
(* The product memory of a public conversation and what one message does to  *)
(* it: the classifiers' results, the update, the dialogue controller, the    *)
(* projected reply and its supervision.  A message is known by what the      *)
(* classifiers find in it and a reply by the template it is built from.      *)
(* Source: aca_os/public_conversation_product_layer.py.                      *)
EXTENDS CapabilityRouting

NewMemory ==
    [plugin |-> None, capability |-> None, claim_type |-> None, domain |-> None,
     billing_issue |-> None, issue_focus |-> None, expected |-> None, received |-> None,
     amounts |-> << >>, prompt |-> None, frustration |-> 0, handoff |-> FALSE, topic |-> None,
     act |-> None, goal |-> None, next_action |-> None, evidence |-> FALSE, reviewed |-> FALSE,
     options |-> FALSE, suggested |-> << >>, completed |-> << >>, signatures |-> << >>, turns |-> 0]

Generic == "generic.open_chat"
Insurance == "galicia.insurance"

Marked(msg, marks) == msg.marks \cap marks # {}
Is(msg, mark) == mark \in msg.marks
Or(a, b) == IF a # None THEN a ELSE b

BillingContext(mem) ==
    \/ mem.domain = "billing"
    \/ /\ mem.capability = Generic
       /\ {mem.billing_issue, mem.issue_focus, mem.expected, mem.received} # {None}

(* The amounts the code looks for here never show: the normalised text has   *)
(* lost its currency signs.                                                  *)
BillingContinuation(msg, mem) ==
    /\ BillingContext(mem)
    /\ \/ Marked(msg, {"repetition", "frustration", "capabilities", "human", "ping", "affirms",
                       "evidence", "review", "told", "arrived"})
       \/ msg.option # None

ServiceContinuation(msg, mem) ==
    /\ mem.topic # None
    /\ Marked(msg, {"repetition", "human", "capabilities", "frustration", "service_term"})

ClearService(mem) ==
    [mem EXCEPT !.topic  = IF @ = "baja" THEN None ELSE @,
                !.domain = IF @ = "service_request" THEN None ELSE @,
                !.prompt = IF @ = "service_request_scope" THEN None ELSE @]

(* _requested_capability_from_message.                                       *)
RequestedCapability(msg, mem) ==
    IF msg.insurance # None THEN msg.insurance
    ELSE IF \/ Is(msg, "billing") \/ BillingContinuation(msg, mem)
            \/ Is(msg, "baja") \/ ServiceContinuation(msg, mem) THEN Generic
    ELSE IF mem.claim_type # None /\ Marked(msg, {"repetition", "continues"}) THEN mem.capability
    ELSE IF Is(msg, "human")
    THEN IF mem.domain = "billing" \/ mem.topic # None THEN Generic
         ELSE IF mem.plugin \in {None, Insurance} \/ mem.claim_type # None
         THEN "insurance.handoff.prepare" ELSE mem.capability
    ELSE IF Marked(msg, {"glass", "windscreen"}) THEN "insurance.glass"
    ELSE IF Is(msg, "accident") THEN "insurance.accident"
    ELSE IF Is(msg, "claim") THEN "insurance.claims"
    ELSE IF Is(msg, "continues") THEN mem.capability ELSE None

\* Mutant: a rejected topic is not cleared.
HeardWithoutRejection(msg, mem, plugin, capability) ==
    [mem EXCEPT !.turns = @ + 1,
                !.frustration = @ + (IF Marked(msg, {"repetition", "frustration"}) THEN 1 ELSE 0),
                !.evidence = @ \/ Is(msg, "evidence"),
                !.reviewed = @ \/ Is(msg, "review"),
                !.completed = IF Is(msg, "review") /\ @ = << >> THEN <<"revisar_factura">> ELSE @,
                !.plugin = Or(plugin, @),
                !.capability = Or(capability, @)]

(* _update_memory, in the order of its statements.                           *)
Heard(msg, mem, plugin, capability) ==
    LET m == IF Is(msg, "rejects") THEN ClearService(mem) ELSE mem
    IN [m EXCEPT !.turns = @ + 1,
                 !.frustration = @ + (IF Marked(msg, {"repetition", "frustration"}) THEN 1 ELSE 0),
                 !.evidence = @ \/ Is(msg, "evidence"),
                 !.reviewed = @ \/ Is(msg, "review"),
                 !.completed = IF Is(msg, "review") /\ @ = << >> THEN <<"revisar_factura">> ELSE @,
                 !.plugin = Or(plugin, @),
                 !.capability = Or(capability, @)]

Located(msg, mem) ==
    IF msg.insurance # None
    THEN [ClearService(mem) EXCEPT
            !.billing_issue = None, !.issue_focus = None, !.options = FALSE, !.prompt = None,
            !.domain = "insurance", !.plugin = Insurance, !.capability = msg.insurance,
            !.claim_type = IF msg.insurance = "insurance.glass" THEN "cristales"
                           ELSE IF @ = "cristales" THEN None ELSE @]
    ELSE LET billing == Is(msg, "billing") \/ BillingContinuation(msg, mem)
             m == IF billing
                  THEN [mem EXCEPT !.domain = "billing", !.plugin = Generic, !.capability = Generic]
                  ELSE mem
         IN IF Is(msg, "baja") \/ ServiceContinuation(msg, m)
            THEN [m EXCEPT !.topic = IF Is(msg, "baja") THEN "baja" ELSE @,
                           !.domain = Or(@, "service_request"),
                           !.plugin = Generic, !.capability = Generic,
                           !.prompt = "service_request_scope"]
            ELSE m

Focused(msg, mem) ==
    LET about(m) == m.domain = "billing" \/ Is(msg, "billing")
        m1 == IF msg.option # None /\ BillingContext(mem)
              THEN [mem EXCEPT !.issue_focus = msg.option,
                               !.billing_issue = IF msg.option \in {"reclamo", "reclamo_iniciado"}
                                                 THEN "reclamo_factura" ELSE @,
                               !.prompt = "billing_option"]
              ELSE mem
        m2 == IF (Is(msg, "amount") \/ msg.amounts # << >>) /\ about(m1)
              THEN [m1 EXCEPT !.issue_focus = "importe",
                              !.billing_issue = Or(@, "importe_incorrecto"),
                              !.prompt = "billing_amount_followup"]
              ELSE m1
    IN IF Is(msg, "higher") /\ about(m2)
       THEN [m2 EXCEPT !.billing_issue = "importe_mayor_al_esperado",
                       !.issue_focus = Or(@, "importe")]
       ELSE m2

\* Mutant: the list of amounts is kept for pairs only.
PricedPairsOnly(msg, mem) ==
    LET said == msg.amounts
    IN IF said = << >> \/ ~(mem.domain = "billing" \/ Marked(msg, {"billing", "told"})) THEN mem
       ELSE IF Len(said) >= 2
       THEN [mem EXCEPT !.amounts = said, !.expected = Or(@, said[1]), !.received = Or(@, said[2]),
                        !.domain = "billing", !.plugin = Generic, !.capability = Generic]
       ELSE [mem EXCEPT !.expected = Or(@, said[1])]

(* What is not in the list yet is added to its end.                          *)
Listed(seen, a) == IF a \in ToSet(seen) THEN seen ELSE Append(seen, a)
Remembered(seen, said) == FoldLeft(Listed, seen, said)

Priced(msg, mem) ==
    LET said == msg.amounts
        m == [mem EXCEPT !.amounts = Remembered(@, said)]
    IN IF said = << >> \/ ~(mem.domain = "billing" \/ Marked(msg, {"billing", "told"})) THEN mem
       ELSE IF Len(said) >= 2
       THEN [m EXCEPT !.expected = Or(@, said[1]), !.received = Or(@, said[2]),
                      !.billing_issue = "importe_incorrecto", !.issue_focus = "importe",
                      !.domain = "billing", !.plugin = Generic, !.capability = Generic]
       ELSE [m EXCEPT !.expected = Or(@, said[1])]

Closed(msg, mem, capability, action) ==
    LET glass == Is(msg, "glass") \/ capability = "insurance.glass"
        m == IF glass
             THEN [mem EXCEPT !.claim_type = "cristales", !.plugin = Insurance,
                              !.capability = "insurance.glass"]
             ELSE mem
    IN [m EXCEPT !.handoff = @ \/ action = "prepare_handoff" \/ Is(msg, "person")]

(* The stages of the update.  The memory is shared: what another request     *)
(* does to it may come between two of them.                                  *)
Updated(stage, msg, mem, job) ==
    CASE stage = "hear"   -> Heard(msg, mem, job.plugin, job.capability)
      [] stage = "locate" -> Located(msg, mem)
      [] stage = "detail" -> Closed(msg, Priced(msg, Focused(msg, mem)), job.capability, job.action.id)

(* DeterministicDialogueController.decide, on a copy of the memory.          *)
InferDomain(msg, mem) ==
    IF msg.insurance # None THEN "insurance"
    ELSE IF Is(msg, "billing") \/ mem.domain = "billing" THEN "billing"
    ELSE IF Is(msg, "baja") \/ (mem.topic # None /\ ~Is(msg, "rejects")) THEN "service_request"
    ELSE IF mem.claim_type # None THEN "insurance"
    ELSE mem.domain

InferTopic(msg, mem) ==
    IF msg.option # None THEN msg.option
    ELSE IF msg.subject # None THEN msg.subject
    ELSE IF Is(msg, "factura") \/ mem.domain = "billing" THEN "factura"
    ELSE IF Is(msg, "baja") \/ (mem.topic = "baja" /\ ~Is(msg, "rejects")) THEN "baja"
    ELSE IF Is(msg, "glass") \/ mem.claim_type = "cristales" THEN "cristales"
    ELSE Or(mem.issue_focus, Or(mem.topic, mem.claim_type))

ActOrder == <<
    <<"human", "user_requests_human">>, <<"capabilities", "user_requests_capabilities">>,
    <<"ping", "user_pinged_after_silence">>, <<"review", "user_completed_step">>,
    <<"evidence", "user_confirmed_evidence">>, <<"option", "user_selected_option">>,
    <<"repetition", "user_marks_repetition">>, <<"frustration", "user_frustrated">>,
    <<"affirms", "user_affirms">>>>

DialogueAct(msg) ==
    LET found == SelectInSeq(ActOrder, LAMBDA o : Is(msg, o[1]) \/ (o[1] = "option" /\ msg.option # None))
    IN IF found # 0 THEN ActOrder[found][2]
       ELSE IF Marked(msg, {"baja", "billing"}) \/ msg.insurance # None THEN "user_named_topic"
       ELSE "user_message"

Stuck(act, mem) == act \in {"user_frustrated", "user_marks_repetition"} /\ mem.frustration >= 2

NextAction(act, domain, topic, mem) ==
    IF act = "user_requests_human" THEN "prepare_handoff_summary"
    ELSE IF act = "user_requests_capabilities" THEN "explain_available_actions"
    ELSE IF act = "user_pinged_after_silence" THEN "repair_continuity"
    ELSE IF act \in {"user_confirmed_evidence", "user_completed_step"}
    THEN IF domain = "billing" THEN "offer_claim_draft" ELSE "advance_next_step"
    ELSE IF Stuck(act, mem) THEN "escalate_to_concrete_action"
    ELSE IF act = "user_selected_option" THEN "advance_selected_option"
    ELSE IF topic = "baja" THEN "ask_service_request_scope"
    ELSE IF domain = "billing" THEN "orient_billing" ELSE "orient_next_step"

InferGoal(domain, topic, mem) ==
    IF domain = "billing"
    THEN IF topic \in {"reclamo", "reclamo_iniciado"} \/ mem.billing_issue = "reclamo_factura"
         THEN "seguimiento" ELSE "reclamo"
    ELSE IF topic = "baja" THEN "baja"
    ELSE IF domain = "insurance" THEN "siniestro" ELSE None

Decided(msg, mem) ==
    LET domain == InferDomain(msg, mem)
        topic == InferTopic(msg, mem)
        act == DialogueAct(msg)
    IN [act |-> act, domain |-> domain, topic |-> topic,
        goal |-> InferGoal(domain, topic, mem),
        next_action |-> NextAction(act, domain, topic, mem)]

(* _apply_cognitive_turn, on the memory as it is by then.                    *)
Applied(mem, turn) ==
    [mem EXCEPT
       !.act = turn.act, !.goal = turn.goal, !.next_action = turn.next_action,
       !.domain = Or(turn.domain, @),
       !.topic = IF turn.topic = "baja" THEN "baja" ELSE @,
       !.suggested = IF turn.next_action = "offer_claim_draft" THEN Listed(@, "armar_reclamo")
                     ELSE IF turn.next_action = "prepare_handoff_summary" THEN Listed(@, "preparar_resumen")
                     ELSE @]

(* The pair of amounts a reply quotes.                                       *)
AmountPair(mem) ==
    LET listed(i) == IF Len(mem.amounts) >= 2 THEN mem.amounts[i] ELSE None
    IN <<Or(mem.expected, listed(1)), Or(mem.received, listed(2))>>
PairKnown(mem) == None \notin ToSet(AmountPair(mem))

(* A reply: the family of templates, the case, and whether it quotes the     *)
(* pair of amounts.  Amounts are the same in every signature.                *)
Reply(family, case, pair) == <<family, case, IF pair THEN "pair" ELSE "plain">>

HandoffReply(mem) ==
    IF mem.domain = "billing" /\ PairKnown(mem) THEN Reply("handoff", "billing", TRUE)
    ELSE IF mem.topic = "baja" THEN Reply("handoff", "baja", FALSE)
    ELSE IF mem.claim_type = "cristales" THEN Reply("handoff", "cristales", FALSE)
    ELSE Reply("handoff", "brief", FALSE)

BillingReply(msg, mem) ==
    LET act == mem.act
        pair == PairKnown(mem)
        selected == Or(msg.option, mem.issue_focus)
        again == IF mem.frustration >= 2 THEN "again_many" ELSE "again_once"
    IN IF act \in {"user_requests_capabilities", "user_pinged_after_silence"}
       THEN Reply("billing", act, FALSE)
       ELSE IF act = "user_requests_human" THEN HandoffReply(mem)
       ELSE IF act \in {"user_confirmed_evidence", "user_completed_step"}
       THEN Reply("billing", act, pair)
       ELSE IF act \in {"user_frustrated", "user_marks_repetition"}
       THEN Reply("billing", again, pair)
       ELSE IF act = "user_selected_option"
       THEN Reply("billing", selected, pair /\ selected = "importe")
       ELSE IF pair THEN Reply("billing", IF Is(msg, "affirms") THEN "affirmed" ELSE "difference", TRUE)
       ELSE IF mem.issue_focus = "importe" \/ Is(msg, "amount") THEN Reply("billing", "compare", FALSE)
       ELSE IF Is(msg, "due") THEN Reply("billing", "due", FALSE)
       ELSE IF Is(msg, "paid") THEN Reply("billing", "paid", FALSE)
       ELSE Reply("billing", "menu", FALSE)

ServiceReply(msg, mem) ==
    LET act == mem.act
    IN IF act \in {"user_requests_human", "user_requests_capabilities"} THEN Reply("service", act, FALSE)
       ELSE IF act \in {"user_frustrated", "user_marks_repetition"}
       THEN Reply("service", IF mem.frustration >= 2 THEN "again_many" ELSE "again_once", FALSE)
       ELSE IF Is(msg, "baja") \/ mem.topic = "baja" THEN Reply("service", "baja", FALSE)
       ELSE Reply("service", "order", FALSE)

GenericReply(msg, mem) ==
    IF Is(msg, "billing") \/ BillingContext(mem) THEN BillingReply(msg, mem)
    ELSE IF Is(msg, "baja") \/ mem.topic # None THEN ServiceReply(msg, mem)
    ELSE IF mem.act = "user_requests_capabilities" THEN Reply("generic", "capabilities", FALSE)
    ELSE IF mem.act = "user_requests_human" THEN HandoffReply(mem)
    ELSE Reply("generic", IF Is(msg, "repetition") THEN "again" ELSE "orient", FALSE)

InsuranceReply(msg, mem, capability, handoffPlanned) ==
    LET claim == Or(mem.claim_type, IF capability = "insurance.glass" THEN "cristales" ELSE None)
    IN IF Is(msg, "billing") THEN GenericReply(msg, mem)
       ELSE IF mem.act \in {"user_requests_capabilities", "user_pinged_after_silence"}
       THEN Reply("insurance", mem.act, FALSE)
       ELSE IF Is(msg, "person") \/ handoffPlanned THEN HandoffReply(mem)
       ELSE IF Is(msg, "hours48") /\ (claim = "cristales" \/ Is(msg, "glass"))
       THEN Reply("insurance", "delay", FALSE)
       ELSE IF Is(msg, "documents") THEN Reply("insurance", "documents", FALSE)
       ELSE IF Marked(msg, {"repetition", "frustration"})
       THEN Reply("insurance", IF mem.frustration >= 2 THEN "again_many" ELSE "again_once", FALSE)
       ELSE IF Is(msg, "as_client")
       THEN Reply("insurance", IF claim = "cristales" THEN "client_glass" ELSE "client", FALSE)
       ELSE Reply("insurance", IF Is(msg, "glass") \/ claim = "cristales" THEN "glass" ELSE "orient", FALSE)

(* _project_response: the route decides, and the memory where it is silent.  *)
(* The planner of the insurance plugin asks for a handoff on its capability. *)
ProjectReply(msg, mem, route, action) ==
    LET plugin == Or(route.plugin, mem.plugin)
        capability == Or(route.capability, mem.capability)
        handoffPlanned == route.plugin = Insurance
                          /\ (action = "prepare_handoff" \/ capability = "insurance.handoff.prepare")
    IN IF action = "prepare_handoff" THEN HandoffReply(mem)
       ELSE IF \/ plugin = Insurance
               \/ capability \in {"insurance.claims", "insurance.glass", "insurance.accident",
                                  "insurance.handoff.prepare"}
       THEN InsuranceReply(msg, mem, capability, handoffPlanned)
       ELSE GenericReply(msg, mem)

(* supervise_visible_response: a reply of the last three is replaced for a   *)
(* user who has complained, and what is said is remembered.                  *)
Supervised(reply, mem) ==
    IF reply \in ToSet(mem.signatures) /\ mem.frustration > 0
    THEN IF mem.domain = "billing" THEN Reply("unstick", "billing", PairKnown(mem))
         ELSE IF mem.topic = "baja" THEN Reply("unstick", "baja", FALSE)
         ELSE IF mem.claim_type = "cristales" THEN Reply("unstick", "cristales", FALSE)
         ELSE Reply("unstick", "plain", FALSE)
    ELSE reply

LastThree(s) == IF Len(s) > 3 THEN SubSeq(s, Len(s) - 2, Len(s)) ELSE s

(* Templates that also list options to choose from next.                     *)
ListsOptions(reply) == reply[1] = "billing" /\ reply[2] \in {"compare", "menu"}

(* The reply goes by the act that was decided and the memory as it is.       *)
Replied(msg, mem, job) ==
    LET seen == [mem EXCEPT !.act = job.turn.act]
        reply == ProjectReply(msg, seen, job.route, job.action.id)
    IN [mem EXCEPT !.options = @ \/ ListsOptions(reply),
                   !.signatures = LastThree(Append(@, Supervised(reply, mem)))]
=============================================================================
