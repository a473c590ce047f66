-------------------------- MODULE ConversationTurns --------------------------
(* The turns of one conversation. A request handler takes a message, begins a  *)
(* turn (the conversation manager already stores the state it computes then),  *)
(* lets the mission manager decide, and stores the outcome. Handlers run on     *)
(* threads of one server and share the session; an exception between the first  *)
(* and the last step ends the turn without undoing the first.                   *)
EXTENDS ConversationState

CONSTANTS Handlers,    \* the request threads
          Messages     \* the messages users send

ASSUME MessagesAssumption == Messages \subseteq Message

VARIABLES turn,        \* len(session.turns)
          session,     \* session.conversation_state
          pc,          \* what each handler is doing
          work         \* the turn each handler carries

vars == <<turn, session, pc, work>>

\* Some of what follows is only true where a session has one request at a time.
OneHandler == \A g, h \in Handlers : g = h

\* The part of a ConversationState that a turn reads and changes.
StateRecord(slots, facts, mission, topics, proposals) ==
  [slots |-> slots, facts |-> facts, mission |-> mission,
   topics |-> topics, proposals |-> proposals]

NewState == StateRecord(NoSlots, [f \in FactType |-> NoFact], NoMission, EmptyStack, <<>>)

\* A turn in progress: its number, the message and its act, the state it works
\* on, and the decision taken.
NoDecision == [kind |-> "none", accepted |-> FALSE, mission |-> NoMission]

Idle == [turn |-> 0, act |-> "none", direction |-> "new_topic",
         opens |-> "general_orientation", state |-> NewState, decision |-> NoDecision]

Init ==
  /\ turn = 0
  /\ session = NewState
  /\ pc = [h \in Handlers |-> "idle"]
  /\ work = [h \in Handlers |-> Idle]

-----------------------------------------------------------------------------
\* What begin_turn makes of the state of the session.

\* Slot answers are resolved unless the act suppresses it.
ResolveSlots(state, m, act, n) ==
  IF SuppressesSlots(act) THEN state
  ELSE [state EXCEPT
          !.slots     = SlotsResolved(state.slots, m),
          !.mission   = MissionResolved(state.mission, state.slots, m),
          !.proposals = state.proposals \o SlotProposals(state.mission, state.slots, m, n)]

\* "resolved" is the state after ResolveSlots, "slots" the slots before it.
AssimilateFacts(resolved, slots, m, act, n) ==
  LET closed     == IF SuppressesSlots(act) THEN {} ELSE JustClosed(slots, m)
      facts      == FactsAfter(resolved.facts, closed, slots, m, n)
      slotsAfter == SlotsAfterFacts(resolved.slots, resolved.facts, facts,
                                    Withdrawn(resolved.facts, closed, m), closed)
      advanced   == AdvancedMission(resolved.mission, facts, slotsAfter)
      clarified  == ClarifiedMission(advanced, AmbiguousWithdrawal(resolved.facts, closed, m))
  IN  [resolved EXCEPT
         !.facts     = facts,
         !.slots     = slotsAfter,
         !.mission   = clarified,
         !.proposals = resolved.proposals
                         \o AdvancementProposals(resolved.mission, advanced, clarified, n)]

UpdateTopicStack(state, active, act, direction, n) ==
  LET move == TopicMove(state.mission, state.topics, active, act, direction, n)
  IN  [state EXCEPT
         !.topics    = TopicsAfter(state.topics, active, move),
         !.proposals = state.proposals \o TopicProposals(state.mission, active, move, act, n)]

BegunState(state, m, act, active, n) ==
  UpdateTopicStack(AssimilateFacts(ResolveSlots(state, m, act, n), state.slots, m, act, n),
                   active, act, m.direction, n)

-----------------------------------------------------------------------------
\* The turn that opens the conversation is not interleaved with another one: a
\* second message comes after the first answer.
Opened == IsMission(session.mission)

\* begin_turn: counts the message, one of those given, and leaves in the session
\* what it computed.
BeginTurnWith(h, messages) ==
  /\ pc[h] = "idle"
  /\ turn < MaxTurns
  /\ Opened \/ \A other \in Handlers : pc[other] = "idle"
  /\ \E m \in messages :
     \E a \in SelectedActs(session.slots, session.facts, m) :
     \E active \in ActiveTopics(session.topics) :
        LET begun == BegunState(session, m, a.act, active, turn + 1)
        IN  /\ session' = begun
            /\ work' = [work EXCEPT ![h] =
                          [turn |-> turn + 1, act |-> a.act, direction |-> m.direction,
                           opens |-> m.opens, state |-> begun, decision |-> NoDecision]]
  /\ turn' = turn + 1
  /\ pc' = [pc EXCEPT ![h] = "begun"]

BeginTurn(h) == BeginTurnWith(h, Messages)

\* before_kernel, when the turn carries a mission: the decision on the proposals
\* that the state has gathered, those of earlier turns included.
DecideMission(h) ==
  /\ pc[h] = "begun"
  /\ IsMission(work[h].state.mission)
  /\ \E d \in Decisions(work[h].state.mission, work[h].state.proposals, work[h].turn) :
       work' = [work EXCEPT
                  ![h].decision      = d,
                  ![h].state.mission = d.mission,
                  ![h].state.facts   = MergedFacts(session.facts, work[h].state.facts)]
  /\ pc' = [pc EXCEPT ![h] = "decided"]
  /\ UNCHANGED <<turn, session>>

\* before_kernel, when it carries none: the mission is created.
CreateMission(h) ==
  /\ pc[h] = "begun"
  /\ ~IsMission(work[h].state.mission)
  /\ work' = [work EXCEPT
                ![h].state.mission = NewMission(work[h].opens),
                ![h].state.facts   = MergedFacts(session.facts, work[h].state.facts)]
  /\ pc' = [pc EXCEPT ![h] = "decided"]
  /\ UNCHANGED <<turn, session>>

\* after_process: the outcome is merged into the session as it is by now; the
\* proposals it keeps are the session's.
CommitTurn(h) ==
  /\ pc[h] = "decided"
  /\ LET done == work[h].state
     IN  session' = StateRecord(
                      MergedSlots(session.slots, MissionSlots(done.mission)),
                      MergedFacts(session.facts, done.facts),
                      done.mission,
                      ProjectedTopics(done.topics, done.mission),
                      session.proposals)
  /\ pc' = [pc EXCEPT ![h] = "idle"]
  /\ work' = [work EXCEPT ![h] = Idle]
  /\ UNCHANGED turn

\* An exception of a later stage (policy, tool, renderer) reaches the caller. The
\* opening turn is taken to succeed.
FailTurn(h) ==
  /\ pc[h] \in {"begun", "decided"}
  /\ Opened
  /\ pc' = [pc EXCEPT ![h] = "idle"]
  /\ work' = [work EXCEPT ![h] = Idle]
  /\ UNCHANGED <<turn, session>>

Next == \E h \in Handlers :
  \/ BeginTurn(h)
  \/ DecideMission(h)
  \/ CreateMission(h)
  \/ CommitTurn(h)
  \/ FailTurn(h)

Spec == Init /\ [][Next]_vars

-----------------------------------------------------------------------------
Status == session.mission.status

Carried(h) == work[h].state

\* A value of the shape of a ConversationState; its proposals are its own.
States ==
  [slots     : [Slot -> SlotState],
   facts     : Facts,
   mission   : Mission,
   topics    : TopicStack,
   proposals : Seq(OwnProposals)]

Decision == [kind     : TransitionKind \union {"none"},
             accepted : BOOLEAN,
             mission  : Mission]

Work ==
  [turn      : Turns,
   act       : Act \union {"none"},
   direction : {"new_topic", "previous"},
   opens     : MissionType,
   state     : States,
   decision  : Decision]

\* The types of the state. In particular an answered slot takes its value from
\* the vocabulary of answers, never from an absent fact (_slots_after_fact_changes),
\* and a decided mission is a mission of the lifecycle.
TypeOK ==
  /\ turn \in Turns
  /\ session \in States
  /\ pc \in [Handlers -> {"idle", "begun", "decided"}]
  /\ work \in [Handlers -> Work]

\* Exactly one topic of a stack that is not empty is open.
HasOneOpenTopic(topics) ==
  \/ topics = EmptyStack
  \/ \E t \in Turns : OpenTopics(topics) = {t}

\* The topic stack never has two open topics, nor topics none of which is open,
\* in the session and in every turn in progress: the search for the open topic
\* in update_topic_stack has one answer, also after failed turns and when two
\* handlers overwrite each other's stack.
OneOpenTopic ==
  /\ HasOneOpenTopic(session.topics)
  /\ \A h \in Handlers : HasOneOpenTopic(Carried(h).topics)

\* A claim takes nothing for answered that the session has forgotten, and it is ready
\* or progressing only on evidence the session still holds: both core facts are active
\* and their slots closed, and it progresses only on a loaded report and complete
\* documentation. Withdrawals, revisions, failed turns and commits of other handlers
\* in between must take answer and status back.
EvidenceBacked ==
  session.mission.type = "auto_claim_guidance" =>
    /\ \A s \in FactSlot : session.slots[s] \in ClosedSlotState => s \in Known(session.facts)
    /\ Status \in {"ready_to_progress", "progressing"} =>
         \A s \in FactSlot : /\ s \in Known(session.facts)
                            /\ session.slots[s] \in ClosedSlotState
    /\ Status = "progressing" =>
         /\ session.facts["claim_report_loaded"].value = "yes"
         /\ session.facts["documentation_available"].value = "yes"

ThisTurns(h, kind) ==
  \E i \in DOMAIN Carried(h).proposals : /\ Carried(h).proposals[i].turn = work[h].turn
                                        /\ Carried(h).proposals[i].kind = kind

\* A request to suspend the mission made in a turn is honoured by the decision
\* of that turn, whatever else the turn proposes and however old the list is.
SuspensionHonoured ==
  \A h \in Handlers :
    pc[h] = "decided" /\ ThisTurns(h, "suspend") => Carried(h).mission.status = "suspended"

\* A user who asks for the previous topic gets the mission back: if the mission
\* has a topic, the turn leaves that topic open and the mission not suspended.
ReturnResumes ==
  \A h \in Handlers :
    (/\ pc[h] = "decided"
     /\ work[h].act = "topic_shift" /\ work[h].direction = "previous"
     /\ Carried(h).topics[MissionTopic] # AbsentTopic) =>
      /\ MissionTopic \in OpenTopics(Carried(h).topics)
      /\ Carried(h).mission.status # "suspended"

\* The mission decided is the mission carried unless a proposal of this very turn
\* asked for the status it ends in: the proposals that failed or earlier turns
\* left in the session never act again.
OnlyFreshEvidence ==
  [][\A h \in Handlers :
       (/\ pc[h] = "begun" /\ pc'[h] = "decided"
        /\ IsMission(Carried(h).mission)
        /\ work'[h].state.mission # Carried(h).mission) =>
          \E i \in DOMAIN Carried(h).proposals :
            /\ Carried(h).proposals[i].turn = work[h].turn
            /\ Carried(h).proposals[i].after.status = work'[h].state.mission.status]_vars

\* A closed slot is asked again only in the step that forgets its fact; a late
\* commit of another handler does not reopen it.
AnsweredStaysAnswered ==
  [][\A s \in FactSlot :
       (/\ session.slots[s] \in ClosedSlotState
        /\ session'.slots[s] \notin ClosedSlotState) =>
          session.facts[s].value # "none" /\ session'.facts[s].value = "none"]_vars

\* With one handler a stored mission changes status only along the edges of
\* MISSION_LIFECYCLE, although each turn moves it up to three times (advance,
\* clarification, decision) and the advance and the decision read different copies.
LifecycleRespected ==
  [][IsMission(session.mission) /\ Status # session'.mission.status =>
       session'.mission.status \in MISSION_LIFECYCLE[Status]]_vars

\* With one handler, while no turn is in progress, a slot of a claim is closed on the
\* very value its fact has: what the mission thinks was answered and what the facts
\* say never drift apart.
SlotsAgree ==
  (session.mission.type = "auto_claim_guidance" /\ \A h \in Handlers : pc[h] = "idle") =>
    \A s \in FactSlot :
      session.slots[s] \in ClosedSlotState => session.slots[s] = session.facts[s].value
=============================================================================
