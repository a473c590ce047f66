-------------------------- MODULE MissionDecisions ---------------------------
(* The mission manager before any emitter the proposal contract admits: what   *)
(* components propose over the turns, in any order, and what becomes of the    *)
(* mission. The conversation state (module ConversationTurns) is the emitter of *)
(* today; it proposes only to maintain, suspend and resume.                     *)
EXTENDS MissionManager

CONSTANTS Components,     \* the components that emit proposals
          MaxTurns,       \* bound on the turns
          MaxProposals    \* bound on the proposals, over all turns

ASSUME ComponentsAssumption == ALLOWED_PROPOSAL_COMPONENTS \subseteq Components
ASSUME BoundsAssumption == MaxTurns \in Nat /\ MaxProposals \in Nat

VARIABLES turn,         \* turn_count
          mission,      \* active_mission
          proposals,    \* mission_transition_proposals, never cleared
          decision      \* mission_transition_decision

vars == <<turn, mission, proposals, decision>>

Turns == 1..(MaxTurns + 1)

\* The mission is one loaded from a conversation state (before_kernel, second branch).
Init ==
  /\ turn = 1
  /\ \E type \in MissionType, status \in MissionStatus :
       mission = [NewMission(type) EXCEPT !.status = status]
  /\ proposals = <<>>
  /\ decision = "none"

\* What an emitter makes of the mission for each kind of transition: a new mission
\* of another type, or another status (abandon has none to ask for).
Outcomes(kind) ==
  CASE kind = "replace"  -> {NewMission(type) : type \in MissionType}
    [] kind = "complete" -> {[mission EXCEPT !.status = "completed"]}
    [] kind = "suspend"  -> {[mission EXCEPT !.status = "suspended"]}
    [] kind = "resume"   -> {[mission EXCEPT !.status = s] :
                               s \in {"gathering_information", "waiting_user"}}
    [] kind = "abandon"  -> {mission}
    [] OTHER             -> {[mission EXCEPT !.status = s] : s \in MissionStatus}
                              \union {[mission EXCEPT !.missing = {}]}

\* Two ids for the proposals of a turn: a second proposal may repeat the first.
Ids == {"one", "other"} \X Turns

\* A component proposes, sure enough or not quite.
Propose ==
  /\ turn <= MaxTurns /\ Len(proposals) < MaxProposals
  /\ IsMission(mission)
  /\ \E c \in Components, kind \in TransitionKind, short \in {0, 1}, id \in {"one", "other"} :
     \E after \in Outcomes(kind) :
        proposals' = Append(proposals,
          [id         |-> <<id, turn>>,
           component  |-> c,
           turn       |-> turn,
           kind       |-> kind,
           confidence |-> MINIMUM_CONFIDENCE[kind] - short,
           before     |-> mission,
           after      |-> after,
           changes    |-> {f \in DeltaField : after[f] # mission[f]}])
  /\ UNCHANGED <<turn, mission, decision>>

\* before_kernel with a mission: the turn ends with a decision.
Decide ==
  /\ turn <= MaxTurns
  /\ IsMission(mission)
  /\ \E d \in Decisions(mission, proposals, turn) :
       /\ mission' = d.mission
       /\ decision' = d.kind
  /\ turn' = turn + 1
  /\ UNCHANGED proposals

\* before_kernel without one: after an abandon a mission is created afresh.
Create ==
  /\ turn <= MaxTurns
  /\ ~ IsMission(mission)
  /\ \E type \in MissionType : mission' = NewMission(type)
  /\ decision' = "none"
  /\ turn' = turn + 1
  /\ UNCHANGED proposals

Next == Propose \/ Decide \/ Create

Spec == Init /\ [][Next]_vars

-----------------------------------------------------------------------------
Sure(p) == p.confidence >= MINIMUM_CONFIDENCE[p.kind]

\* The order in which emitters appended two proposals of different kinds, or two
\* sure proposals to maintain, does not matter to the decision.
OrderDoesNotMatter ==
  (/\ IsMission(mission) /\ Len(proposals) = 2 /\ proposals[1].id # proposals[2].id
   /\ \/ proposals[1].kind # proposals[2].kind
      \/ proposals[1].kind = "maintain" /\ Sure(proposals[1]) /\ Sure(proposals[2])) =>
     Decisions(mission, proposals, turn)
       = Decisions(mission, <<proposals[2], proposals[1]>>, turn)

=============================================================================
