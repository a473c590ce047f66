--------------------------- MODULE MissionManager ---------------------------
(* How the mission manager decides: proposals are inert evidence, at most one *)
(* of a turn wins, and only its acceptance changes the mission.               *)
EXTENDS MissionLifecycle

TransitionKind == {"maintain", "complete", "suspend", "resume", "replace", "abandon"}

TRANSITION_PRECEDENCE ==
  [abandon |-> 6, replace |-> 5, complete |-> 4, suspend |-> 3, resume |-> 2, maintain |-> 1]

\* Confidences are percentages.
MINIMUM_CONFIDENCE ==
  [maintain |-> 50, resume |-> 65, suspend |-> 65, complete |-> 75,
   replace  |-> 85, abandon |-> 85]

ALLOWED_PROPOSAL_COMPONENTS == {"conversation_state"}

\* The fields of a mission that a proposal's mission_delta may set.
DeltaField == {"status", "missing", "slots"}

\* mission_delta is the restriction of "after" to "changes"; "before" is the
\* snapshot of the mission the emitter computed it from.
Proposals(Ids, Components, Turns) ==
  [id         : Ids,
   component  : Components,
   turn       : Turns,
   kind       : TransitionKind,
   confidence : 0..100,
   before     : Mission,
   after      : Mission,
   changes    : SUBSET DeltaField]

\* Mutants of Candidates: the evidence of any turn, or of any component.
CandidatesOfAnyTurn(proposals, turn) ==
  {i \in DOMAIN proposals :
     /\ \A j \in DOMAIN proposals : j < i => proposals[j].id # proposals[i].id
     /\ proposals[i].component \in ALLOWED_PROPOSAL_COMPONENTS}

\* A proposal seen earlier in the list under the same id is skipped; the others
\* are candidates when the emitter is allowed and the evidence is of this turn.
Candidates(proposals, turn) ==
  {i \in DOMAIN proposals :
     /\ \A j \in DOMAIN proposals : j < i => proposals[j].id # proposals[i].id
     /\ proposals[i].component \in ALLOWED_PROPOSAL_COMPONENTS
     /\ proposals[i].turn = turn}

\* Mutant of Winners: first come, first served.
FirstCandidates(proposals, candidates) ==
  {i \in candidates : \A j \in candidates : i <= j}

\* The head of the stable sort by descending precedence.
Winners(proposals, candidates) ==
  {i \in candidates : \A j \in candidates :
     LET pi == TRANSITION_PRECEDENCE[proposals[i].kind]
         pj == TRANSITION_PRECEDENCE[proposals[j].kind]
     IN  pj < pi \/ (pj = pi /\ i <= j)}

\* Two maintain proposals of one turn that set a field to different values.
Conflict(proposals, candidates) ==
  \E i, j \in candidates : \E f \in DeltaField :
     /\ f \in proposals[i].changes \intersect proposals[j].changes
     /\ proposals[i].after[f] # proposals[j].after[f]

\* The value a field takes when the deltas of the proposals at "indices" are laid
\* over the snapshot of the winner.
MergedField(proposals, indices, winner, f) ==
  IF \E j \in indices : f \in proposals[j].changes
  THEN CHOOSE v \in {proposals[j].after[f] : j \in {k \in indices : f \in proposals[k].changes}} : TRUE
  ELSE proposals[winner].before[f]

Merged(proposals, indices, winner) ==
  [proposals[winner].before EXCEPT
     !.status  = MergedField(proposals, indices, winner, "status"),
     !.missing = MergedField(proposals, indices, winner, "missing"),
     !.slots   = MergedField(proposals, indices, winner, "slots")]

IsLegalTransition(kind, current, proposal) ==
  CASE kind = "maintain" -> \/ "status" \notin proposal.changes
                            \/ proposal.after.status = current
                            \/ proposal.after.status \in MISSION_LIFECYCLE[current]
    [] kind = "complete" -> current \in {"ready_to_progress", "progressing"}
    [] kind = "suspend"  -> current # "suspended"
    [] kind = "resume"   -> current = "suspended"
    [] OTHER             -> TRUE

\* A completed mission is only maintained or suspended.
AlreadyTerminal(mission, kind) ==
  mission.status = "completed" /\ kind \notin {"suspend", "maintain"}

Rejected(mission) == [kind |-> "maintain", accepted |-> FALSE, mission |-> mission]

\* The verdict on the winning proposal, gate after gate. A maintain winner was merged
\* with the others, after the check that no two of them disagree.
Verdict(mission, proposals, candidates, winner) ==
  LET proposal == proposals[winner]
      kind     == proposal.kind
      indices  == IF kind = "maintain" THEN candidates ELSE {winner}
      merged   == Merged(proposals, indices, winner)
      evidence == [proposal EXCEPT
                     !.after = merged,
                     !.changes = UNION {proposals[j].changes : j \in indices}]
  IN  IF \/ kind = "maintain" /\ Conflict(proposals, candidates)
         \/ AlreadyTerminal(mission, kind)
         \/ kind = "replace" /\ IsMission(mission) /\ proposal.after.type = mission.type
         \/ proposal.confidence < MINIMUM_CONFIDENCE[kind]
         \/ ~IsLegalTransition(kind, mission.status, evidence)
      THEN Rejected(mission)
      ELSE [kind     |-> kind,
            accepted |-> TRUE,
            mission  |-> CASE kind = "abandon" -> NoMission
                           [] kind = "replace" -> proposal.after
                           [] OTHER            -> merged]

\* The decision of a turn, as the set of the one decision the evaluation yields.
Decisions(mission, proposals, turn) ==
  LET candidates == Candidates(proposals, turn)
  IN  IF candidates = {}
      THEN {[kind |-> "maintain", accepted |-> TRUE, mission |-> mission]}
      ELSE {Verdict(mission, proposals, candidates, i) : i \in Winners(proposals, candidates)}
=============================================================================
