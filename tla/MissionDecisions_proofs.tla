----------------------- MODULE MissionDecisions_proofs -----------------------
(* For any components and any proposals they may emit, however many turns there *)
(* are: the order in which two proposals of a turn were appended is no evidence. *)
EXTENDS MissionDecisions, SequenceTheorems, TLAPS

Emitted == Proposals(Ids, Components, Turns)

\* The proposal a component appends (see Propose).
ProposalOf(c, kind, short, id, after) ==
          [id         |-> <<id, turn>>,
           component  |-> c,
           turn       |-> turn,
           kind       |-> kind,
           confidence |-> MINIMUM_CONFIDENCE[kind] - short,
           before     |-> mission,
           after      |-> after,
           changes    |-> {f \in DeltaField : after[f] # mission[f]}]

\* The proposals of this turn were all made from the mission as it is: a mission
\* changes only when the turn ends.
ProposalInv ==
  /\ turn \in Turns /\ mission \in Mission
  /\ proposals \in Seq(Emitted)
  /\ \A i \in DOMAIN proposals :
       /\ proposals[i].turn <= turn
       /\ proposals[i].turn = turn => proposals[i].before = mission

-----------------------------------------------------------------------------
\* Two lists of which the same proposals are looked at.
Mirrors(P, I, Q, J) ==
  /\ \A i \in I : \E j \in J : P[i] = Q[j]
  /\ \A j \in J : \E i \in I : P[i] = Q[j]

\* A field of the merge depends on which proposals are laid over the snapshot only.
LEMMA SameField ==
  ASSUME NEW P, NEW I, NEW Q, NEW J, Mirrors(P, I, Q, J), NEW w, NEW v, P[w].before = Q[v].before,
         NEW f
  PROVE  MergedField(P, I, w, f) = MergedField(Q, J, v, f)
<1>1. {P[j].after[f] : j \in {k \in I : f \in P[k].changes}}
        = {Q[j].after[f] : j \in {k \in J : f \in Q[k].changes}}
  BY DEF Mirrors
<1>2. (\E j \in I : f \in P[j].changes) <=> \E j \in J : f \in Q[j].changes
  BY DEF Mirrors
<1> QED BY <1>1, <1>2 DEF MergedField

\* What is merged, and from what, is the same.
LEMMA SameEvidence ==
  ASSUME NEW P, NEW I, NEW Q, NEW J, Mirrors(P, I, Q, J), NEW w, NEW v, P[w].before = Q[v].before
  PROVE  /\ Merged(P, I, w) = Merged(Q, J, v)
         /\ UNION {P[j].changes : j \in I} = UNION {Q[j].changes : j \in J}
         /\ Conflict(P, I) <=> Conflict(Q, J)
<1>1. \A f : MergedField(P, I, w, f) = MergedField(Q, J, v, f)
  BY SameField
<1>f. PICK s, m, l : /\ s = MergedField(P, I, w, "status")
                     /\ m = MergedField(P, I, w, "missing")
                     /\ l = MergedField(P, I, w, "slots")
  OBVIOUS
<1>g. /\ s = MergedField(Q, J, v, "status")
      /\ m = MergedField(Q, J, v, "missing")
      /\ l = MergedField(Q, J, v, "slots")
  BY <1>f, <1>1
<1>h. PICK b : b = P[w].before
  OBVIOUS
<1>a. Merged(P, I, w) = [b EXCEPT !.status = s, !.missing = m, !.slots = l]
  BY <1>f, <1>h, Zenon DEF Merged
<1>b. Merged(Q, J, v) = [b EXCEPT !.status = s, !.missing = m, !.slots = l]
  BY <1>g, <1>h, Zenon DEF Merged
<1>2. Merged(P, I, w) = Merged(Q, J, v)
  BY <1>a, <1>b, Zenon
<1>3. UNION {P[j].changes : j \in I} = UNION {Q[j].changes : j \in J}
  <2>1. ASSUME NEW f PROVE (\E j \in I : f \in P[j].changes) <=> \E j \in J : f \in Q[j].changes
    BY DEF Mirrors
  <2> QED BY <2>1
<1>4. ASSUME Conflict(P, I) PROVE Conflict(Q, J)
  <2>1. PICK i \in I, j \in I, f \in DeltaField :
          f \in P[i].changes \intersect P[j].changes /\ P[i].after[f] # P[j].after[f]
    BY <1>4 DEF Conflict
  <2>2. PICK x \in J, y \in J : P[i] = Q[x] /\ P[j] = Q[y]
    BY DEF Mirrors
  <2> QED BY <2>1, <2>2 DEF Conflict
<1>5. ASSUME Conflict(Q, J) PROVE Conflict(P, I)
  <2>1. PICK i \in J, j \in J, f \in DeltaField :
          f \in Q[i].changes \intersect Q[j].changes /\ Q[i].after[f] # Q[j].after[f]
    BY <1>5 DEF Conflict
  <2>2. PICK x \in I, y \in I : P[x] = Q[i] /\ P[y] = Q[j]
    BY DEF Mirrors
  <2> QED BY <2>1, <2>2 DEF Conflict
<1> QED BY <1>2, <1>3, <1>4, <1>5

\* Whether a transition is legal depends on what the evidence changes and to what status.
LEMMA SameLegality ==
  ASSUME NEW kind, NEW current, NEW e, NEW d, e.changes = d.changes, e.after = d.after
  PROVE  IsLegalTransition(kind, current, e) <=> IsLegalTransition(kind, current, d)
BY DEF IsLegalTransition

\* The evidence of a decision carries what was put into it.
LEMMA EvidenceFields ==
  ASSUME NEW p, {"after", "changes"} \subseteq DOMAIN p, NEW a, NEW c
  PROVE  /\ [p EXCEPT !.after = a, !.changes = c].after = a
         /\ [p EXCEPT !.after = a, !.changes = c].changes = c
BY Zenon

\* So winners of one kind and of one worth get one verdict.
LEMMA SameVerdict ==
  ASSUME NEW m, NEW P, NEW C, NEW Q, NEW D, Mirrors(P, C, Q, D), NEW w, NEW v,
         {"after", "changes"} \subseteq DOMAIN P[w], {"after", "changes"} \subseteq DOMAIN Q[v],
         P[w].before = Q[v].before, P[w].kind = Q[v].kind,
         P[w].confidence < MINIMUM_CONFIDENCE[P[w].kind]
           <=> Q[v].confidence < MINIMUM_CONFIDENCE[Q[v].kind],
         P[w].kind = "maintain" \/ P[w] = Q[v]
  PROVE  Verdict(m, P, C, w) = Verdict(m, Q, D, v)
<1>k. PICK kind : kind = P[w].kind
  OBVIOUS
<1>i. PICK I, J : /\ I = IF kind = "maintain" THEN C ELSE {w}
                  /\ J = IF kind = "maintain" THEN D ELSE {v}
  OBVIOUS
<1>1. Mirrors(P, I, Q, J)
  BY <1>k, <1>i DEF Mirrors
<1>m. PICK merged, changes : merged = Merged(P, I, w) /\ changes = UNION {P[j].changes : j \in I}
  OBVIOUS
<1>2. merged = Merged(Q, J, v) /\ changes = UNION {Q[j].changes : j \in J}
  BY <1>1, <1>m, SameEvidence
<1>3. Conflict(P, C) <=> Conflict(Q, D)
  BY SameEvidence
<1>e. PICK e, d : /\ e = [P[w] EXCEPT !.after = merged, !.changes = changes]
                  /\ d = [Q[v] EXCEPT !.after = merged, !.changes = changes]
  OBVIOUS
<1>4. e.after = d.after /\ e.changes = d.changes
  BY <1>e, EvidenceFields
<1>5. IsLegalTransition(kind, m.status, e) <=> IsLegalTransition(kind, m.status, d)
  BY <1>4, SameLegality
<1> DEFINE Refused(c, p, x) ==
             \/ kind = "maintain" /\ c
             \/ AlreadyTerminal(m, kind)
             \/ kind = "replace" /\ IsMission(m) /\ p.after.type = m.type
             \/ p.confidence < MINIMUM_CONFIDENCE[kind]
             \/ ~IsLegalTransition(kind, m.status, x)
           Accepted(p) == [kind |-> kind, accepted |-> TRUE,
                           mission |-> CASE kind = "abandon" -> NoMission
                                         [] kind = "replace" -> p.after
                                         [] OTHER            -> merged]
<1>6. Verdict(m, P, C, w) =
        IF Refused(Conflict(P, C), P[w], e) THEN Rejected(m) ELSE Accepted(P[w])
  BY <1>k, <1>i, <1>m, <1>e, Zenon DEF Verdict
<1>7. Verdict(m, Q, D, v) =
        IF Refused(Conflict(Q, D), Q[v], d) THEN Rejected(m) ELSE Accepted(Q[v])
  BY <1>k, <1>i, <1>2, <1>e, Zenon DEF Verdict
<1>8. Refused(Conflict(P, C), P[w], e) <=> Refused(Conflict(Q, D), Q[v], d)
  BY <1>k, <1>3, <1>5
<1>9. Accepted(P[w]) = Accepted(Q[v])
  BY <1>k, Zenon
<1> HIDE DEF Refused, Accepted
<1> QED BY <1>6, <1>7, <1>8, <1>9

\* No two kinds have the same precedence.
LEMMA PrecedenceIsStrict ==
  ASSUME NEW k \in TransitionKind, NEW l \in TransitionKind,
         TRANSITION_PRECEDENCE[k] = TRANSITION_PRECEDENCE[l]
  PROVE  k = l
BY DEF TransitionKind, TRANSITION_PRECEDENCE

\* What a decision of one list may be, one of the swapped list may be.
LEMMA SwappedDecision ==
  ASSUME NEW t, NEW m, NEW a, NEW b, a.id # b.id,
         \A p \in {a, b} : /\ {"after", "changes"} \subseteq DOMAIN p
                           /\ p.kind \in TransitionKind /\ p.confidence \in 0..100
                           /\ p.turn = t => p.before = m,
         \/ a.kind # b.kind
         \/ a.kind = "maintain" /\ b.kind = "maintain" /\ Sure(a) /\ Sure(b),
         NEW d \in Decisions(m, <<a, b>>, t)
  PROVE  d \in Decisions(m, <<b, a>>, t)
<1>p. PICK P, Q : P = <<a, b>> /\ Q = <<b, a>>
  OBVIOUS
<1>q. /\ DOMAIN P = {1, 2} /\ P[1] = a /\ P[2] = b
      /\ DOMAIN Q = {1, 2} /\ Q[1] = b /\ Q[2] = a
  BY <1>p
<1> DEFINE Counts(p) == p.component \in ALLOWED_PROPOSAL_COMPONENTS /\ p.turn = t
<1>c. PICK C, D : C = Candidates(P, t) /\ D = Candidates(Q, t)
  OBVIOUS
<1>1. /\ C = {i \in {1, 2} : Counts(P[i])}
      /\ D = {i \in {1, 2} : Counts(Q[i])}
  BY <1>q, <1>c DEF Candidates
<1> DEFINE Other(i) == IF i = 1 THEN 2 ELSE 1
<1>2. /\ \A i \in C : Other(i) \in D /\ P[i] = Q[Other(i)]
      /\ \A i \in D : Other(i) \in C /\ Q[i] = P[Other(i)]
  <2> HIDE DEF Counts
  <2> QED BY <1>1, <1>q
<1>3. Mirrors(P, C, Q, D) /\ (C = {} <=> D = {})
  BY <1>2, Zenon DEF Mirrors
<1>4. C \subseteq {1, 2} /\ D \subseteq {1, 2}
  BY <1>1
<1>5. \A i \in C : P[i].turn = t /\ P[i] \in {a, b}
  BY <1>1, <1>q
<1>6. \A i \in D : Q[i].turn = t /\ Q[i] \in {a, b}
  BY <1>1, <1>q
<1>7. CASE C = {}
  BY <1>7, <1>3, <1>p, <1>c, Zenon DEF Decisions
<1>8. CASE C # {}
  <2>1. PICK w \in Winners(P, C) : d = Verdict(m, P, C, w)
    BY <1>8, <1>p, <1>c, Zenon DEF Decisions
  <2>2. w \in C /\ \A j \in C :
          \/ TRANSITION_PRECEDENCE[P[j].kind] < TRANSITION_PRECEDENCE[P[w].kind]
          \/ TRANSITION_PRECEDENCE[P[j].kind] = TRANSITION_PRECEDENCE[P[w].kind] /\ w <= j
    BY DEF Winners
  <2>3. \E v \in Winners(Q, D) : /\ P[w].kind = Q[v].kind
                                 /\ P[w] = Q[v] \/ (P[w].kind = "maintain" /\ Sure(P[w]) /\ Sure(Q[v]))
    <3>1. CASE a.kind # b.kind
      <4>1. Other(w) \in D /\ P[w] = Q[Other(w)]
        BY <2>2, <1>2
      <4>2. ASSUME NEW j \in D, j # Other(w)
            PROVE  TRANSITION_PRECEDENCE[Q[j].kind] < TRANSITION_PRECEDENCE[P[w].kind]
        <5>1. Other(j) \in C /\ Q[j] = P[Other(j)]
          BY <1>2
        <5>2. Q[j].kind # P[w].kind
          BY <4>2, <3>1, <1>q, <1>4, <2>2
        <5>3. Q[j].kind \in TransitionKind /\ P[w].kind \in TransitionKind
          BY <1>5, <1>6, <2>2
        <5>4. TRANSITION_PRECEDENCE[Q[j].kind] # TRANSITION_PRECEDENCE[P[w].kind]
          BY <5>2, <5>3, PrecedenceIsStrict
        <5> QED BY <5>1, <5>4, <2>2
      <4>3. Other(w) \in Winners(Q, D)
        <5>1. PICK v : v = Other(w)
          OBVIOUS
        <5>2. v \in Nat
          BY <5>1
        <5> QED BY <4>1, <4>2, <5>1, <5>2 DEF Winners
      <4> QED BY <4>1, <4>3
    <3>2. CASE a.kind = "maintain" /\ b.kind = "maintain" /\ Sure(a) /\ Sure(b)
      <4>1. PICK v \in D : \A j \in D : v <= j
        <5>1. CASE 1 \in D
          <6>1. \A j \in D : 1 <= j
            BY <1>4
          <6> QED BY <5>1, <6>1
        <5>2. CASE 1 \notin D
          <6>1. PICK j \in D : TRUE
            BY <1>2, <2>2
          <6>2. \A k \in D : k = 2
            BY <5>2, <1>4
          <6> QED BY <6>1, <6>2
        <5> QED BY <5>1, <5>2
      <4>2. \A j \in D : Q[j].kind = "maintain" /\ Sure(Q[j])
        BY <3>2, <1>6
      <4>3. v \in Winners(Q, D)
        BY <4>1, <4>2 DEF Winners
      <4>4. P[w].kind = "maintain" /\ Sure(P[w])
        BY <3>2, <1>5, <2>2
      <4> QED BY <4>2, <4>3, <4>4
    <3> QED BY <3>1, <3>2
  <2>4. PICK v \in Winners(Q, D) :
          /\ P[w].kind = Q[v].kind
          /\ P[w] = Q[v] \/ (P[w].kind = "maintain" /\ Sure(P[w]) /\ Sure(Q[v]))
    BY <2>3
  <2>5. v \in D
    BY DEF Winners
  <2>6. /\ P[w].before = m /\ Q[v].before = m
        /\ {"after", "changes"} \subseteq DOMAIN P[w] /\ {"after", "changes"} \subseteq DOMAIN Q[v]
    BY <1>5, <1>6, <2>2, <2>5
  <2>7. /\ P[w].confidence < MINIMUM_CONFIDENCE[P[w].kind]
             <=> Q[v].confidence < MINIMUM_CONFIDENCE[Q[v].kind]
        /\ P[w].kind = "maintain" \/ P[w] = Q[v]
    <3>1. /\ P[w].kind \in TransitionKind /\ P[w].confidence \in 0..100
          /\ Q[v].confidence \in 0..100
      BY <1>5, <1>6, <2>2, <2>5
    <3>2. MINIMUM_CONFIDENCE[P[w].kind] \in Nat
      BY <3>1 DEF MINIMUM_CONFIDENCE, TransitionKind
    <3>3. CASE P[w] = Q[v]
      BY <3>3, Zenon
    <3>4. CASE P[w].kind = "maintain" /\ Sure(P[w]) /\ Sure(Q[v])
      BY <3>1, <3>2, <3>4, <2>4 DEF Sure
    <3> QED BY <3>3, <3>4, <2>4
  <2>8. Verdict(m, P, C, w) = Verdict(m, Q, D, v)
    BY <1>3, <2>4, <2>6, <2>7, SameVerdict
  <2> QED BY <2>1, <2>8, <1>8, <1>3, <1>p, <1>c, Zenon DEF Decisions
<1> QED BY <1>7, <1>8

-----------------------------------------------------------------------------
\* What emitters make of a mission, and what a decision makes of it, is a mission.

\* A new mission, and none, are missions.
LEMMA FreshMissionType ==
  ASSUME NEW type \in MissionType
  PROVE  NewMission(type) \in Mission /\ NoMission \in Mission
BY DEF NewMission, NoMission, Mission, NoSlots, MissionStatus, SlotState, Slot, NoType, MissionType

\* What an emitter asks for is a mission.
LEMMA OutcomesType ==
  ASSUME mission \in Mission, NEW kind \in TransitionKind, NEW after \in Outcomes(kind)
  PROVE  after \in Mission
<1>1. \A s \in MissionStatus : [mission EXCEPT !.status = s] \in Mission
  BY DEF Mission
<1>2. [mission EXCEPT !.missing = {}] \in Mission
  BY DEF Mission
<1>3. {"completed", "suspended", "gathering_information", "waiting_user"} \subseteq MissionStatus
  BY DEF MissionStatus
<1>4. \/ \E type \in MissionType : after = NewMission(type)
      \/ \E s \in MissionStatus : after = [mission EXCEPT !.status = s]
      \/ after = mission
      \/ after = [mission EXCEPT !.missing = {}]
  <2>1. CASE kind = "replace"
    BY <2>1, Zenon DEF Outcomes
  <2>2. CASE kind = "complete"
    BY <2>2, <1>3, Zenon DEF Outcomes
  <2>3. CASE kind = "suspend"
    BY <2>3, <1>3, Zenon DEF Outcomes
  <2>4. CASE kind = "resume"
    <3>1. Outcomes(kind) = {[mission EXCEPT !.status = s] : s \in {"gathering_information", "waiting_user"}}
      BY <2>4, Zenon DEF Outcomes
    <3> QED BY <3>1, <1>3
  <2>5. CASE kind = "abandon"
    BY <2>5, Zenon DEF Outcomes
  <2>6. CASE kind = "maintain"
    <3>1. Outcomes(kind) = {[mission EXCEPT !.status = s] : s \in MissionStatus}
                              \union {[mission EXCEPT !.missing = {}]}
      BY <2>6, Zenon DEF Outcomes
    <3> QED BY <3>1
  <2> QED BY <2>1, <2>2, <2>3, <2>4, <2>5, <2>6 DEF TransitionKind
<1> QED BY <1>1, <1>2, <1>4, FreshMissionType

\* The fields of an emitted proposal.
LEMMA EmittedFields ==
  ASSUME NEW p \in Emitted
  PROVE  /\ p.before \in Mission /\ p.after \in Mission
         /\ p.kind \in TransitionKind /\ p.confidence \in 0..100
         /\ {"after", "changes"} \subseteq DOMAIN p
BY DEF Emitted, Proposals

\* Merging emitted proposals makes a mission.
LEMMA MergeType ==
  ASSUME NEW P \in Seq(Emitted), NEW I \in SUBSET DOMAIN P, NEW w \in DOMAIN P
  PROVE  Merged(P, I, w) \in Mission
<1>1. \A j \in DOMAIN P : P[j].before \in Mission /\ P[j].after \in Mission
  BY EmittedFields
<1>2. \A f : \E source \in Mission : MergedField(P, I, w, f) = source[f]
  <2> SUFFICES ASSUME NEW f PROVE \E source \in Mission : MergedField(P, I, w, f) = source[f]
    OBVIOUS
  <2>1. CASE \E j \in I : f \in P[j].changes
    <3> DEFINE V == {P[j].after[f] : j \in {k \in I : f \in P[k].changes}}
    <3>1. MergedField(P, I, w, f) = CHOOSE v \in V : TRUE
      BY <2>1, Zenon DEF MergedField
    <3>2. \E v : v \in V
      BY <2>1
    <3>3. (CHOOSE v \in V : TRUE) \in V
      <4> HIDE DEF V
      <4> QED BY <3>2
    <3> QED BY <3>1, <3>3, <1>1
  <2>2. CASE ~ \E j \in I : f \in P[j].changes
    <3>1. MergedField(P, I, w, f) = P[w].before[f]
      BY <2>2, Zenon DEF MergedField
    <3> QED BY <3>1, <1>1
  <2> QED BY <2>1, <2>2
<1>3. MergedField(P, I, w, "status") \in MissionStatus
  BY <1>2 DEF Mission
<1>4. MergedField(P, I, w, "missing") \in SUBSET Slot
  BY <1>2 DEF Mission
<1>5. MergedField(P, I, w, "slots") \in [Slot -> SlotState]
  BY <1>2 DEF Mission
<1> QED BY <1>1, <1>3, <1>4, <1>5 DEF Merged, Mission

\* A decision leaves a mission.
LEMMA DecidedType ==
  ASSUME NEW m \in Mission, NEW P \in Seq(Emitted), NEW t, NEW d \in Decisions(m, P, t)
  PROVE  d.mission \in Mission
<1>c. PICK C : C = Candidates(P, t)
  OBVIOUS
<1>1. CASE C = {}
  BY <1>c, <1>1 DEF Decisions
<1>2. CASE C # {}
  <2>1. PICK i \in Winners(P, C) : d = Verdict(m, P, C, i)
    BY <1>c, <1>2, Zenon DEF Decisions
  <2>2. i \in C /\ C \subseteq DOMAIN P
    BY <1>c DEF Winners, Candidates
  <2>3. PICK merged : merged = Merged(P, IF P[i].kind = "maintain" THEN C ELSE {i}, i)
    OBVIOUS
  <2>4. merged \in Mission
    BY <2>2, <2>3, MergeType
  <2>5. P[i].after \in Mission
    BY <2>2, EmittedFields
  <2>6. d.mission \in {m, NoMission, P[i].after, merged}
    BY <2>1, <2>3 DEF Verdict, Rejected
  <2>7. NoMission \in Mission
    BY DEF NoMission, Mission, NoSlots, MissionStatus, SlotState, Slot, NoType
  <2> QED BY <2>4, <2>5, <2>6, <2>7
<1> QED BY <1>1, <1>2

-----------------------------------------------------------------------------
\* The invariant holds of a loaded mission, before any proposal.
LEMMA InitProposalInv == Init => ProposalInv
<1> SUFFICES ASSUME Init PROVE ProposalInv
  OBVIOUS
<1>1. turn \in Turns
  BY BoundsAssumption DEF Init, Turns
<1>2. mission \in Mission
  <2>1. PICK type \in MissionType, status \in MissionStatus :
          mission = [NewMission(type) EXCEPT !.status = status]
    BY DEF Init
  <2>2. NewMission(type) \in Mission
    BY FreshMissionType
  <2> QED BY <2>1, <2>2 DEF Mission
<1> QED BY <1>1, <1>2 DEF Init, ProposalInv

\* A proposal is made from the mission as it is.
LEMMA ProposeKeeps ==
  ASSUME ProposalInv, Propose
  PROVE  ProposalInv'
<1>a. PICK c \in Components, kind \in TransitionKind, short \in {0, 1}, id \in {"one", "other"} :
        \E after \in Outcomes(kind) :
          proposals' = Append(proposals, ProposalOf(c, kind, short, id, after))
  BY Zenon DEF Propose, ProposalOf
<1>b. PICK after \in Outcomes(kind) :
        proposals' = Append(proposals, ProposalOf(c, kind, short, id, after))
  BY <1>a
<1>c. PICK p : p = ProposalOf(c, kind, short, id, after)
  OBVIOUS
<1>1. proposals' = Append(proposals, p)
  BY <1>b, <1>c
<1>2. UNCHANGED <<turn, mission>>
  BY DEF Propose
<1>4. p \in Emitted
  <2>1. after \in Mission
    BY OutcomesType DEF ProposalInv
  <2>2. MINIMUM_CONFIDENCE[kind] - short \in 0..100
    BY DEF MINIMUM_CONFIDENCE, TransitionKind
  <2>3. <<id, turn>> \in Ids
    BY DEF ProposalInv, Ids
  <2>4. {f \in DeltaField : after[f] # mission[f]} \in SUBSET DeltaField
    OBVIOUS
  <2>5. turn \in Turns /\ mission \in Mission
    BY DEF ProposalInv
  <2> QED BY <1>c, <2>1, <2>2, <2>3, <2>4, <2>5 DEF ProposalOf, Emitted, Proposals
<1>5. /\ proposals' \in Seq(Emitted)
      /\ DOMAIN proposals' = 1..(Len(proposals) + 1)
      /\ \A i \in DOMAIN proposals' : proposals'[i] = IF i <= Len(proposals) THEN proposals[i] ELSE p
  BY <1>1, <1>4 DEF ProposalInv
<1>6. p.turn = turn /\ p.before = mission
  BY <1>c DEF ProposalOf
<1>7. turn \in Nat
  BY BoundsAssumption DEF ProposalInv, Turns
<1> QED BY <1>2, <1>5, <1>6, <1>7 DEF ProposalInv

\* The end of a turn leaves no proposal of the turn that begins.
LEMMA LaterTurn ==
  ASSUME ProposalInv, turn <= MaxTurns, turn' = turn + 1, proposals' = proposals, mission' \in Mission
  PROVE  ProposalInv'
<1>1. turn' \in Turns
  BY BoundsAssumption DEF ProposalInv, Turns
<1>2. \A i \in DOMAIN proposals : proposals[i].turn \in Nat
  <2>1. \A i \in DOMAIN proposals : proposals[i] \in Emitted
    BY DEF ProposalInv
  <2> QED BY <2>1, BoundsAssumption DEF Emitted, Proposals, Turns
<1>3. turn \in Nat
  BY BoundsAssumption DEF ProposalInv, Turns
<1> QED BY <1>1, <1>2, <1>3 DEF ProposalInv

\* So the invariant holds throughout.
LEMMA ProposalInvariant == Spec => []ProposalInv
<1>1. Init => ProposalInv
  BY InitProposalInv
<1>2. ProposalInv /\ [Next]_vars => ProposalInv'
  <2> SUFFICES ASSUME ProposalInv, [Next]_vars PROVE ProposalInv'
    OBVIOUS
  <2>1. CASE Propose
    BY <2>1, ProposeKeeps
  <2>2. CASE Decide
    <3>1. PICK d \in Decisions(mission, proposals, turn) : mission' = d.mission
      BY <2>2 DEF Decide
    <3>2. mission' \in Mission
      BY <3>1, DecidedType DEF ProposalInv
    <3> QED BY <2>2, <3>2, LaterTurn DEF Decide
  <2>3. CASE Create
    <3>1. mission' \in Mission
      BY <2>3, FreshMissionType DEF Create
    <3> QED BY <2>3, <3>1, LaterTurn DEF Create
  <2>4. CASE UNCHANGED vars
    BY <2>4 DEF vars, ProposalInv
  <2> QED BY <2>1, <2>2, <2>3, <2>4 DEF Next
<1> QED BY <1>1, <1>2, PTL DEF Spec

\* Whatever components propose: of two proposals of a turn that are of different
\* kinds, or are sure and maintain the mission, it does not matter which one
\* before_kernel finds first in mission_transition_proposals.
THEOREM OrderNeverMatters == Spec => []OrderDoesNotMatter
<1>1. ASSUME ProposalInv PROVE OrderDoesNotMatter
  <2> SUFFICES ASSUME Len(proposals) = 2, proposals[1].id # proposals[2].id,
                      \/ proposals[1].kind # proposals[2].kind
                      \/ proposals[1].kind = "maintain" /\ Sure(proposals[1]) /\ Sure(proposals[2])
               PROVE  Decisions(mission, proposals, turn)
                        = Decisions(mission, <<proposals[2], proposals[1]>>, turn)
    BY DEF OrderDoesNotMatter
  <2>1. PICK a, b : a = proposals[1] /\ b = proposals[2]
    OBVIOUS
  <2>2. proposals = <<a, b>> /\ a \in Emitted /\ b \in Emitted
    <3>1. proposals \in Seq(Emitted)
      BY <1>1 DEF ProposalInv
    <3>2. DOMAIN proposals = {1, 2}
      BY <3>1
    <3>3. a \in Emitted /\ b \in Emitted
      BY <2>1, <3>1, <3>2
    <3>4. PICK s : s = <<a, b>>
      OBVIOUS
    <3>5. s \in Seq(Emitted) /\ Len(s) = 2 /\ s[1] = a /\ s[2] = b
      BY <3>3, <3>4
    <3>6. \A i \in 1..Len(proposals) : proposals[i] = s[i]
      BY <2>1, <3>5
    <3> QED BY <3>1, <3>3, <3>4, <3>5, <3>6, SeqEqual
  <2>3. \A p \in {a, b} : /\ {"after", "changes"} \subseteq DOMAIN p
                          /\ p.kind \in TransitionKind /\ p.confidence \in 0..100
                          /\ p.turn = turn => p.before = mission
    <3>1. \A p \in {a, b} : /\ {"after", "changes"} \subseteq DOMAIN p
                            /\ p.kind \in TransitionKind /\ p.confidence \in 0..100
      BY <2>2, EmittedFields
    <3>2. \A p \in {a, b} : p.turn = turn => p.before = mission
      BY <1>1, <2>1, <2>2 DEF ProposalInv
    <3> QED BY <3>1, <3>2
  <2>4. \/ a.kind # b.kind
        \/ a.kind = "maintain" /\ b.kind = "maintain" /\ Sure(a) /\ Sure(b)
    BY <2>1
  <2>5. \/ b.kind # a.kind
        \/ b.kind = "maintain" /\ a.kind = "maintain" /\ Sure(b) /\ Sure(a)
    BY <2>4
  <2>6. a.id # b.id
    BY <2>1
  <2>7. \A d \in Decisions(mission, <<a, b>>, turn) : d \in Decisions(mission, <<b, a>>, turn)
    BY <2>3, <2>4, <2>6, SwappedDecision
  <2>8. \A d \in Decisions(mission, <<b, a>>, turn) : d \in Decisions(mission, <<a, b>>, turn)
    BY <2>3, <2>5, <2>6, SwappedDecision
  <2>9. Decisions(mission, <<a, b>>, turn) = Decisions(mission, <<b, a>>, turn)
    BY <2>7, <2>8
  <2> QED BY <2>1, <2>2, <2>9
<1>2. Spec => []ProposalInv
  BY ProposalInvariant
<1> QED BY <1>1, <1>2, PTL
=============================================================================
