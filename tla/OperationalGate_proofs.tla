------------------------- MODULE OperationalGate_proofs -------------------------
(* Which calls reach a tool with effects, and how the gate answers to a better   *)
(* known case, for any tools, adapters, operations and situations.               *)
EXTENDS OperationalGate, FiniteSetTheorems, TLAPS

\* The inductive invariant: a name is free or has an adapter that may be registered.
RegistryInv == adapters \in [Tools -> Adapters \union {NoAdapter}]

-----------------------------------------------------------------------------
\* It holds at first, every step keeps it, and so it always holds.
LEMMA RegistryStart == GateInit => RegistryInv
BY DEF GateInit, Init, RegistryInv

LEMMA RegistryStep == RegistryInv /\ [GateNext]_<<vars, work>> => RegistryInv'
<1> SUFFICES ASSUME RegistryInv, [GateNext]_<<vars, work>>
             PROVE  RegistryInv'
  OBVIOUS
<1> USE DEF RegistryInv
<1>1. CASE Next
  <2>1. ASSUME NEW t \in Tools, NEW a \in Adapters, Register(t, a)
        PROVE  RegistryInv'
    BY <2>1 DEF Register
  <2>2. ASSUME NEW t \in Tools, NEW mode \in Modes \union {"unheard_of"},
               NEW evidence \in Evidence, NEW answers \in BOOLEAN,
               Execute(t, mode, evidence, answers)
        PROVE  RegistryInv'
    BY <2>2 DEF Execute
  <2> QED BY <1>1, <2>1, <2>2 DEF Next
<1>2. CASE \E s \in Situations : MapWork(s)
  BY <1>2 DEF MapWork, vars
<1>3. CASE UNCHANGED <<vars, work>>
  BY <1>3 DEF vars
<1> QED BY <1>1, <1>2, <1>3 DEF GateNext

LEMMA Registered == GateSpec => []RegistryInv
BY RegistryStart, RegistryStep, PTL DEF GateSpec

-----------------------------------------------------------------------------
\* Outside official mode the engine executes only what has no effects.
LEMMA ExecutesHarmless ==
  ASSUME NEW mode, NEW c, NEW evidence, mode # "official",
         DecideExecution(mode, c, evidence) = "execute"
  PROVE  ~c.sideEffects
BY DEF DecideExecution

\* An adapter with effects does not run its tool for any other mode.
LEMMA RunsOfficially ==
  ASSUME NEW a \in Adapters, NEW mode, NEW evidence, a.contract.sideEffects,
         Ran(a, DecideExecution(mode, a.contract, evidence), evidence)
  PROVE  mode = "official"
<1>1. a.ownDryRun # "runs" /\ a.ownReplay # "runs"
  BY AdaptersAssumption
<1>2. DecideExecution(mode, a.contract, evidence) = "execute"
  BY <1>1 DEF Ran
<1> QED BY <1>2, ExecutesHarmless

LEMMA CallsRunOfficially ==
  ASSUME RegistryInv, NEW t \in Tools, NEW mode, NEW evidence, NEW answers,
         Execute(t, mode, evidence, answers), last'.ran, adapters[t].contract.sideEffects
  PROVE  last'.mode = "official"
<1>1. CASE adapters[t] = NoAdapter
  <2>1. ~ last'.ran
    BY <1>1 DEF Execute, NoExecution
  <2> QED BY <2>1
<1>2. CASE adapters[t] # NoAdapter
  <2> DEFINE action == DecideExecution(mode, adapters[t].contract, evidence)
  <2>1. adapters[t] \in Adapters
    BY <1>2 DEF RegistryInv
  <2>2. last'.mode = mode /\ last'.ran = Ran(adapters[t], action, evidence)
    BY <1>2 DEF Execute
  <2> QED BY <2>1, <2>2, RunsOfficially
<1> QED BY <1>1, <1>2

\* Whatever adapters are registered and replaced, and in whatever order calls come, a
\* tool that changes the world is run by a call in official mode only: no shadow,
\* simulation, dry run or replay reaches it.
THEOREM EffectsNeedOfficialMode == GateSpec => EffectsOnlyOfficial
<1> DEFINE Good == \A t \in Tools :
                     (/\ last' # last /\ last'.tool = t /\ last'.ran
                      /\ adapters[t].contract.sideEffects)
                     => last'.mode = "official"
<1>1. RegistryInv /\ [GateNext]_<<vars, work>> => [Good]_vars
  <2> SUFFICES ASSUME RegistryInv, [GateNext]_<<vars, work>>,
                      NEW t \in Tools, last' # last, last'.tool = t, last'.ran,
                      adapters[t].contract.sideEffects
               PROVE  last'.mode = "official"
    OBVIOUS
  <2>1. Next
    BY DEF GateNext, MapWork, vars
  <2>2. PICK u \in Tools, mode \in Modes \union {"unheard_of"},
             evidence \in Evidence, answers \in BOOLEAN : Execute(u, mode, evidence, answers)
    BY <2>1 DEF Next, Register
  <2>3. last'.tool = u
    BY <2>2 DEF Execute, NoExecution
  <2> QED BY <2>2, <2>3, CallsRunOfficially
<1> QED BY <1>1, Registered, PTL DEF GateSpec, EffectsOnlyOfficial

-----------------------------------------------------------------------------
\* A key is missing less often when it is given.
LEMMA KeyNeverHurts ==
  ASSUME NEW profile, NEW pf, NEW key \in BOOLEAN, NEW more \in BOOLEAN, key => more,
         ~IdempotencyMissing(profile, key, pf)
  PROVE  ~IdempotencyMissing(profile, more, pf)
BY DEF IdempotencyMissing

\* An operation may be executed when each of its preconditions is met.
LEMMA AllowedExactly ==
  ASSUME NEW op, NEW known, NEW granted, NEW pf
  PROVE  ExecutionAllowed(op, known, granted, pf) <=>
           /\ Profile(op).evidence \ (known \union {"operation_evidence"}) = {}
           /\ ~(Profile(op).level >= 2 /\ "permission" \notin granted)
           /\ ToolAvailable(Profile(op), pf)
           /\ ~(Profile(op).level >= 2 /\ "user_confirmation" \notin granted)
           /\ ~(Profile(op).approval /\ "human_approval" \notin granted)
           /\ ~IdempotencyMissing(Profile(op), "idempotency_key" \in granted, pf)
           /\ ~Profile(op).manual
           /\ ~(Profile(op).regulated /\ "human_approval" \notin granted)
<1> DEFINE profile == Profile(op)
           lacking == profile.evidence \ (known \union {"operation_evidence"})
           named == {"permission_insufficient", "tool_unavailable", "confirmation_required",
                     "human_approval_required", "idempotency", "manual_only",
                     "regulatory_control_required"}
           missing(m) ==
             CASE m = "permission_insufficient" -> profile.level >= 2 /\ "permission" \notin granted
               [] m = "tool_unavailable" -> ~ToolAvailable(profile, pf)
               [] m = "confirmation_required" -> profile.level >= 2 /\ "user_confirmation" \notin granted
               [] m = "human_approval_required" -> profile.approval /\ "human_approval" \notin granted
               [] m = "idempotency" ->
                    IdempotencyMissing(profile, "idempotency_key" \in granted, pf)
               [] m = "manual_only" -> profile.manual
               [] m = "regulatory_control_required" ->
                    profile.regulated /\ "human_approval" \notin granted
<1>1. MissingPreconditions(op, known, granted, pf)
        = {"missing_evidence" : e \in lacking} \union {m \in named : missing(m)}
  BY Zenon DEF MissingPreconditions
<1>2. {"missing_evidence" : e \in lacking} = {} <=> lacking = {}
  OBVIOUS
<1>3. {m \in named : missing(m)} = {} <=> \A m \in named : ~missing(m)
  <2> HIDE DEF missing, named
  <2> QED OBVIOUS
<1>4. (\A m \in named : ~missing(m)) <=>
        /\ ~(profile.level >= 2 /\ "permission" \notin granted)
        /\ ToolAvailable(profile, pf)
        /\ ~(profile.level >= 2 /\ "user_confirmation" \notin granted)
        /\ ~(profile.approval /\ "human_approval" \notin granted)
        /\ ~IdempotencyMissing(profile, "idempotency_key" \in granted, pf)
        /\ ~profile.manual
        /\ ~(profile.regulated /\ "human_approval" \notin granted)
  <2> HIDE DEF profile
  <2> QED OBVIOUS
<1>5. ExecutionAllowed(op, known, granted, pf) <=>
        lacking = {} /\ \A m \in named : ~missing(m)
  <2> HIDE DEF missing, named, lacking
  <2> QED BY <1>1, <1>2, <1>3 DEF ExecutionAllowed
<1> QED BY <1>4, <1>5

\* What is not missing stays so with more evidence and more grants.
LEMMA PreconditionsStay ==
  ASSUME NEW op, NEW pf, NEW known, NEW more, NEW granted, NEW wider,
         known \subseteq more, granted \subseteq wider,
         ExecutionAllowed(op, known, granted, pf)
  PROVE  ExecutionAllowed(op, more, wider, pf)
<1> DEFINE here == "idempotency_key" \in granted
           there == "idempotency_key" \in wider
<1>1. /\ here \in BOOLEAN /\ there \in BOOLEAN
      /\ here => there
  OBVIOUS
<1>2. ~IdempotencyMissing(Profile(op), here, pf)
  BY AllowedExactly
<1>3. ~IdempotencyMissing(Profile(op), there, pf)
  BY <1>1, <1>2, KeyNeverHurts
<1> QED BY <1>3, AllowedExactly

\* The operation that needs documents and the one that needs a diagnosis are, with those
\* that need a case, the only ones that need what a case says.
LEMMA CaseSaysLittle ==
  ASSUME NEW op, NEW e \in Profile(op).evidence,
         e \in {"case_reference", "documents", "technical_diagnosis"}
  PROVE  \/ e = "case_reference"
         \/ e = "documents" /\ op = "associate_documentation"
         \/ e = "technical_diagnosis" /\ op = "schedule_technical_visit"
BY DEF Profile, Inform, Prepare, Plain, Needs, ManualOnly

\* Whatever a case that moves on leaves out, other than what is unsaid, was no evidence.
LEMMA MovedCaseKnowsEnough ==
  ASSUME NEW op, NEW given, NEW more, given \subseteq more,
         NEW seen \in SeenCase, NEW later \in SeenCase,
         ~(seen.loaded /\ ~later.loaded), ~Unsaid(op, more, later),
         Profile(op).evidence \ (Known(given, seen) \union {"operation_evidence"}) = {}
  PROVE  Profile(op).evidence \ (Known(more, later) \union {"operation_evidence"}) = {}
<1> SUFFICES ASSUME NEW e \in Profile(op).evidence, e # "operation_evidence", e \notin more
             PROVE  e \in CaseEvidence([seen |-> later])
  BY DEF Known
<1>1. e \in CaseEvidence([seen |-> seen])
  BY DEF Known
<1>2. e \in {"case_reference", "documents", "technical_diagnosis"}
  BY <1>1 DEF CaseEvidence
<1>3. CASE e = "case_reference"
  BY <1>1, <1>3 DEF CaseEvidence, SeenCase
<1>4. CASE e = "documents" /\ op = "associate_documentation"
  BY <1>4 DEF CaseEvidence, Unsaid
<1>5. CASE e = "technical_diagnosis" /\ op = "schedule_technical_visit"
  BY <1>5 DEF CaseEvidence, Unsaid
<1> QED BY <1>2, <1>3, <1>4, <1>5, CaseSaysLittle

\* Whatever is registered and whatever the platform says of a tool, an operation that
\* may be executed still may when more evidence is given, more is granted and the case
\* moves on, but for what the case alone said and says no more.
THEOREM MoreKeepsAllowed == GateSpec => []MoreIsNeverLess
<1>1. MoreIsNeverLess
  <2> SUFFICES \A t \in Tools, op \in Operations, granted \in SUBSET Grants :
                 \A given \in SUBSET Profile(op).evidence, pf \in Platform(t), seen \in SeenCase :
                   ExecutionAllowed(op, Known(given, seen), granted, pf) =>
                     \A g \in Grants, e \in Profile(op).evidence \union {"other"}, later \in SeenCase :
                       \/ seen.loaded /\ ~later.loaded
                       \/ Unsaid(op, given \union {e}, later)
                       \/ ExecutionAllowed(op, Known(given \union {e}, later), granted \union {g}, pf)
    BY Zenon DEF MoreIsNeverLess
  <2> TAKE t \in Tools, op \in Operations, granted \in SUBSET Grants
  <2> TAKE given \in SUBSET Profile(op).evidence, pf \in Platform(t), seen \in SeenCase
  <2> HAVE ExecutionAllowed(op, Known(given, seen), granted, pf)
  <2> TAKE g \in Grants, e \in Profile(op).evidence \union {"other"}, later \in SeenCase
  <2> SUFFICES ASSUME ~(seen.loaded /\ ~later.loaded), ~Unsaid(op, given \union {e}, later)
               PROVE  ExecutionAllowed(op, Known(given \union {e}, later), granted \union {g}, pf)
    OBVIOUS
  <2>1. Profile(op).evidence \ (Known(given, seen) \union {"operation_evidence"}) = {}
    BY AllowedExactly
  <2>2. Profile(op).evidence \ (Known(given \union {e}, later) \union {"operation_evidence"}) = {}
    BY <2>1, MovedCaseKnowsEnough
  <2>3. ExecutionAllowed(op, Known(given, seen) \union Known(given \union {e}, later),
                         granted \union {g}, pf)
    BY PreconditionsStay
  <2> DEFINE both == Known(given, seen) \union Known(given \union {e}, later)
             here == Known(given \union {e}, later)
             wider == granted \union {g}
  <2>4. ExecutionAllowed(op, both, wider, pf)
    BY <2>3
  <2> HIDE DEF both, here, wider
  <2>5. /\ ~(Profile(op).level >= 2 /\ "permission" \notin wider)
        /\ ToolAvailable(Profile(op), pf)
        /\ ~(Profile(op).level >= 2 /\ "user_confirmation" \notin wider)
        /\ ~(Profile(op).approval /\ "human_approval" \notin wider)
        /\ ~IdempotencyMissing(Profile(op), "idempotency_key" \in wider, pf)
        /\ ~Profile(op).manual
        /\ ~(Profile(op).regulated /\ "human_approval" \notin wider)
    BY <2>4, AllowedExactly
  <2>6. Profile(op).evidence \ (here \union {"operation_evidence"}) = {}
    BY <2>2 DEF here
  <2>7. ExecutionAllowed(op, here, wider, pf)
    BY <2>5, <2>6, AllowedExactly
  <2> QED BY <2>7 DEF here, wider
<1> QED BY <1>1, PTL

-----------------------------------------------------------------------------
\* An operation that needs a tool has a level at which it needs a key.
LEMMA ToolsAreKeyed ==
  ASSUME NEW op, Profile(op).tool # ""
  PROVE  Profile(op).level >= 2
BY DEF Profile, Plain, Needs, ManualOnly, Inform, Prepare

\* A record that says its operation may safely be repeated is enough to know the
\* repetition by, for every operation, key, receipt and contract: before or after its tool
\* has run, and whatever was rejected or cancelled since, it is a duplicate.
THEOREM SafeRetriesRecognised == GateSpec => []RetriesRecognised
<1>1. ASSUME NEW t \in Tools, NEW op \in Operations, NEW granted \in SUBSET Grants,
             NEW key \in {NoKey, "given"}, NEW pf \in Platform(t),
             NEW receipt \in {"none", "timeout", "partial_response", "tool_down"}
      PROVE  LET a     == Assessment(op, Profile(op).evidence, granted, pf)
                 ctx   == [Context(key, granted) EXCEPT !.receipt = receipt]
                 first == Projected(a, ctx)
                 done  == Finalized(first, [status |-> "created", tool |-> first.tool,
                                            key |-> first.key, requested |-> TRUE,
                                            replayable |-> TRUE, reversible |-> TRUE])
             IN  (first.tool # "" /\ first.safe) =>
                   \A r \in {first, done},
                      rejected \in SUBSET {"user_confirmation", "human_approval"} :
                     LET again == [ctx EXCEPT !.previous = {r}, !.rejected = rejected,
                                              !.cancelled = TRUE]
                     IN  Projected(a, again).state = "duplicate_detected_shadow"
  <2> DEFINE a      == Assessment(op, Profile(op).evidence, granted, pf)
             ctx    == [Context(key, granted) EXCEPT !.receipt = receipt]
             first  == Projected(a, ctx)
             result == [status |-> "created", tool |-> first.tool, key |-> first.key,
                        requested |-> TRUE, replayable |-> TRUE, reversible |-> TRUE]
             done   == Finalized(first, result)
  <2> SUFFICES ASSUME first.tool # "", first.safe, NEW r \in {first, done},
                      NEW rejected \in SUBSET {"user_confirmation", "human_approval"}
               PROVE  Projected(a, [ctx EXCEPT !.previous = {r}, !.rejected = rejected,
                                               !.cancelled = TRUE]).state
                        = "duplicate_detected_shadow"
    BY Zenon
  <2> DEFINE again == [ctx EXCEPT !.previous = {r}, !.rejected = rejected, !.cancelled = TRUE]
  <2>1. /\ first.tool = a.tool /\ first.operation = a.operation
        /\ first.key = LedgerKey(a, ctx) /\ first.safe = ReplaySafe(a, ctx)
    BY DEF Projected
  <2>2. a.tool # "" /\ ReplaySafe(a, ctx)
    BY <2>1
  <2>3. a.keyed
    BY <2>2, ToolsAreKeyed DEF Assessment
  <2>4. LedgerKey(a, ctx) # NoKey
    BY <2>2, <2>3 DEF ReplaySafe, Covered
  <2>5. r.key = LedgerKey(a, ctx) /\ r.operation = a.operation /\ r.tool = a.tool
    <3>1. CASE r = first
      BY <2>1, <3>1
    <3>2. CASE r = done
      <4>1. {"operation", "tool", "key"} \subseteq DOMAIN first
        BY DEF Projected
      <4>2. /\ Finalized(first, result).key = first.key
            /\ Finalized(first, result).tool = first.tool
            /\ Finalized(first, result).operation = first.operation
        <5> HIDE DEF first
        <5> QED BY <2>1, <2>4, <4>1 DEF Finalized
      <4> QED BY <2>1, <3>2, <4>2
    <3> QED BY <3>1, <3>2
  <2>6. LedgerKey(a, again) = LedgerKey(a, ctx) /\ again.previous = {r}
    BY DEF LedgerKey, Context
  <2> HIDE DEF a, ctx, first, again
  <2>7. Duplicate(a, again)
    BY <2>4, <2>5, <2>6 DEF Duplicate
  <2>8. Projected(a, again).state = "duplicate_detected_shadow"
    BY <2>7 DEF Projected, ShadowState
  <2> QED BY <2>8 DEF again
<1>2. RetriesRecognised
  BY <1>1 DEF RetriesRecognised
<1> QED BY <1>2, PTL

-----------------------------------------------------------------------------
\* The work that is looked at is nothing yet, or what the mapper made of a situation.
WorkIsMapped ==
  \/ work = NoWork
  \/ \E s \in Situations :
       work = [situation  |-> s,
               candidates |-> Candidates(s.text, s.turn, s.off),
               case       |-> CaseProjection(s.text, s.turn,
                                             Candidates(s.text, s.turn, s.off))]

\* It holds at first, every step keeps it, and so it always holds.
LEMMA MappedStart == GateInit => WorkIsMapped
BY DEF GateInit, WorkIsMapped

LEMMA MappedStep == WorkIsMapped /\ [GateNext]_<<vars, work>> => WorkIsMapped'
<1> SUFFICES ASSUME WorkIsMapped, [GateNext]_<<vars, work>>
             PROVE  WorkIsMapped'
  OBVIOUS
<1>1. CASE UNCHANGED work
  BY <1>1 DEF WorkIsMapped
<1>2. CASE \E s \in Situations : MapWork(s)
  BY <1>2, Zenon DEF MapWork, WorkIsMapped
<1> QED BY <1>1, <1>2 DEF GateNext

LEMMA Mapped == GateSpec => []WorkIsMapped
BY MappedStart, MappedStep, PTL DEF GateSpec

\* What may be selected or detected of a message.
Mappable == Inform \union Prepare \union Protective

\* A set of rules of which the last always applies has a first one.
LEMMA FirstRule ==
  ASSUME NEW S, S \subseteq 1..36, 36 \in S
  PROVE  Min(S) \in S
<1> DEFINE Least(n) == (\E x \in S : x <= n) => \E x \in S : \A y \in S : x <= y
<1>1. \A n \in Nat : Least(n) => Least(n + 1)
  <2> SUFFICES ASSUME NEW n \in Nat, Least(n), NEW x \in S, x <= n + 1
               PROVE  \E z \in S : \A y \in S : z <= y
    OBVIOUS
  <2>1. CASE \E z \in S : z <= n
    BY <2>1
  <2>2. CASE ~ \E z \in S : z <= n
    <3>1. x = n + 1
      BY <2>2
    <3>2. \A y \in S : x <= y
      BY <2>2, <3>1
    <3> QED BY <3>2
  <2> QED BY <2>1, <2>2
<1>2. Least(0)
  OBVIOUS
<1> HIDE DEF Least
<1>3. \A n \in Nat : Least(n) => Least(n + 2)
  BY <1>1
<1>4. \A n \in Nat : Least(n) => Least(n + 4)
  BY <1>3
<1>5. \A n \in Nat : Least(n) => Least(n + 8)
  BY <1>4
<1>6. \A n \in Nat : Least(n) => Least(n + 16)
  BY <1>5
<1>7. Least(16)
  BY <1>2, <1>6
<1>8. Least(32)
  BY <1>7, <1>6
<1>9. Least(36)
  BY <1>8, <1>4
<1>10. \E x \in S : \A y \in S : x <= y
  BY <1>9 DEF Least
<1> QED BY <1>10 DEF Min

\* The operation selected for a turn is one of those the mapper knows.
LEMMA SelectedIsMappable ==
  ASSUME NEW text, NEW turn
  PROVE  SelectedOperation(text, turn) \in Mappable
<1> DEFINE rules == SelectionRules(text, turn)
           S     == {i \in DOMAIN rules : rules[i].applies}
<1>1. DOMAIN rules = 1..36
  BY DEF SelectionRules
<1>2. rules[36].applies
  BY DEF SelectionRules, Rule
<1>3. \A i \in 1..36 : rules[i].operation \in Mappable
  BY DEF SelectionRules, Rule, Mappable, Inform, Prepare, Protective
<1>4. SelectedOperation(text, turn) = rules[Min(S)].operation
  BY DEF SelectedOperation
<1> HIDE DEF rules
<1>5. S \subseteq 1..36 /\ 36 \in S
  BY <1>1, <1>2
<1>6. Min(S) \in 1..36
  BY <1>5, FirstRule
<1> QED BY <1>3, <1>4, <1>6

-----------------------------------------------------------------------------
\* A candidate is an operation the mapper knows.
LEMMA CandidatesAreMappable ==
  ASSUME NEW text, NEW turn, NEW off
  PROVE  DOMAIN Candidates(text, turn, off) \subseteq Mappable
<1>1. Asked(text) \subseteq Mappable
  <2>1. DOMAIN Detectors = Mappable
    BY DEF Detectors, Mappable
  <2>2. PutOff(text) \subseteq Mappable
    BY DEF PutOff, Mappable, Prepare
  <2>3. TakenUp(text) \subseteq Mappable
    BY DEF TakenUp, Mappable, Prepare
  <2> QED BY <2>1, <2>2, <2>3 DEF Asked
<1>2. DOMAIN Candidates(text, turn, off) = {SelectedOperation(text, turn)} \union Asked(text)
  BY DEF Candidates
<1> QED BY <1>1, <1>2, SelectedIsMappable

\* The gate knows the profile of whatever the mapper knows as one that prepares at most.
LEMMA MappablePrepares ==
  ASSUME NEW op \in Mappable, NEW outcome
  PROVE  GateName(op, outcome)
           \in Inform \union Prepare \union {"unlisted_informative", "unlisted_preparatory"}
<1>1. CASE op \in Inform \union Prepare
  BY <1>1 DEF GateName
<1>2. CASE op \notin Inform \union Prepare
  <2>1. op = "prevent_unsafe_technical_action"
    BY <1>2 DEF Mappable, Inform, Prepare, Protective
  <2>2. Category(op) = "protective"
    BY <2>1 DEF Category, Protective
  <2> QED BY <1>2, <2>2 DEF GateName
<1> QED BY <1>1, <1>2

\* What prepares at most is let through with no grant, no tool and no evidence.
LEMMA PreparingIsFree ==
  ASSUME NEW name \in Inform \union Prepare \union {"unlisted_informative", "unlisted_preparatory"},
         NEW known, NEW pf
  PROVE  Recommendation(name, known, {}, pf) = "auto_execute"
<1>1. Profile(name) \in {Plain(0), Plain(1)}
  <2>1. CASE name \in Inform
    BY <2>1 DEF Profile, Plain, Needs, ManualOnly, Inform
  <2>2. CASE name \in Prepare
    BY <2>2 DEF Profile, Plain, Needs, ManualOnly, Inform, Prepare
  <2>3. CASE name \in {"unlisted_informative", "unlisted_preparatory"}
    BY <2>3 DEF Profile, Plain, Needs, ManualOnly, Inform, Prepare
  <2> QED BY <2>1, <2>2, <2>3
<1>2. /\ Plain(0).level <= 1 /\ ~(Plain(0).level >= 2) /\ ~Plain(0).approval
      /\ Plain(1).level <= 1 /\ ~(Plain(1).level >= 2) /\ ~Plain(1).approval
  <2>1. \A level : Plain(level).level = level /\ (Plain(level).approval <=> level >= 4)
    BY Zenon DEF Plain
  <2> QED BY <2>1
<1>3. \A level : /\ Plain(level).tool = "" /\ Plain(level).evidence = {}
                 /\ ~Plain(level).manual /\ ~Plain(level).regulated
  BY DEF Plain
<1>4. /\ Profile(name).level <= 1 /\ ~(Profile(name).level >= 2) /\ ~Profile(name).approval
  BY <1>1, <1>2
<1>5. /\ Profile(name).tool = "" /\ Profile(name).evidence = {}
      /\ ~Profile(name).manual /\ ~Profile(name).regulated
  BY <1>1, <1>3
<1>6. ToolAvailable(Profile(name), pf)
  BY <1>5 DEF ToolAvailable
<1>7. ~IdempotencyMissing(Profile(name), "idempotency_key" \in {}, pf)
  BY <1>5 DEF IdempotencyMissing
<1>8. ExecutionAllowed(name, known, {}, pf)
  BY <1>4, <1>5, <1>6, <1>7, AllowedExactly
<1> QED BY <1>4, <1>5, <1>8 DEF Recommendation

\* A mapped turn prepares and never acts, whatever its message says and whatever is
\* registered: each candidate is let through with no grant and no tool.
THEOREM MappedWorkOnlyPrepares == GateSpec => []PreparedOnly
<1>1. WorkIsMapped => PreparedOnly
  <2> SUFFICES ASSUME WorkIsMapped, work # NoWork,
                      NEW op \in DOMAIN work.candidates, NEW t \in Tools, NEW pf \in Platform(t)
               PROVE  Recommendation(GateName(op, work.candidates[op].expected),
                                     CaseEvidence(work.case), {}, pf) = "auto_execute"
    BY DEF PreparedOnly
  <2>1. PICK s \in Situations : work.candidates = Candidates(s.text, s.turn, s.off)
    BY DEF WorkIsMapped
  <2>2. op \in Mappable
    BY <2>1, CandidatesAreMappable
  <2> QED BY <2>2, MappablePrepares, PreparingIsFree
<1> QED BY <1>1, Mapped, PTL

-----------------------------------------------------------------------------
\* What nobody has a tool for is a blocked candidate as soon as the message asks for it.
LEMMA LimitsAreCandidates ==
  ASSUME NEW text, NEW turn, NEW off, NEW op \in Blockable, Detectors[op].marks \cap text # {}
  PROVE  LET c == Candidates(text, turn, off)
         IN  op \in DOMAIN c /\ c[op].blocked /\ c[op].status = "blocked"
<1> DEFINE c == Candidates(text, turn, off)
<1>1. op \in DOMAIN Detectors
  BY DEF Detectors, Blockable, Inform
<1>2. op \in DOMAIN c
  BY <1>1 DEF Candidates, Asked
<1>3. op \notin PutOff(text) /\ op \notin TakenUp(text) /\ op # "close_case_no_action"
  BY DEF PutOff, TakenUp, Blockable
<1>4. SelectedStatus(op, text) = "blocked"
  BY DEF SelectedStatus
<1>5. Detected(op, text).status = "blocked"
  BY <1>3 DEF Detected, Candidate
<1>6. Blocked(op, turn, off)
  BY DEF Blocked
<1>7. c[op].blocked
  BY <1>2, <1>6 DEF Candidates
<1>8. c[op].status = "blocked"
  BY <1>2, <1>4, <1>5 DEF Candidates, Candidate
<1> QED BY <1>2, <1>7, <1>8

\* What nobody can do for the user stays in sight, whatever else the message asks for and
\* whatever the turn brings: it blocks the case, it is pending, and nobody here owns it.
THEOREM LimitsAlwaysVisible == GateSpec => []LimitsStayVisible
<1>1. WorkIsMapped => LimitsStayVisible
  <2> SUFFICES ASSUME WorkIsMapped, work # NoWork, NEW op \in Blockable,
                      Detectors[op].marks \cap work.situation.text # {}
               PROVE  /\ op \in work.case.blocked /\ op \in work.case.pending
                      /\ work.case.owner = "external_system_or_capability_owner"
    BY DEF LimitsStayVisible
  <2>1. PICK s \in Situations :
          work = [situation  |-> s,
                  candidates |-> Candidates(s.text, s.turn, s.off),
                  case       |-> CaseProjection(s.text, s.turn, Candidates(s.text, s.turn, s.off))]
    BY DEF WorkIsMapped
  <2> DEFINE c == Candidates(s.text, s.turn, s.off)
             case == CaseProjection(s.text, s.turn, c)
  <2>2. work.case = case /\ work.situation = s
    BY <2>1
  <2>3. op \in DOMAIN c /\ c[op].blocked /\ c[op].status = "blocked"
    BY <2>2, LimitsAreCandidates
  <2> HIDE DEF c
  <2>4. case.blocked = {o \in DOMAIN c : c[o].blocked}
    BY DEF CaseProjection
  <2>5. op \in case.blocked
    BY <2>3, <2>4
  <2>6. op \in case.pending
    <3>1. case.pending = Pending(case.seen, c)
      BY DEF CaseProjection
    <3>2. op # "prepare_claim_follow_up"
      BY DEF Blockable
    <3> HIDE DEF case
    <3> QED BY <2>3, <3>1, <3>2 DEF Pending
  <2>7. case.owner = Owner(case.blocked, case.pending, s.turn, case.stage)
    BY DEF CaseProjection
  <2> HIDE DEF case
  <2>8. case.owner = "external_system_or_capability_owner"
    BY <2>5, <2>7 DEF Owner
  <2> QED BY <2>2, <2>5, <2>6, <2>8
<1> QED BY <1>1, Mapped, PTL

-----------------------------------------------------------------------------
\* What the mapper knows is a list, so what it finds in a message can be counted.
LEMMA MappableIsFinite == IsFiniteSet(Mappable)
<1>1. \A a, b : IsFiniteSet({a, b})
  <2> TAKE a, b
  <2>1. IsFiniteSet({a})
    BY FS_Singleton
  <2>2. IsFiniteSet({a} \union {b})
    BY <2>1, FS_AddElement
  <2> QED BY <2>2, Zenon
<1>2. \A a, b, c, d : IsFiniteSet({a, b, c, d})
  <2> TAKE a, b, c, d
  <2>1. IsFiniteSet({a, b} \union {c, d})
    BY <1>1, FS_Union
  <2>2. {a, b} \union {c, d} = {a, b, c, d}
    OBVIOUS
  <2> QED BY <2>1, <2>2
<1>3. IsFiniteSet(Inform)
  <2> DEFINE A == {"explain_domain_concept", "explain_documentation_requirements",
                   "explain_current_step_simpler", "provide_repair_risk_guidance"}
             B == {"close_case_no_action", "no_operational_work_identified",
                   "block_real_status_lookup", "block_document_upload"}
  <2>1. IsFiniteSet(A) /\ IsFiniteSet(B)
    BY <1>2
  <2>2. Inform = A \union B
    BY DEF Inform
  <2> HIDE DEF A, B
  <2> QED BY <2>1, <2>2, FS_Union
<1>4. IsFiniteSet(Prepare)
  <2> DEFINE A == {"collect_claim_blocker", "request_billing_line_item",
                   "request_rejection_detail", "diagnose_connectivity_issue"}
             B == {"continue_conversation_plan", "start_claim_guidance",
                   "repair_service_interaction", "prepare_claim_follow_up"}
             C == {"prepare_documentation_review", "prepare_billing_review",
                   "prepare_outage_follow_up", "prepare_technical_visit"}
             D == {"prepare_handoff", "prepare_case_summary"}
  <2>1. IsFiniteSet(A) /\ IsFiniteSet(B)
    BY <1>2
  <2>2. IsFiniteSet(C) /\ IsFiniteSet(D)
    BY <1>1, <1>2
  <2>3. Prepare = (A \union B) \union (C \union D)
    BY DEF Prepare
  <2> HIDE DEF A, B, C, D
  <2>4. IsFiniteSet(A \union B) /\ IsFiniteSet(C \union D)
    BY <2>1, <2>2, FS_Union
  <2> QED BY <2>3, <2>4, FS_Union
<1>5. IsFiniteSet(Protective)
  BY <1>2 DEF Protective
<1>6. IsFiniteSet(Inform \union Prepare)
  BY <1>3, <1>4, FS_Union
<1> QED BY <1>5, <1>6, FS_Union DEF Mappable

\* A message asks for nothing that is detected with a priority below 64, other than to close.
LEMMA DetectedPriorities ==
  ASSUME NEW op \in DOMAIN Detectors, NEW text, Detectors[op].marks \cap text # {},
         op # "close_case_no_action"
  PROVE  Detectors[op].priority \in 64..100
<1> DEFINE Silent == {"explain_current_step_simpler", "no_operational_work_identified",
                      "collect_claim_blocker", "request_rejection_detail",
                      "continue_conversation_plan", "start_claim_guidance"}
<1>1. DOMAIN Detectors = Mappable
  BY DEF Detectors, Mappable
<1>2. Detectors[op].marks # {}
  OBVIOUS
<1>3. CASE op \in Mappable /\ op \notin Silent
  <2>1. /\ Detectors["block_real_status_lookup"].priority = 88
        /\ Detectors["block_document_upload"].priority = 86
        /\ Detectors["prevent_unsafe_technical_action"].priority = 96
        /\ Detectors["provide_repair_risk_guidance"].priority = 94
    BY DEF Detectors, Detects, Inform, Prepare, Protective
  <2>2. /\ Detectors["prepare_claim_follow_up"].priority = 78
        /\ Detectors["prepare_documentation_review"].priority = 68
        /\ Detectors["explain_documentation_requirements"].priority = 66
        /\ Detectors["prepare_billing_review"].priority = 72
    BY DEF Detectors, Detects, Inform, Prepare, Protective
  <2>3. /\ Detectors["request_billing_line_item"].priority = 73
        /\ Detectors["diagnose_connectivity_issue"].priority = 74
        /\ Detectors["prepare_outage_follow_up"].priority = 76
        /\ Detectors["prepare_technical_visit"].priority = 80
    BY DEF Detectors, Detects, Inform, Prepare, Protective
  <2>4. /\ Detectors["prepare_handoff"].priority = 82
        /\ Detectors["explain_domain_concept"].priority = 64
        /\ Detectors["prepare_case_summary"].priority = 70
        /\ Detectors["repair_service_interaction"].priority = 90
    BY DEF Detectors, Detects, Inform, Prepare, Protective
  <2> QED BY <1>1, <1>3, <2>1, <2>2, <2>3, <2>4 DEF Mappable, Inform, Prepare, Protective
<1>4. CASE op \in Silent
  <2>1. Detectors[op].marks = {}
    BY <1>4 DEF Detectors, Detects, Inform, Prepare, Protective
  <2> QED BY <1>2, <2>1
<1> QED BY <1>1, <1>3, <1>4

\* The role, the status and the priority of the operation that is selected.
LEMMA PrimaryCandidate ==
  ASSUME NEW text, NEW turn, NEW off
  PROVE  LET c   == Candidates(text, turn, off)
             sel == SelectedOperation(text, turn)
         IN  /\ sel \in DOMAIN c /\ c[sel].role = "primary" /\ c[sel].priority = 100
             /\ c[sel].status = "pending" => sel # "close_case_no_action"
<1> DEFINE sel == SelectedOperation(text, turn)
           c   == Candidates(text, turn, off)
<1>1. sel \in DOMAIN c
  BY DEF Candidates
<1>2. c[sel].role = "primary" /\ c[sel].priority = 100
  BY <1>1 DEF Candidates, Candidate
<1>3. c[sel].status = "pending" => SelectedStatus(sel, text) = "pending"
  BY <1>1 DEF Candidates, Candidate
<1>4. SelectedStatus(sel, text) = "pending" => sel # "close_case_no_action"
  BY DEF SelectedStatus
<1> QED BY <1>1, <1>2, <1>3, <1>4

\* Any other candidate is as it was detected, but for what blocks it.
LEMMA OtherCandidate ==
  ASSUME NEW text, NEW turn, NEW off, NEW op \in DOMAIN Candidates(text, turn, off),
         op # SelectedOperation(text, turn)
  PROVE  LET c == Candidates(text, turn, off)
         IN  /\ op \in Asked(text)
             /\ c[op].role = Detected(op, text).role
             /\ c[op].priority = Detected(op, text).priority
             /\ c[op].status \in {"blocked", Detected(op, text).status}
<1> DEFINE c == Candidates(text, turn, off)
<1>1. op \in Asked(text)
  BY DEF Candidates
<1>2. c[op].role = Detected(op, text).role /\ c[op].priority = Detected(op, text).priority
  BY DEF Candidates
<1>3. c[op].status \in {"blocked", Detected(op, text).status}
  BY DEF Candidates
<1> QED BY <1>1, <1>2, <1>3

\* What is put off has the lowest priority, and what is pending one of the high ones.
LEMMA DetectedPutOff ==
  ASSUME NEW text, NEW op, Detected(op, text).status = "suspended"
  PROVE  /\ op \in {"prepare_billing_review", "diagnose_connectivity_issue"}
         /\ Detected(op, text).priority = 40
<1>1. op \in PutOff(text)
  BY DEF Detected, Candidate
<1> QED BY <1>1 DEF Detected, Candidate, PutOff

LEMMA DetectedPending ==
  ASSUME NEW text, NEW op \in Asked(text), Detected(op, text).status = "pending"
  PROVE  op # "close_case_no_action" /\ Detected(op, text).priority \in 64..100
<1>1. op \notin PutOff(text)
  BY DEF Detected, Candidate
<1>2. CASE op \in TakenUp(text)
  <2>1. op # "close_case_no_action"
    BY <1>2 DEF TakenUp
  <2>2. Detected(op, text).priority = 84
    BY <1>1, <1>2 DEF Detected, Candidate
  <2> QED BY <2>1, <2>2
<1>3. CASE op \notin TakenUp(text)
  <2>1. op # "close_case_no_action"
    BY <1>1, <1>3 DEF Detected, Candidate
  <2>2. Detected(op, text).priority = Detectors[op].priority
    BY <1>1, <1>3, <2>1 DEF Detected, Candidate
  <2>3. op \in DOMAIN Detectors /\ Detectors[op].marks \cap text # {}
    BY <1>1, <1>3 DEF Asked
  <2> QED BY <2>1, <2>2, <2>3, DetectedPriorities
<1> QED BY <1>2, <1>3

-----------------------------------------------------------------------------
\* The selected operation comes first: nothing that is detected precedes it.
LEMMA PrimaryIsFirst ==
  ASSUME NEW text, NEW turn, NEW off
  PROVE  OriginalRank(Candidates(text, turn, off), SelectedOperation(text, turn)) = 1
<1> DEFINE sel   == SelectedOperation(text, turn)
           c     == Candidates(text, turn, off)
           ahead == {other \in DOMAIN c : Precedes(c, other, sel)}
<1>1. c[sel].role = "primary" /\ c[sel].priority = 100
  BY PrimaryCandidate
<1>2. ASSUME NEW other \in DOMAIN c PROVE ~Precedes(c, other, sel)
  <2>1. CASE other = sel
    <3> HIDE DEF c, sel
    <3> QED BY <1>1, <2>1 DEF Precedes, RoleRank
  <2>2. CASE other # sel
    <3>1. c[other].role = Detected(other, text).role
      BY <2>2, OtherCandidate
    <3>2. Detected(other, text).role \in {"suspended", "recovered", "completed", "secondary"}
      BY DEF Detected, Candidate
    <3> HIDE DEF c, sel
    <3>3. c[other].role \in {"suspended", "recovered", "completed", "secondary"}
      BY <3>1, <3>2
    <3>4. RoleRank(c[other].role) \in {1, 2, 3, 5}
      BY <3>3 DEF RoleRank
    <3>5. RoleRank(c[sel].role) = 0
      BY <1>1 DEF RoleRank
    <3>6. c[other].role # c[sel].role
      BY <1>1, <3>3
    <3>7. /\ ~(RoleRank(c[other].role) < RoleRank(c[sel].role))
          /\ RoleRank(c[other].role) # RoleRank(c[sel].role)
      BY <3>4, <3>5
    <3> QED BY <3>6, <3>7 DEF Precedes
  <2> QED BY <2>1, <2>2
<1>3. ahead = {}
  BY <1>2
<1>4. Cardinality({}) = 0
  BY FS_EmptySet
<1>5. OriginalRank(c, sel) = 1 + Cardinality(ahead)
  BY DEF OriginalRank
<1> HIDE DEF ahead, c, sel
<1> QED BY <1>3, <1>4, <1>5 DEF c, sel

\* Every candidate has a rank, from 1.
LEMMA RankIsPositive ==
  ASSUME NEW text, NEW turn, NEW off, NEW op
  PROVE  /\ OriginalRank(Candidates(text, turn, off), op) \in Nat
         /\ OriginalRank(Candidates(text, turn, off), op) >= 1
<1> DEFINE c     == Candidates(text, turn, off)
           ahead == {other \in DOMAIN c : Precedes(c, other, op)}
<1>1. ahead \subseteq Mappable
  BY CandidatesAreMappable
<1>2. OriginalRank(c, op) = 1 + Cardinality(ahead)
  BY DEF OriginalRank
<1> HIDE DEF ahead, c
<1>3. IsFiniteSet(ahead)
  BY <1>1, MappableIsFinite, FS_Subset
<1>4. Cardinality(ahead) \in Nat
  BY <1>3, FS_CardinalityType
<1>5. OriginalRank(c, op) \in Nat /\ OriginalRank(c, op) >= 1
  BY <1>2, <1>4
<1> QED BY <1>5 DEF c

\* What is pending keeps a higher score than what is put off can come to, whatever the
\* case adds to the one and takes from the other.
LEMMA PendingScore ==
  ASSUME NEW op, NEW candidate, NEW case, candidate.status = "pending",
         candidate.priority \in 64..100, op # "close_case_no_action"
  PROVE  /\ Score(op, candidate, case) \in Int
         /\ case.stage = "documentation_pending_after_claim_loaded"
              => Score(op, candidate, case) >= -1
         /\ case.stage # "documentation_pending_after_claim_loaded"
              => Score(op, candidate, case) >= 64
<1>1. Demotion(candidate.status) = 0
  BY DEF Demotion
<1> QED BY <1>1, SMTT(30) DEF Score

LEMMA PutOffScore ==
  ASSUME NEW op \in {"prepare_billing_review", "diagnose_connectivity_issue"}, NEW candidate,
         NEW case, candidate.status = "suspended", candidate.priority = 40
  PROVE  /\ Score(op, candidate, case) \in Int
         /\ case.stage = "documentation_pending_after_claim_loaded"
              => Score(op, candidate, case) <= -5
         /\ case.stage # "documentation_pending_after_claim_loaded"
              => Score(op, candidate, case) <= 40
<1>1. Demotion(candidate.status) = 80
  BY DEF Demotion
<1> QED BY <1>1, SMTT(30) DEF Score

\* Looking at the case never brings work that the user put off before work that is
\* pending, whatever the message says and whatever else the case adds and takes.
THEOREM WorkPutOffStaysBehind == GateSpec => []PutOffStaysBehind
<1>1. WorkIsMapped => PutOffStaysBehind
  <2> SUFFICES ASSUME WorkIsMapped, work # NoWork,
                      NEW off \in DOMAIN work.candidates, NEW open \in DOMAIN work.candidates,
                      work.candidates[off].status = "suspended",
                      work.candidates[open].status = "pending",
                      OriginalRank(work.candidates, off) > OriginalRank(work.candidates, open)
               PROVE  ProjectedPrecedes(work.candidates, work.case, open, off)
    BY DEF PutOffStaysBehind
  <2>1. PICK s \in Situations : work.candidates = Candidates(s.text, s.turn, s.off)
    BY DEF WorkIsMapped
  <2> DEFINE sel == SelectedOperation(s.text, s.turn)
             c   == Candidates(s.text, s.turn, s.off)
  <2>2. off # sel
    <3>1. SUFFICES ASSUME off = sel PROVE FALSE
      OBVIOUS
    <3>2. OriginalRank(c, off) = 1
      BY <3>1, PrimaryIsFirst
    <3>3. OriginalRank(c, open) >= 1 /\ OriginalRank(c, open) \in Nat
      BY RankIsPositive
    <3>4. OriginalRank(c, off) > OriginalRank(c, open)
      BY <2>1
    <3> HIDE DEF c
    <3> QED BY <3>2, <3>3, <3>4
  <2>3. c[off].status \in {"blocked", Detected(off, s.text).status}
    BY <2>1, <2>2, OtherCandidate
  <2>4. Detected(off, s.text).status = "suspended"
    BY <2>1, <2>3
  <2>5. /\ off \in {"prepare_billing_review", "diagnose_connectivity_issue"}
        /\ c[off].priority = 40
    BY <2>1, <2>2, <2>4, OtherCandidate, DetectedPutOff
  <2>6. open # "close_case_no_action" /\ c[open].priority \in 64..100
    <3>1. CASE open = sel
      <4>1. c[open].priority = 100
        BY <3>1, PrimaryCandidate
      <4>2. open # "close_case_no_action"
        BY <2>1, <3>1, PrimaryCandidate
      <4> QED BY <4>1, <4>2
    <3>2. CASE open # sel
      <4>1. open \in Asked(s.text) /\ c[open].priority = Detected(open, s.text).priority
        BY <2>1, <3>2, OtherCandidate
      <4>2. c[open].status \in {"blocked", Detected(open, s.text).status}
        BY <2>1, <3>2, OtherCandidate
      <4>3. Detected(open, s.text).status = "pending"
        BY <2>1, <4>2
      <4> QED BY <4>1, <4>3, DetectedPending
    <3> QED BY <3>1, <3>2
  <2> HIDE DEF c, sel
  <2>7. c = work.candidates
    BY <2>1 DEF c
  <2> DEFINE x == Score(open, c[open], work.case)
             y == Score(off, c[off], work.case)
             d == work.case.stage = "documentation_pending_after_claim_loaded"
  <2>8. x \in Int /\ (d => x >= -1) /\ (~d => x >= 64)
    BY <2>6, <2>7, PendingScore
  <2>9. y \in Int /\ (d => y <= -5) /\ (~d => y <= 40)
    BY <2>5, <2>7, PutOffScore
  <2>10. x > y
    <3> HIDE DEF x, y, d
    <3> QED BY <2>8, <2>9
  <2> QED BY <2>7, <2>10 DEF ProjectedPrecedes
<1> QED BY <1>1, Mapped, PTL
=============================================================================
