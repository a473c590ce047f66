-------------------------- MODULE RuntimeTurns_proofs --------------------------
(* What holds of the turns of one runtime, for any threads, conversations and    *)
(* messages: whose state a session holds, what a caller gets, how often a turn   *)
(* is put into the memory and its tool called, and that the two engines make the *)
(* same of every plan.                                                           *)
EXTENDS RuntimeTurns, SequenceTheorems, NaturalsInduction, WellFoundedInduction, TLAPS

-----------------------------------------------------------------------------
\* What a thread carries of its turn.
Carried == {"number", "message", "clears"}

TurnOK(v) ==
  /\ "step" \in DOMAIN v
  /\ v.step # "idle" => Carried \subseteq DOMAIN v /\ v.number \in Turns

\* The same turn, further on.
SameTurn(v, w) == w.number = v.number /\ w.message = v.message /\ w.clears = v.clears

ShapeInv ==
  /\ setting \in Settings /\ calls \in 0..setting.turns /\ raises \in Nat
  /\ DOMAIN turn = Threads /\ DOMAIN bus = Turns /\ DOMAIN session = Conversations
  /\ \A t \in Threads : TurnOK(turn[t]) /\ (turn[t].step # "idle" => t \in setting.threads)

\* What a thread becomes by a step of its own: idle, or the same turn at another step.
Becomes(v, w) == TurnOK(w) /\ (w.step # "idle" => SameTurn(v, w))

\* A step of a thread leaves the other threads alone.
Moves(t) ==
  /\ turn[t].step # "idle"
  /\ DOMAIN turn' = Threads
  /\ \A u \in Threads \ {t} : turn'[u] = turn[u]
  /\ Becomes(turn[t], turn'[t])
  /\ UNCHANGED <<setting, calls>>

\* A thread that runs no turn carries none.
LEMMA IdleOK == TurnOK(Idle) /\ Idle.step = "idle"
BY DEF TurnOK, Idle

\* A thread that only goes on to another step keeps its turn.
LEMMA StepSet ==
  ASSUME NEW v, TurnOK(v), v.step # "idle", NEW s, s # "idle"
  PROVE  LET w == [v EXCEPT !.step = s] IN Becomes(v, w) /\ w.step = s
<1> DEFINE w == [v EXCEPT !.step = s]
<1>1. w = [x \in DOMAIN v |-> IF x = "step" THEN s ELSE v[x]]
  BY Zenon
<1> HIDE DEF w
<1>2. DOMAIN w = DOMAIN v /\ w.step = s
  BY <1>1 DEF TurnOK
<1>3. w.number = v.number /\ w.message = v.message /\ w.clears = v.clears
  BY <1>1 DEF TurnOK, Carried
<1>4. Becomes(v, w)
  BY <1>2, <1>3 DEF TurnOK, Becomes, SameTurn
<1> QED BY <1>2, <1>4 DEF w

\* So does one that takes up what its step makes of the turn.
LEMMA StepAdded ==
  ASSUME NEW v, TurnOK(v), v.step # "idle", NEW more, "step" \in DOMAIN more,
         more.step # "idle", Carried \cap DOMAIN more = {}
  PROVE  Becomes(v, Extend(v, more)) /\ Extend(v, more).step = more.step
<1> DEFINE w == Extend(v, more)
<1>1. w = [x \in DOMAIN v \union DOMAIN more |-> IF x \in DOMAIN more THEN more[x] ELSE v[x]]
  BY DEF Extend
<1> HIDE DEF w
<1>2. DOMAIN w = DOMAIN v \union DOMAIN more /\ w.step = more.step
  BY <1>1
<1>3. w.number = v.number /\ w.message = v.message /\ w.clears = v.clears
  BY <1>1 DEF TurnOK, Carried
<1>4. Becomes(v, w)
  BY <1>2, <1>3 DEF TurnOK, Becomes, SameTurn
<1> QED BY <1>2, <1>4 DEF w

\* What a step does to the threads, when it makes the thread what it may become.
LEMMA OneMoves ==
  ASSUME ShapeInv, NEW t \in Threads, turn[t].step # "idle", NEW w,
         turn' = [turn EXCEPT ![t] = w], Becomes(turn[t], w), UNCHANGED <<setting, calls>>
  PROVE  Moves(t) /\ turn'[t] = w
<1>1. DOMAIN turn' = Threads /\ turn'[t] = w
  BY DEF ShapeInv
<1>2. \A u \in Threads \ {t} : turn'[u] = turn[u]
  BY DEF ShapeInv
<1> QED BY <1>1, <1>2 DEF Moves

-----------------------------------------------------------------------------
\* A thread goes on to another step, or its turn ends.
Goes(t, from, to) == At(t, from) /\ Moves(t) /\ turn'[t].step = to

\* What a turn's events become, and how a subscriber that raises ends the turn.
Says(t, events) == bus' = [bus EXCEPT ![Mine(t)] = @ \o events]
Falls(t) == Moves(t) /\ turn'[t].step = "idle" /\ raises' \in Nat \ {0}

Kept == DOMAIN bus' = Turns /\ DOMAIN session' = Conversations /\ raises' \in Nat

\* An event that is published goes to the bus of its own turn, and the thread goes on.
LEMMA Emits ==
  ASSUME ShapeInv, NEW t \in Threads, NEW from, At(t, from), from # "idle", NEW events, NEW next,
         Emit(t, events, next), Becomes(turn[t], next), NEW to, next.step = to,
         UNCHANGED <<setting, calls>>
  PROVE  /\ Goes(t, from, to) /\ Says(t, events)
         /\ UNCHANGED raises /\ DOMAIN bus' = Turns /\ raises' \in Nat
<1>1. turn' = [turn EXCEPT ![t] = next]
  BY DEF Emit
<1>2. turn[t].step # "idle"
  BY DEF At
<1>3. Moves(t) /\ turn'[t] = next
  BY <1>1, <1>2, OneMoves
<1>4. Says(t, events) /\ UNCHANGED raises
  BY DEF Emit, Says
<1>5. DOMAIN bus' = Turns /\ raises' \in Nat
  BY <1>4 DEF Says, ShapeInv
<1> QED BY <1>3, <1>4, <1>5 DEF Goes

\* A subscriber that raises leaves a part of the events on the bus and ends the turn.
LEMMA Raises ==
  ASSUME ShapeInv, NEW t \in Threads, turn[t].step # "idle", NEW events, Raise(t, events),
         UNCHANGED <<setting, calls>>
  PROVE  Falls(t) /\ DOMAIN bus' = Turns /\ raises' \in Nat
<1>1. turn' = [turn EXCEPT ![t] = Idle]
  BY DEF Raise
<1>2. Becomes(turn[t], Idle)
  BY IdleOK DEF Becomes
<1>3. Moves(t) /\ turn'[t] = Idle
  BY <1>1, <1>2, OneMoves
<1>4. raises' = raises + 1 /\ raises \in Nat
  BY DEF Raise, ShapeInv
<1>5. raises' \in Nat \ {0}
  BY <1>4
<1>6. DOMAIN bus' = Turns
  <2>1. PICK n \in DOMAIN events : bus' = [bus EXCEPT ![Mine(t)] = @ \o SubSeq(events, 1, n)]
    BY DEF Raise
  <2> QED BY <2>1 DEF ShapeInv
<1> QED BY <1>3, <1>5, <1>6, IdleOK DEF Falls

\* A state stored for a conversation leaves the others as they are.
LEMMA Stores ==
  ASSUME ShapeInv, NEW t \in Threads, NEW by, Store(t, by)
  PROVE  /\ DOMAIN session' = Conversations
         /\ \A c \in Conversations :
              IF c = Talk(t) THEN session'[c].by = by ELSE session'[c] = session[c]
BY DEF ShapeInv, Store

-----------------------------------------------------------------------------
\* What each step of a turn does to what the invariants are about.
Emitting(t, from, to, events) ==
  /\ Kept /\ UNCHANGED <<lastTrace, replies>>
  /\ \/ Goes(t, from, to) /\ Says(t, events) /\ UNCHANGED raises
     \/ At(t, from) /\ Falls(t)

Silent(t, from, to) ==
  /\ Kept /\ UNCHANGED <<lastTrace, replies, raises, bus>>
  /\ Goes(t, from, to)

\* The steps of a turn, one by one: process_output clears the bus.
LEMMA ClearDoes ==
  ASSUME ShapeInv, NEW t \in Threads, Clear(t)
  PROVE  /\ Goes(t, "clear", "start") /\ bus' = [n \in Turns |-> <<>>]
         /\ Kept /\ UNCHANGED <<lastTrace, replies, raises, session>>
<1>1. At(t, "clear") /\ turn[t].step # "idle" /\ TurnOK(turn[t])
  BY DEF Clear, At, ShapeInv
<1>2. turn' = [turn EXCEPT ![t] = [turn[t] EXCEPT !.step = "start"]]
  BY DEF Clear
<1>3. UNCHANGED <<setting, calls>>
  BY DEF Clear
<1> DEFINE w == [turn[t] EXCEPT !.step = "start"]
<1>4. Moves(t) /\ turn'[t].step = "start"
  <2>1. Becomes(turn[t], w) /\ w.step = "start"
    BY <1>1, StepSet
  <2> HIDE DEF w
  <2>2. turn' = [turn EXCEPT ![t] = w]
    BY <1>2 DEF w
  <2> QED BY <1>1, <1>3, <2>1, <2>2, OneMoves
<1>5. /\ bus' = [n \in Turns |-> <<>>] /\ UNCHANGED <<lastTrace, replies, raises, session>>
  BY DEF Clear
<1>6. Kept
  BY <1>5 DEF Kept, ShapeInv
<1> QED BY <1>1, <1>4, <1>5, <1>6 DEF Goes

\* process begins.
LEMMA BeginDoes ==
  ASSUME ShapeInv, NEW t \in Threads, Begin(t)
  PROVE  Emitting(t, "start", "plan", <<"started">>) /\ UNCHANGED session
<1>1. At(t, "start") /\ turn[t].step # "idle" /\ TurnOK(turn[t])
  BY DEF Begin, At, ShapeInv
<1>2. UNCHANGED <<setting, calls, session, lastTrace, replies>> /\ DOMAIN session = Conversations
  BY DEF Begin, ShapeInv
<1>3. CASE Emit(t, <<"started">>, [turn[t] EXCEPT !.step = "plan"])
  <2> DEFINE w == [turn[t] EXCEPT !.step = "plan"]
  <2>1. Becomes(turn[t], w) /\ w.step = "plan"
    BY <1>1, StepSet
  <2> HIDE DEF w
  <2>2. Emit(t, <<"started">>, w)
    BY <1>3 DEF w
  <2> QED BY <1>1, <1>2, <2>1, <2>2, Emits DEF Emitting, Kept
<1>4. CASE Raise(t, <<"started">>)
  BY <1>1, <1>2, <1>4, Raises DEF Emitting, Kept
<1> QED BY <1>3, <1>4 DEF Begin

\* Planning publishes its events and gives the turn a plan.
LEMMA PlanDoes ==
  ASSUME ShapeInv, NEW t \in Threads, Plan(t)
  PROVE  Emitting(t, "plan", "policy", Planning) /\ UNCHANGED session
<1>1. At(t, "plan") /\ turn[t].step # "idle" /\ TurnOK(turn[t])
  BY DEF Plan, At, ShapeInv
<1>2. UNCHANGED <<setting, calls, session, lastTrace, replies>> /\ DOMAIN session = Conversations
  BY DEF Plan, ShapeInv
<1>3. CASE Raise(t, Planning)
  BY <1>1, <1>2, <1>3, Raises DEF Emitting, Kept
<1>4. ASSUME NEW more, more.step = "policy", DOMAIN more = {"step", "plan", "mission"},
             Emit(t, Planning, Extend(turn[t], more))
      PROVE  Emitting(t, "plan", "policy", Planning)
  <2>1. Becomes(turn[t], Extend(turn[t], more)) /\ Extend(turn[t], more).step = "policy"
    BY <1>1, <1>4, StepAdded DEF Carried
  <2> QED BY <1>1, <1>2, <1>4, <2>1, Emits DEF Emitting, Kept
<1> QED
  <2>1. CASE ~Raise(t, Planning)
    <3> DEFINE mission == session[Talk(t)].mission
               made(missing) == PlanFor(IntentOf(turn[t].message, mission, missing))
    <3>1. PICK missing \in BOOLEAN :
            Emit(t, Planning, Extend(turn[t], [step |-> "policy", plan |-> made(missing),
                                               mission |-> mission]))
      BY <2>1 DEF Plan
    <3> QED BY <1>2, <1>4, <3>1
  <2> QED BY <1>2, <1>3, <2>1

\* The policy.
LEMMA PrepareDoes ==
  ASSUME ShapeInv, NEW t \in Threads, Prepare(t)
  PROVE  Emitting(t, "policy", "authorize", <<"policy_evaluated">>) /\ UNCHANGED session
<1>1. At(t, "policy") /\ turn[t].step # "idle" /\ TurnOK(turn[t])
  BY DEF Prepare, At, ShapeInv
<1>2. UNCHANGED <<setting, calls, session, lastTrace, replies>> /\ DOMAIN session = Conversations
  BY DEF Prepare, ShapeInv
<1>3. CASE Raise(t, <<"policy_evaluated">>)
  BY <1>1, <1>2, <1>3, Raises DEF Emitting, Kept
<1>4. ASSUME NEW m, Emit(t, <<"policy_evaluated">>,
                         [turn[t] EXCEPT !.step = "authorize", !.mission = m])
      PROVE  Emitting(t, "policy", "authorize", <<"policy_evaluated">>)
  <2> DEFINE w == [turn[t] EXCEPT !.step = "authorize", !.mission = m]
  <2>1. Becomes(turn[t], w) /\ w.step = "authorize"
    <3>1. w = [x \in DOMAIN turn[t] |-> IF x = "mission" THEN m
                                        ELSE IF x = "step" THEN "authorize" ELSE turn[t][x]]
      BY Zenon
    <3> HIDE DEF w
    <3>2. DOMAIN w = DOMAIN turn[t] /\ w.step = "authorize"
      BY <1>1, <3>1 DEF TurnOK
    <3>3. /\ w.number = turn[t].number /\ w.message = turn[t].message
          /\ w.clears = turn[t].clears
      BY <1>1, <3>1 DEF TurnOK, Carried
    <3> QED BY <1>1, <3>2, <3>3 DEF TurnOK, Becomes, SameTurn
  <2> HIDE DEF w
  <2>2. Emit(t, <<"policy_evaluated">>, w)
    BY <1>4 DEF w
  <2> QED BY <1>1, <1>2, <2>1, <2>2, Emits DEF Emitting, Kept
<1> QED BY <1>2, <1>3, <1>4 DEF Prepare

\* The authority.
LEMMA AuthorizeDoes ==
  ASSUME ShapeInv, NEW t \in Threads, Authorize(t)
  PROVE  Emitting(t, "authorize", "consolidate", <<"authority_resolved">>) /\ UNCHANGED session
<1>1. At(t, "authorize") /\ turn[t].step # "idle" /\ TurnOK(turn[t])
  BY DEF Authorize, At, ShapeInv
<1>2. UNCHANGED <<setting, calls, session, lastTrace, replies>> /\ DOMAIN session = Conversations
  BY DEF Authorize, ShapeInv
<1>3. CASE Raise(t, <<"authority_resolved">>)
  BY <1>1, <1>2, <1>3, Raises DEF Emitting, Kept
<1>4. ASSUME NEW run, Emit(t, <<"authority_resolved">>,
                           Extend(turn[t], [step |-> "consolidate", run |-> run]))
      PROVE  Emitting(t, "authorize", "consolidate", <<"authority_resolved">>)
  <2> DEFINE more == [step |-> "consolidate", run |-> run]
  <2>1. Becomes(turn[t], Extend(turn[t], more)) /\ Extend(turn[t], more).step = "consolidate"
    <3>1. DOMAIN more = {"step", "run"} /\ more.step = "consolidate"
      OBVIOUS
    <3> HIDE DEF more
    <3> QED BY <1>1, <3>1, StepAdded DEF Carried
  <2> QED BY <1>1, <1>2, <1>4, <2>1, Emits DEF Emitting, Kept
<1> QED BY <1>2, <1>3, <1>4 DEF Authorize

-----------------------------------------------------------------------------
\* A step that sets the step of its thread, and one that adds to its turn.
LEMMA Sets ==
  ASSUME ShapeInv, NEW t \in Threads, NEW from, At(t, from), from # "idle", NEW to, to # "idle",
         turn' = [turn EXCEPT ![t] = [turn[t] EXCEPT !.step = to]], UNCHANGED <<setting, calls>>
  PROVE  Goes(t, from, to)
<1> DEFINE w == [turn[t] EXCEPT !.step = to]
<1>1. turn[t].step # "idle" /\ TurnOK(turn[t])
  BY DEF At, ShapeInv
<1>2. Becomes(turn[t], w) /\ w.step = to
  BY <1>1, StepSet
<1> HIDE DEF w
<1>3. turn' = [turn EXCEPT ![t] = w]
  BY DEF w
<1>4. Moves(t) /\ turn'[t] = w
  BY <1>1, <1>2, <1>3, OneMoves
<1> QED BY <1>2, <1>4 DEF Goes

\* A step that adds to its turn.
LEMMA Adds ==
  ASSUME ShapeInv, NEW t \in Threads, NEW from, At(t, from), from # "idle", NEW to, to # "idle",
         NEW more, "step" \in DOMAIN more, more.step = to, Carried \cap DOMAIN more = {},
         turn' = [turn EXCEPT ![t] = Extend(turn[t], more)], UNCHANGED <<setting, calls>>
  PROVE  Goes(t, from, to)
<1>1. turn[t].step # "idle" /\ TurnOK(turn[t])
  BY DEF At, ShapeInv
<1>2. Becomes(turn[t], Extend(turn[t], more)) /\ Extend(turn[t], more).step = to
  BY <1>1, StepAdded
<1>3. Moves(t) /\ turn'[t] = Extend(turn[t], more)
  BY <1>1, <1>2, OneMoves
<1> QED BY <1>2, <1>3 DEF Goes

\* The memory step publishes and stores nothing.
LEMMA ConsolidateDoes ==
  ASSUME ShapeInv, NEW t \in Threads, Consolidate(t)
  PROVE  Silent(t, "consolidate", "execute") /\ UNCHANGED session
<1>1. Goes(t, "consolidate", "execute")
  <2>1. turn' = [turn EXCEPT ![t] = [turn[t] EXCEPT !.step = "execute"]]
    BY DEF Consolidate
  <2>2. At(t, "consolidate") /\ UNCHANGED <<setting, calls>>
    BY DEF Consolidate
  <2> QED BY <2>1, <2>2, Sets
<1>2. UNCHANGED <<lastTrace, replies, raises, bus, session>>
  BY DEF Consolidate
<1> QED BY <1>1, <1>2 DEF Silent, Kept, ShapeInv

\* The official engine's state is stored.
LEMMA RunDoes ==
  ASSUME ShapeInv, NEW t \in Threads, Run(t)
  PROVE  Silent(t, "execute", "validate") /\ Store(t, "official")
<1>1. PICK done, reply :
        turn' = [turn EXCEPT ![t] = Extend(turn[t], [step |-> "validate", official |-> done, reply |-> reply])]
  BY Zenon DEF Run
<1> DEFINE more == [step |-> "validate", official |-> done, reply |-> reply]
<1>2. "step" \in DOMAIN more /\ more.step = "validate" /\ Carried \cap DOMAIN more = {}
  BY DEF Carried
<1>3. At(t, "execute") /\ UNCHANGED <<setting, calls>>
  BY DEF Run
<1>4. Goes(t, "execute", "validate")
  BY <1>1, <1>2, <1>3, Adds
<1>5. UNCHANGED <<lastTrace, replies, raises, bus>> /\ Store(t, "official")
  BY DEF Run
<1>6. Kept
  BY <1>5, Stores DEF Kept, ShapeInv
<1> QED BY <1>4, <1>5, <1>6 DEF Silent

\* The state of the comparison is stored only by the legacy engine.
LEMMA CheckDoes ==
  ASSUME ShapeInv, NEW t \in Threads, Check(t)
  PROVE  /\ Silent(t, "validate", "compare")
         /\ Store(t, "validation") \/ UNCHANGED session
<1>1. PICK differs :
        turn' = [turn EXCEPT ![t] = Extend(turn[t], [step |-> "compare", differs |-> differs])]
  BY Zenon DEF Check
<1> DEFINE more == [step |-> "compare", differs |-> differs]
<1>2. "step" \in DOMAIN more /\ more.step = "compare" /\ Carried \cap DOMAIN more = {}
  BY DEF Carried
<1>3. At(t, "validate") /\ UNCHANGED <<setting, calls>>
  BY DEF Check
<1>4. Goes(t, "validate", "compare")
  BY <1>1, <1>2, <1>3, Adds
<1>5. UNCHANGED <<lastTrace, replies, raises, bus>>
  BY DEF Check
<1>6. Store(t, "validation") \/ UNCHANGED session
  BY DEF Check
<1>7. Kept
  BY <1>5, <1>6, Stores DEF Kept, ShapeInv
<1> QED BY <1>4, <1>5, <1>6, <1>7 DEF Silent

\* The official state is committed again, unless a subscriber raises.
LEMMA CompareDoes ==
  ASSUME ShapeInv, NEW t \in Threads, Compare(t)
  PROVE  /\ Emitting(t, "compare", "attach", <<"compared">>)
         /\ Store(t, "official") \/ (Falls(t) /\ UNCHANGED session)
<1>1. At(t, "compare") /\ turn[t].step # "idle" /\ TurnOK(turn[t])
  BY DEF Compare, At, ShapeInv
<1>2. UNCHANGED <<setting, calls, lastTrace, replies>> /\ DOMAIN session = Conversations
  BY DEF Compare, ShapeInv
<1>3. CASE Emit(t, <<"compared">>, [turn[t] EXCEPT !.step = "attach"]) /\ Store(t, "official")
  <2> DEFINE w == [turn[t] EXCEPT !.step = "attach"]
  <2>1. Becomes(turn[t], w) /\ w.step = "attach"
    BY <1>1, StepSet
  <2> HIDE DEF w
  <2>2. Emit(t, <<"compared">>, w) /\ Store(t, "official")
    BY <1>3 DEF w
  <2>3. DOMAIN session' = Conversations
    BY <2>2, Stores
  <2>4. /\ Goes(t, "compare", "attach") /\ Says(t, <<"compared">>)
        /\ UNCHANGED raises /\ DOMAIN bus' = Turns /\ raises' \in Nat
    BY <1>1, <1>2, <2>1, <2>2, Emits
  <2> QED BY <1>2, <2>2, <2>3, <2>4 DEF Emitting, Kept
<1>4. CASE Raise(t, <<"compared">>) /\ UNCHANGED session
  BY <1>1, <1>2, <1>4, Raises DEF Emitting, Kept
<1> QED BY <1>3, <1>4 DEF Compare

\* The record is attached to the state.
LEMMA AttachDoes ==
  ASSUME ShapeInv, NEW t \in Threads, Attach(t)
  PROVE  Silent(t, "attach", "complete") /\ Store(t, "final")
<1>1. Goes(t, "attach", "complete")
  <2>1. turn' = [turn EXCEPT ![t] = [turn[t] EXCEPT !.step = "complete"]]
    BY DEF Attach
  <2>2. At(t, "attach") /\ UNCHANGED <<setting, calls>>
    BY DEF Attach
  <2> QED BY <2>1, <2>2, Sets
<1>2. UNCHANGED <<lastTrace, replies, raises, bus>> /\ Store(t, "final")
  BY DEF Attach
<1>3. Kept
  BY <1>2, Stores DEF Kept, ShapeInv
<1> QED BY <1>1, <1>2, <1>3 DEF Silent

\* The turn is complete.
LEMMA CompleteDoes ==
  ASSUME ShapeInv, NEW t \in Threads, Complete(t)
  PROVE  Emitting(t, "complete", "record", <<"completed">>) /\ UNCHANGED session
<1>1. At(t, "complete") /\ turn[t].step # "idle" /\ TurnOK(turn[t])
  BY DEF Complete, At, ShapeInv
<1>2. UNCHANGED <<setting, calls, session, lastTrace, replies>> /\ DOMAIN session = Conversations
  BY DEF Complete, ShapeInv
<1>3. CASE Emit(t, <<"completed">>, [turn[t] EXCEPT !.step = "record"])
  <2> DEFINE w == [turn[t] EXCEPT !.step = "record"]
  <2>1. Becomes(turn[t], w) /\ w.step = "record"
    BY <1>1, StepSet
  <2> HIDE DEF w
  <2>2. Emit(t, <<"completed">>, w)
    BY <1>3 DEF w
  <2> QED BY <1>1, <1>2, <2>1, <2>2, Emits DEF Emitting, Kept
<1>4. CASE Raise(t, <<"completed">>)
  BY <1>1, <1>2, <1>4, Raises DEF Emitting, Kept
<1> QED BY <1>3, <1>4 DEF Complete

\* The trace holds what the bus holds.
LEMMA RecordDoes ==
  ASSUME ShapeInv, NEW t \in Threads, Record(t)
  PROVE  /\ Goes(t, "record", "reply") /\ lastTrace'.turn = Mine(t)
         /\ Kept /\ UNCHANGED <<bus, session, replies, raises>>
<1>1. Goes(t, "record", "reply")
  <2>1. turn' = [turn EXCEPT ![t] = [turn[t] EXCEPT !.step = "reply"]]
    BY DEF Record
  <2>2. At(t, "record") /\ UNCHANGED <<setting, calls>>
    BY DEF Record
  <2> QED BY <2>1, <2>2, Sets
<1>2. UNCHANGED <<bus, session, replies, raises>> /\ lastTrace'.turn = Mine(t)
  BY DEF Record
<1> QED BY <1>1, <1>2 DEF Kept, ShapeInv

\* The reply has what the bus and the last trace hold.
LEMMA ReplyDoes ==
  ASSUME ShapeInv, NEW t \in Threads, Reply(t)
  PROVE  /\ At(t, "reply") /\ Moves(t) /\ turn'[t].step = "idle"
         /\ Kept /\ UNCHANGED <<bus, session, lastTrace, raises>>
         /\ \A r \in replies' \ replies :
              /\ r.turn = Mine(t) /\ r.clears = turn[t].clears
              /\ r.events = bus /\ r.trace = lastTrace.turn
<1>1. At(t, "reply") /\ turn[t].step # "idle"
  BY DEF Reply, At
<1>2. turn' = [turn EXCEPT ![t] = Idle] /\ UNCHANGED <<setting, calls>>
  BY DEF Reply
<1>3. Becomes(turn[t], Idle)
  BY IdleOK DEF Becomes
<1>4. Moves(t) /\ turn'[t] = Idle
  BY <1>1, <1>2, <1>3, OneMoves
<1>5. UNCHANGED <<bus, session, lastTrace, raises>>
  BY DEF Reply
<1>6. \A r \in replies' \ replies :
        /\ r.turn = Mine(t) /\ r.clears = turn[t].clears
        /\ r.events = bus /\ r.trace = lastTrace.turn
  BY DEF Reply
<1>7. Kept
  BY <1>5 DEF Kept, ShapeInv
<1> QED BY <1>1, <1>4, <1>5, <1>6, <1>7, IdleOK

-----------------------------------------------------------------------------
\* The turns of a thread are numbered within the bound, and only threads of the setting
\* have one.
LEMMA ShapeStart == Init => ShapeInv
<1> SUFFICES ASSUME Init PROVE ShapeInv
  OBVIOUS
<1>1. \A t \in Threads : TurnOK(turn[t]) /\ turn[t].step = "idle"
  BY IdleOK DEF Init
<1>2. setting.turns \in Nat
  BY RuntimeAssumption DEF Init
<1>3. calls \in 0..setting.turns
  BY <1>2 DEF Init
<1> QED BY <1>1, <1>3 DEF Init, ShapeInv

\* Whatever becomes of a turn, the shape stays.
LEMMA ShapeMoves ==
  ASSUME ShapeInv, NEW t \in Threads, Moves(t), Kept
  PROVE  ShapeInv'
<1>1. \A u \in Threads : TurnOK(turn'[u]) /\ (turn'[u].step # "idle" => u \in setting.threads)
  <2> TAKE u \in Threads
  <2>1. CASE u = t
    BY <2>1 DEF ShapeInv, Moves, Becomes
  <2>2. CASE u # t
    BY <2>2 DEF ShapeInv, Moves
  <2> QED BY <2>1, <2>2
<1>2. \A u \in Threads : TurnOK(turn[u])'
  BY <1>1 DEF TurnOK
<1> QED BY <1>1, <1>2 DEF ShapeInv, Moves, Kept

\* A new turn has a number of its own and is at its first step.
LEMMA CallDoes ==
  ASSUME ShapeInv, NEW t \in setting.threads, t \in Threads, NEW m, NEW clears \in BOOLEAN,
         Call(t, m, clears)
  PROVE  /\ ShapeInv'
         /\ At(t, "idle") /\ \A u \in Threads \ {t} : turn'[u] = turn[u]
         /\ turn'[t].step = IF clears THEN "clear" ELSE "start"
         /\ turn'[t].clears = clears
         /\ UNCHANGED <<setting, bus, session, lastTrace, replies, raises>>
<1> DEFINE w == [step |-> IF clears THEN "clear" ELSE "start", number |-> calls + 1,
                 message |-> m, clears |-> clears]
<1>1. turn' = [turn EXCEPT ![t] = w] /\ At(t, "idle")
  BY DEF Call
<1>2. /\ UNCHANGED <<setting, bus, session, lastTrace, replies, raises>>
      /\ calls < setting.turns /\ calls' = calls + 1
  BY DEF Call
<1>3. setting.turns \in 0..MaxTurns /\ MaxTurns \in Nat /\ calls \in 0..setting.turns
  BY RuntimeAssumption DEF ShapeInv
<1>4. calls + 1 \in Turns /\ calls' \in 0..setting.turns
  BY <1>2, <1>3 DEF Turns
<1>5. TurnOK(w) /\ w.step = (IF clears THEN "clear" ELSE "start") /\ w.clears = clears
  BY <1>4 DEF TurnOK, Carried
<1> HIDE DEF w
<1>6. DOMAIN turn' = Threads /\ turn'[t] = w /\ \A u \in Threads \ {t} : turn'[u] = turn[u]
  BY <1>1 DEF ShapeInv
<1>7. \A u \in Threads : TurnOK(turn'[u]) /\ (turn'[u].step # "idle" => u \in setting.threads)
  <2> TAKE u \in Threads
  <2>1. CASE u = t
    BY <1>5, <1>6, <2>1
  <2>2. CASE u # t
    BY <1>6, <2>2 DEF ShapeInv
  <2> QED BY <2>1, <2>2
<1>8. \A u \in Threads : TurnOK(turn[u])'
  BY <1>7 DEF TurnOK
<1>9. ShapeInv'
  BY <1>2, <1>4, <1>6, <1>7, <1>8 DEF ShapeInv
<1> QED BY <1>1, <1>2, <1>5, <1>6, <1>9

\* What a step does, whichever it is.
LEMMA StepMoves ==
  ASSUME ShapeInv, NEW t \in Threads, Step(t)
  PROVE  Moves(t) /\ Kept
<1>1. CASE Clear(t)
  BY <1>1, ClearDoes DEF Goes
<1>2. CASE Begin(t)
  BY <1>2, BeginDoes DEF Emitting, Goes, Falls
<1>3. CASE Plan(t)
  BY <1>3, PlanDoes DEF Emitting, Goes, Falls
<1>4. CASE Prepare(t)
  BY <1>4, PrepareDoes DEF Emitting, Goes, Falls
<1>5. CASE Authorize(t)
  BY <1>5, AuthorizeDoes DEF Emitting, Goes, Falls
<1>6. CASE Consolidate(t)
  BY <1>6, ConsolidateDoes DEF Silent, Goes
<1>7. CASE Run(t)
  BY <1>7, RunDoes DEF Silent, Goes
<1>8. CASE Check(t)
  BY <1>8, CheckDoes DEF Silent, Goes
<1>9. CASE Compare(t)
  BY <1>9, CompareDoes DEF Emitting, Goes, Falls
<1>10. CASE Attach(t)
  BY <1>10, AttachDoes DEF Silent, Goes
<1>11. CASE Complete(t)
  BY <1>11, CompleteDoes DEF Emitting, Goes, Falls
<1>12. CASE Record(t)
  BY <1>12, RecordDoes DEF Goes
<1>13. CASE Reply(t)
  BY <1>13, ReplyDoes
<1> QED BY <1>1, <1>2, <1>3, <1>4, <1>5, <1>6, <1>7, <1>8, <1>9, <1>10, <1>11, <1>12, <1>13
        DEF Step

\* The shape is kept.
LEMMA ShapeStep == ShapeInv /\ [Next]_vars => ShapeInv'
<1> SUFFICES ASSUME ShapeInv, [Next]_vars PROVE ShapeInv'
  OBVIOUS
<1>1. ASSUME NEW t \in Threads, t \in setting.threads, NEW m \in setting.messages,
             NEW clears \in setting.clears, Call(t, m, clears)
      PROVE  ShapeInv'
  <2>1. clears \in BOOLEAN
    BY RuntimeAssumption DEF ShapeInv
  <2> QED BY <1>1, <2>1, CallDoes
<1>2. ASSUME NEW t \in Threads, Step(t) PROVE ShapeInv'
  BY <1>2, StepMoves, ShapeMoves
<1>3. CASE UNCHANGED vars
  BY <1>3 DEF vars, ShapeInv
<1> QED BY <1>1, <1>2, <1>3 DEF Next

-----------------------------------------------------------------------------
\* While no subscriber has raised, a conversation whose session holds the state made for
\* the comparison has a thread that is about to commit the official one over it.
SessionInv ==
  raises = 0 =>
    \A c \in Conversations :
      session[c].by = "validation" => \E t \in Threads : At(t, "compare") /\ Talk(t) = c

\* No conversation has a state at the start.
LEMMA SessionStart == Init => SessionInv
BY DEF Init, SessionInv

\* A step that leaves the sessions alone, or puts in something else than the state made
\* for the comparison, and either does not come from the comparison or has put the
\* official state in.
LEMMA SessionMoves ==
  ASSUME ShapeInv, SessionInv, NEW t \in Threads, Moves(t), raises' = 0 => raises = 0,
         \/ /\ UNCHANGED session
            /\ ~At(t, "compare") \/ raises' # 0
         \/ \E by : by # "validation" /\ Store(t, by)
         \/ /\ Store(t, "validation")
            /\ turn'[t].step = "compare"
  PROVE  SessionInv'
<1> SUFFICES ASSUME raises' = 0, NEW c \in Conversations, session'[c].by = "validation"
             PROVE  \E u \in Threads :
                      turn'[u].step = "compare" /\ turn'[u].message.conversation = c
  BY DEF SessionInv, At, Talk
<1>1. ASSUME session[c].by = "validation", ~At(t, "compare") \/ c # Talk(t)
      PROVE  \E u \in Threads : turn'[u].step = "compare" /\ turn'[u].message.conversation = c
  <2>1. PICK u \in Threads : At(u, "compare") /\ Talk(u) = c
    BY <1>1 DEF SessionInv
  <2>2. u # t
    BY <1>1, <2>1
  <2>3. turn'[u] = turn[u]
    BY <2>2 DEF Moves
  <2> QED BY <2>1, <2>3 DEF At, Talk
<1>2. CASE UNCHANGED session /\ (~At(t, "compare") \/ raises' # 0)
  BY <1>1, <1>2
<1>3. ASSUME NEW by, by # "validation", Store(t, by)
      PROVE  \E u \in Threads : turn'[u].step = "compare" /\ turn'[u].message.conversation = c
  <2>1. c # Talk(t) /\ session'[c] = session[c]
    BY <1>3, Stores
  <2> QED BY <1>1, <2>1
<1>4. CASE Store(t, "validation") /\ turn'[t].step = "compare"
  <2>1. CASE c = Talk(t)
    <3>1. turn'[t].message = turn[t].message
      BY <1>4 DEF Moves, Becomes, SameTurn
    <3> QED BY <1>4, <2>1, <3>1 DEF Talk
  <2>2. CASE c # Talk(t)
    <3>1. session'[c] = session[c]
      BY <1>4, <2>2, Stores
    <3> QED BY <1>1, <2>2, <3>1
  <2> QED BY <2>1, <2>2
<1> QED BY <1>2, <1>3, <1>4

-----------------------------------------------------------------------------
\* A subscriber that raised has raised for good.
LEMMA RaisesStay ==
  ASSUME ShapeInv, NEW t \in Threads, Step(t)
  PROVE  raises' = 0 => raises = 0
<1>1. \A events : Raise(t, events) => raises' = raises + 1 /\ raises \in Nat
  BY DEF Raise, ShapeInv
<1>2. (\E events : Raise(t, events)) \/ UNCHANGED raises
  BY DEF Step, Clear, Begin, Plan, Prepare, Authorize, Consolidate, Run, Check, Compare, Attach,
         Complete, Record, Reply, Emit
<1> QED BY <1>1, <1>2

\* The sessions are kept.
LEMMA SessionStep == ShapeInv /\ SessionInv /\ [Next]_vars => SessionInv'
<1> SUFFICES ASSUME ShapeInv, SessionInv, [Next]_vars PROVE SessionInv'
  OBVIOUS
<1>1. ASSUME NEW t \in Threads, t \in setting.threads, NEW m \in setting.messages,
             NEW clears \in setting.clears, Call(t, m, clears)
      PROVE  SessionInv'
  <2>1. clears \in BOOLEAN
    BY RuntimeAssumption DEF ShapeInv
  <2>2. /\ At(t, "idle") /\ UNCHANGED <<session, raises>>
        /\ \A u \in Threads \ {t} : turn'[u] = turn[u]
    BY <1>1, <2>1, CallDoes
  <2>3. ASSUME NEW u \in Threads, At(u, "compare")
        PROVE  turn'[u] = turn[u]
    BY <2>2, <2>3 DEF At
  <2> QED BY <2>2, <2>3 DEF SessionInv, At, Talk
<1>2. ASSUME NEW t \in Threads, Step(t) PROVE SessionInv'
  <2>1. Moves(t) /\ (raises' = 0 => raises = 0)
    BY <1>2, StepMoves, RaisesStay
  <2>2. CASE Clear(t)
    BY <2>1, <2>2, ClearDoes, SessionMoves DEF Goes, At
  <2>3. CASE Begin(t)
    BY <2>1, <2>3, BeginDoes, SessionMoves DEF Emitting, Goes, At
  <2>4. CASE Plan(t)
    BY <2>1, <2>4, PlanDoes, SessionMoves DEF Emitting, Goes, At
  <2>5. CASE Prepare(t)
    BY <2>1, <2>5, PrepareDoes, SessionMoves DEF Emitting, Goes, At
  <2>6. CASE Authorize(t)
    BY <2>1, <2>6, AuthorizeDoes, SessionMoves DEF Emitting, Goes, At
  <2>7. CASE Consolidate(t)
    BY <2>1, <2>7, ConsolidateDoes, SessionMoves DEF Silent, Goes, At
  <2>8. CASE Run(t)
    BY <2>1, <2>8, RunDoes, SessionMoves
  <2>9. CASE Check(t)
    <3>1. /\ At(t, "validate") /\ turn'[t].step = "compare"
          /\ Store(t, "validation") \/ UNCHANGED session
      BY <2>9, CheckDoes DEF Silent, Goes
    <3> QED BY <2>1, <3>1, SessionMoves DEF At
  <2>10. CASE Compare(t)
    <3>1. Store(t, "official") \/ (Falls(t) /\ UNCHANGED session)
      BY <2>10, CompareDoes
    <3> QED BY <2>1, <3>1, SessionMoves DEF Falls
  <2>11. CASE Attach(t)
    BY <2>1, <2>11, AttachDoes, SessionMoves
  <2>12. CASE Complete(t)
    BY <2>1, <2>12, CompleteDoes, SessionMoves DEF Emitting, Goes, At
  <2>13. CASE Record(t)
    BY <2>1, <2>13, RecordDoes, SessionMoves DEF Goes, At
  <2>14. CASE Reply(t)
    BY <2>1, <2>14, ReplyDoes, SessionMoves DEF At
  <2> QED BY <1>2, <2>2, <2>3, <2>4, <2>5, <2>6, <2>7, <2>8, <2>9, <2>10, <2>11, <2>12, <2>13,
             <2>14 DEF Step
<1>3. CASE UNCHANGED vars
  BY <1>3 DEF vars, SessionInv, At, Talk
<1> QED BY <1>1, <1>2, <1>3 DEF Next

\* Between turns the session of a conversation holds the state of the official engine,
\* never the one made for the comparison, unless a subscriber raised: for any threads,
\* conversations and messages, whatever the engines make of a plan.
THEOREM SessionsStayOfficial == Spec => []SessionIsOfficial
<1>1. SessionInv => SessionIsOfficial
  BY DEF SessionInv, SessionIsOfficial, At
<1> QED BY <1>1, ShapeStart, ShapeStep, SessionStart, SessionStep, PTL DEF Spec

-----------------------------------------------------------------------------
\* The bus holds the events of one turn only.
Only(n, events) == [k \in Turns |-> IF k = n THEN events ELSE <<>>]

\* The events of a turn by the step it is at.
Opened == <<"started">>
Planned == Opened \o Planning
Judged == Planned \o <<"policy_evaluated">>
Authorized == Judged \o <<"authority_resolved">>
Compared == Authorized \o <<"compared">>
Completed == Compared \o <<"completed">>

Heard(step) ==
  CASE step = "start" -> <<>>
    [] step = "plan" -> Opened
    [] step = "policy" -> Planned
    [] step = "authorize" -> Judged
    [] step \in {"consolidate", "execute", "validate", "compare"} -> Authorized
    [] step \in {"attach", "complete"} -> Compared
    [] step \in {"record", "reply"} -> Completed

\* When one thread runs, the bus holds exactly what its turn has published since it was
\* cleared, and the last trace is its own once it has been recorded.
OutputInv ==
  /\ \A t \in Threads : Alone /\ turn[t].step # "idle" =>
       /\ turn[t].step # "clear" /\ turn[t].clears => bus = Only(Mine(t), Heard(turn[t].step))
       /\ turn[t].step = "reply" => lastTrace.turn = Mine(t)
  /\ OutputIsOwn

\* A turn that is complete has published all its events.
LEMMA AllHeard == Completed = AllEvents
BY DEF Completed, Compared, Authorized, Judged, Planned, Opened, Planning, AllEvents

\* What a step says follows on what was heard before it.
LEMMA HeardNext ==
  /\ Heard("plan") = Heard("start") \o <<"started">>
  /\ Heard("policy") = Heard("plan") \o Planning
  /\ Heard("authorize") = Heard("policy") \o <<"policy_evaluated">>
  /\ Heard("consolidate") = Heard("authorize") \o <<"authority_resolved">>
  /\ Heard("attach") = Heard("compare") \o <<"compared">>
  /\ Heard("record") = Heard("complete") \o <<"completed">>
<1>1. Opened = <<>> \o <<"started">>
  BY DEF Opened
<1> QED BY <1>1 DEF Heard, Planned, Judged, Authorized, Compared, Completed

\* While the bus holds one turn only, what the turn says is what it holds.
LEMMA OnlySays ==
  ASSUME NEW n \in Turns, NEW before, NEW events
  PROVE  [Only(n, before) EXCEPT ![n] = @ \o events] = Only(n, before \o events)
BY DEF Only

\* The one thread that runs.
LEMMA OneRuns ==
  ASSUME ShapeInv, Alone, NEW t \in Threads, NEW u \in Threads,
         turn[t].step # "idle", turn[u].step # "idle"
  PROVE  t = u
BY DEF ShapeInv, Alone

-----------------------------------------------------------------------------
\* What is true of a thread and what its bus and trace must hold.
Fits(v, b, trace) ==
  v.step # "idle" =>
    /\ v.step # "clear" /\ v.clears => b = Only(v.number, Heard(v.step))
    /\ v.step = "reply" => trace.turn = v.number

\* Nothing was heard at the start.
LEMMA OutputStart == Init => OutputInv
BY IdleOK DEF Init, OutputInv, OutputIsOwn

\* While one thread runs its step concerns no other.
LEMMA OutputMoves ==
  ASSUME ShapeInv, OutputInv, NEW t \in Threads, Moves(t), UNCHANGED replies,
         Alone => Fits(turn'[t], bus', lastTrace')
  PROVE  OutputInv'
<1>1. Alone' <=> Alone
  BY DEF Moves, Alone
<1>2. OutputIsOwn'
  BY <1>1 DEF OutputInv, OutputIsOwn
<1>3. ASSUME NEW u \in Threads, Alone, turn'[u].step # "idle"
      PROVE  Fits(turn'[u], bus', lastTrace')
  <2>1. CASE u = t
    BY <1>3, <2>1
  <2>2. CASE u # t
    <3>1. turn[u].step # "idle" /\ turn[t].step # "idle"
      BY <1>3, <2>2 DEF Moves
    <3> QED BY <1>3, <2>2, <3>1, OneRuns
  <2> QED BY <2>1, <2>2
<1> QED BY <1>1, <1>2, <1>3 DEF OutputInv, Fits, Mine

\* A thread with a turn is the one that runs.
LEMMA OutputBefore ==
  ASSUME OutputInv, Alone, NEW t \in Threads
  PROVE  Fits(turn[t], bus, lastTrace)
BY DEF OutputInv, Fits, Mine

\* A step that publishes: what was heard grows by what it says.
LEMMA EmittingKeeps ==
  ASSUME ShapeInv, OutputInv, NEW t \in Threads, NEW from, NEW to, NEW events,
         Emitting(t, from, to, events), from \notin {"idle", "clear"}, to \notin {"idle", "reply"},
         Heard(to) = Heard(from) \o events
  PROVE  OutputInv'
<1>1. UNCHANGED replies
  BY DEF Emitting
<1>2. CASE Goes(t, from, to) /\ Says(t, events)
  <2>1. Moves(t) /\ At(t, from) /\ turn'[t].step = to /\ TurnOK(turn[t])
    BY <1>2 DEF Goes, ShapeInv
  <2>2. /\ turn'[t].number = Mine(t) /\ turn'[t].clears = turn[t].clears /\ Mine(t) \in Turns
    BY <2>1 DEF Moves, Becomes, SameTurn, Mine, TurnOK
  <2>3. ASSUME Alone, turn[t].clears
        PROVE  bus' = Only(Mine(t), Heard(to))
    <3>1. bus = Only(Mine(t), Heard(from))
      BY <2>1, <2>3, OutputBefore DEF Fits, At, Mine
    <3>2. bus' = [Only(Mine(t), Heard(from)) EXCEPT ![Mine(t)] = @ \o events]
      BY <1>2, <3>1 DEF Says
    <3> QED BY <2>2, <3>2, OnlySays
  <2>4. Alone => Fits(turn'[t], bus', lastTrace')
    BY <2>1, <2>2, <2>3 DEF Fits
  <2> QED BY <1>1, <2>1, <2>4, OutputMoves
<1>3. CASE Falls(t)
  <2>1. Moves(t) /\ Fits(turn'[t], bus', lastTrace')
    BY <1>3 DEF Falls, Fits
  <2> QED BY <1>1, <2>1, OutputMoves
<1> QED BY <1>2, <1>3 DEF Emitting

\* A step that publishes nothing.
LEMMA SilentKeeps ==
  ASSUME ShapeInv, OutputInv, NEW t \in Threads, NEW from, NEW to, Goes(t, from, to),
         UNCHANGED <<bus, replies>>, from \notin {"idle", "clear"},
         to = "reply" => lastTrace'.turn = Mine(t), Heard(to) = Heard(from)
  PROVE  OutputInv'
<1>1. Moves(t) /\ At(t, from) /\ turn'[t].step = to /\ turn[t].step # "idle"
  BY DEF Goes, At
<1>2. Alone => Fits(turn[t], bus, lastTrace)
  BY OutputBefore
<1>3. to # "idle" => turn'[t].number = Mine(t) /\ turn'[t].clears = turn[t].clears
  BY <1>1 DEF Moves, Becomes, SameTurn, Mine
<1>4. Alone => Fits(turn'[t], bus', lastTrace')
  BY <1>1, <1>2, <1>3 DEF Fits, At, Mine
<1> QED BY <1>1, <1>4, OutputMoves

\* The output is kept.
LEMMA OutputStep == ShapeInv /\ OutputInv /\ [Next]_vars => OutputInv'
<1> SUFFICES ASSUME ShapeInv, OutputInv, [Next]_vars PROVE OutputInv'
  OBVIOUS
<1>1. ASSUME NEW t \in Threads, t \in setting.threads, NEW m \in setting.messages,
             NEW clears \in setting.clears, Call(t, m, clears)
      PROVE  OutputInv'
  <2>1. clears \in BOOLEAN
    BY RuntimeAssumption DEF ShapeInv
  <2>2. /\ At(t, "idle") /\ \A u \in Threads \ {t} : turn'[u] = turn[u]
        /\ turn'[t].step = IF clears THEN "clear" ELSE "start"
        /\ turn'[t].clears = clears
        /\ UNCHANGED <<setting, bus, lastTrace, replies>>
    BY <1>1, <2>1, CallDoes
  <2>3. Alone' <=> Alone
    BY <2>2 DEF Alone
  <2>4. OutputIsOwn'
    BY <2>2, <2>3 DEF OutputInv, OutputIsOwn
  <2>5. Fits(turn'[t], bus', lastTrace')
    BY <2>1, <2>2 DEF Fits
  <2>6. ASSUME NEW u \in Threads, Alone PROVE Fits(turn'[u], bus', lastTrace')
    <3>1. CASE u = t
      BY <2>5, <3>1
    <3>2. CASE u # t
      <4>1. Fits(turn[u], bus, lastTrace)
        BY <2>6, OutputBefore
      <4> QED BY <2>2, <3>2, <4>1
    <3> QED BY <3>1, <3>2
  <2> QED BY <2>3, <2>4, <2>6 DEF OutputInv, Fits, Mine
<1>2. ASSUME NEW t \in Threads, Step(t) PROVE OutputInv'
  <2>1. CASE Clear(t)
    <3>1. /\ Goes(t, "clear", "start") /\ bus' = [n \in Turns |-> <<>>] /\ UNCHANGED replies
      BY <2>1, ClearDoes
    <3>2. bus' = Only(turn'[t].number, Heard("start"))
      BY <3>1 DEF Only, Heard
    <3> QED BY <3>1, <3>2, OutputMoves DEF Goes, Fits
  <2>2. CASE Begin(t)
    BY <2>2, BeginDoes, HeardNext, EmittingKeeps
  <2>3. CASE Plan(t)
    <3>1. Emitting(t, "plan", "policy", Planning)
      BY <2>3, PlanDoes
    <3>2. Heard("policy") = Heard("plan") \o Planning
      BY HeardNext
    <3> QED BY <3>1, <3>2, EmittingKeeps
  <2>4. CASE Prepare(t)
    BY <2>4, PrepareDoes, HeardNext, EmittingKeeps
  <2>5. CASE Authorize(t)
    BY <2>5, AuthorizeDoes, HeardNext, EmittingKeeps
  <2>6. CASE Consolidate(t)
    <3>1. Heard("execute") = Heard("consolidate")
      BY DEF Heard
    <3> QED BY <2>6, <3>1, ConsolidateDoes, SilentKeeps DEF Silent
  <2>7. CASE Run(t)
    <3>1. Heard("validate") = Heard("execute")
      BY DEF Heard
    <3> QED BY <2>7, <3>1, RunDoes, SilentKeeps DEF Silent
  <2>8. CASE Check(t)
    <3>1. Heard("compare") = Heard("validate")
      BY DEF Heard
    <3> QED BY <2>8, <3>1, CheckDoes, SilentKeeps DEF Silent
  <2>9. CASE Compare(t)
    BY <2>9, CompareDoes, HeardNext, EmittingKeeps
  <2>10. CASE Attach(t)
    <3>1. Heard("complete") = Heard("attach")
      BY DEF Heard
    <3> QED BY <2>10, <3>1, AttachDoes, SilentKeeps DEF Silent
  <2>11. CASE Complete(t)
    BY <2>11, CompleteDoes, HeardNext, EmittingKeeps
  <2>12. CASE Record(t)
    <3>1. Heard("reply") = Heard("record")
      BY DEF Heard
    <3> QED BY <2>12, <3>1, RecordDoes, SilentKeeps
  <2>13. CASE Reply(t)
    <3>1. /\ At(t, "reply") /\ Moves(t) /\ turn'[t].step = "idle"
          /\ \A r \in replies' \ replies :
               /\ r.turn = Mine(t) /\ r.clears = turn[t].clears
               /\ r.events = bus /\ r.trace = lastTrace.turn
      BY <2>13, ReplyDoes
    <3>2. Alone' <=> Alone
      BY <3>1 DEF Moves, Alone
    <3>3. ASSUME NEW r \in replies', Alone, r.clears
          PROVE  /\ r.trace = r.turn
                 /\ r.events = [n \in Turns |-> IF n = r.turn THEN AllEvents ELSE <<>>]
      <4>1. CASE r \in replies
        BY <3>3, <4>1 DEF OutputInv, OutputIsOwn
      <4>2. CASE r \notin replies
        <5>1. Fits(turn[t], bus, lastTrace)
          BY <3>3, OutputBefore
        <5>2. r.turn = Mine(t) /\ turn[t].clears /\ r.events = bus /\ r.trace = lastTrace.turn
          BY <3>1, <3>3, <4>2
        <5>3. bus = Only(Mine(t), Heard("reply")) /\ lastTrace.turn = Mine(t)
          BY <3>1, <5>1, <5>2 DEF Fits, At, Mine
        <5>4. Heard("reply") = AllEvents
          BY AllHeard DEF Heard
        <5> QED BY <5>2, <5>3, <5>4 DEF Only
      <4> QED BY <4>1, <4>2
    <3>4. OutputIsOwn'
      BY <3>2, <3>3 DEF OutputIsOwn
    <3>5. ASSUME NEW u \in Threads, Alone PROVE turn'[u].step = "idle"
      <4>1. CASE u = t
        BY <3>1, <4>1
      <4>2. CASE u # t
        <5>1. turn'[u] = turn[u] /\ turn[t].step # "idle"
          BY <3>1, <4>2 DEF Moves
        <5> QED BY <3>5, <4>2, <5>1, OneRuns
      <4> QED BY <4>1, <4>2
    <3> QED BY <3>2, <3>4, <3>5 DEF OutputInv
  <2> QED BY <1>2, <2>1, <2>2, <2>3, <2>4, <2>5, <2>6, <2>7, <2>8, <2>9, <2>10, <2>11, <2>12,
             <2>13 DEF Step
<1>3. CASE UNCHANGED vars
  <2>1. Alone' <=> Alone
    BY <1>3 DEF vars, Alone
  <2> QED BY <1>3, <2>1 DEF vars, OutputInv, OutputIsOwn, Mine
<1> QED BY <1>1, <1>2, <1>3 DEF Next

\* The caller of process_output gets the events of its own turn, all of them and in order,
\* no other's, and the trace of its own turn, as long as one thread runs: whatever the
\* turns before were, and however their subscribers ended them.
THEOREM OutputStaysOwn == Spec => []OutputIsOwn
<1>1. OutputInv => OutputIsOwn
  BY DEF OutputInv
<1> QED BY <1>1, ShapeStart, ShapeStep, OutputStart, OutputStep, PTL DEF Spec

-----------------------------------------------------------------------------
\* The steps before a turn is put into the memory.
Forgetful == {"clear", "start", "plan", "policy", "authorize", "consolidate"}

\* A number is one turn's, and a turn is in the memory from its memory step on, once.
MemoryInv ==
  /\ DOMAIN episodes = Turns
  /\ \A n \in Turns : episodes[n] \in {0, 1} /\ (n > calls => episodes[n] = 0)
  /\ \A t \in Threads : turn[t].step # "idle" =>
       /\ Mine(t) \in 1..calls
       /\ episodes[Mine(t)] = IF turn[t].step \in Forgetful THEN 0 ELSE 1
       /\ \A u \in Threads \ {t} : turn[u].step # "idle" => Mine(u) # Mine(t)
  /\ \A r \in replies :
       /\ r.turn \in Turns /\ r.turn <= calls /\ episodes[r.turn] = 1
       /\ \A t \in Threads : turn[t].step # "idle" => Mine(t) # r.turn

\* The memory is empty at the start.
LEMMA MemoryStart == Init => MemoryInv
BY IdleOK DEF Init, MemoryInv

\* A step that does not touch the memory, and does not pass its step.
LEMMA MemoryMoves ==
  ASSUME ShapeInv, MemoryInv, NEW t \in Threads, Moves(t), UNCHANGED episodes,
         turn'[t].step # "idle" => (turn'[t].step \in Forgetful <=> turn[t].step \in Forgetful),
         \A r \in replies' \ replies :
           r.turn = Mine(t) /\ turn[t].step \notin Forgetful /\ turn'[t].step = "idle"
  PROVE  MemoryInv'
<1>1. turn[t].step # "idle" /\ Mine(t) \in Turns /\ UNCHANGED calls
  BY DEF Moves, ShapeInv, TurnOK, Mine
<1>2. turn'[t].step # "idle" => turn'[t].number = turn[t].number
  BY DEF Moves, Becomes, SameTurn
<1>3. \A u \in Threads \ {t} : turn'[u] = turn[u]
  BY DEF Moves
<1>4. ASSUME NEW u \in Threads, turn'[u].step # "idle"
      PROVE  /\ turn[u].step # "idle" /\ turn'[u].number = turn[u].number
             /\ turn'[u].step \in Forgetful <=> turn[u].step \in Forgetful
  <2>1. CASE u = t
    BY <1>1, <1>2, <1>4, <2>1
  <2>2. CASE u # t
    BY <1>3, <1>4, <2>2
  <2> QED BY <2>1, <2>2
<1>5. \A u \in Threads : turn'[u].step # "idle" =>
        /\ turn'[u].number \in 1..calls'
        /\ episodes'[turn'[u].number] = IF turn'[u].step \in Forgetful THEN 0 ELSE 1
        /\ \A w \in Threads \ {u} : turn'[w].step # "idle" => turn'[w].number # turn'[u].number
  BY <1>1, <1>4 DEF MemoryInv, Mine
<1>6. ASSUME NEW r \in replies'
      PROVE  /\ r.turn \in Turns /\ r.turn <= calls' /\ episodes'[r.turn] = 1
             /\ \A u \in Threads : turn'[u].step # "idle" => turn'[u].number # r.turn
  <2>1. CASE r \in replies
    BY <1>1, <1>4, <2>1 DEF MemoryInv, Mine
  <2>2. CASE r \notin replies
    <3>1. r.turn = Mine(t) /\ turn[t].step \notin Forgetful /\ turn'[t].step = "idle"
      BY <2>2
    <3>2. Mine(t) \in 1..calls /\ episodes[Mine(t)] = 1
      BY <1>1, <3>1 DEF MemoryInv
    <3>3. ASSUME NEW u \in Threads, turn'[u].step # "idle" PROVE turn'[u].number # r.turn
      <4>1. u # t /\ turn[u].step # "idle" /\ turn'[u] = turn[u]
        BY <1>3, <3>1, <3>3
      <4> QED BY <1>1, <3>1, <4>1 DEF MemoryInv, Mine
    <3> QED BY <1>1, <3>1, <3>2, <3>3
  <2> QED BY <2>1, <2>2
<1>7. DOMAIN episodes' = Turns
      /\ \A n \in Turns : episodes'[n] \in {0, 1} /\ (n > calls' => episodes'[n] = 0)
  BY <1>1 DEF MemoryInv
<1> QED BY <1>5, <1>6, <1>7 DEF MemoryInv, Mine

\* The memory is kept.
LEMMA MemoryStep == ShapeInv /\ MemoryInv /\ [Next]_vars => MemoryInv'
<1> SUFFICES ASSUME ShapeInv, MemoryInv, [Next]_vars PROVE MemoryInv'
  OBVIOUS
<1>1. ASSUME NEW t \in Threads, t \in setting.threads, NEW m \in setting.messages,
             NEW clears \in setting.clears, Call(t, m, clears)
      PROVE  MemoryInv'
  <2>1. clears \in BOOLEAN
    BY RuntimeAssumption DEF ShapeInv
  <2>2. /\ At(t, "idle") /\ \A u \in Threads \ {t} : turn'[u] = turn[u]
        /\ turn'[t].step \in {"clear", "start"} /\ UNCHANGED replies
    BY <1>1, <2>1, CallDoes
  <2>3. /\ calls < setting.turns /\ calls' = calls + 1 /\ turn'[t].number = calls + 1
        /\ UNCHANGED episodes
    BY <1>1 DEF Call, ShapeInv
  <2>4. calls \in Nat /\ calls + 1 \in Turns
    <3>1. setting.turns \in 0..MaxTurns /\ MaxTurns \in Nat /\ calls \in 0..setting.turns
      BY RuntimeAssumption DEF ShapeInv
    <3> QED BY <2>3, <3>1 DEF Turns
  <2>5. /\ DOMAIN episodes' = Turns
        /\ \A n \in Turns : episodes'[n] \in {0, 1} /\ (n > calls' => episodes'[n] = 0)
    BY <2>3, <2>4 DEF MemoryInv, Turns
  <2>6. episodes[calls + 1] = 0 /\ turn'[t].step \in Forgetful
    BY <2>2, <2>4 DEF MemoryInv, Forgetful
  <2>7. ASSUME NEW u \in Threads \ {t}, turn'[u].step # "idle"
        PROVE  /\ turn'[u] = turn[u] /\ turn'[u].number \in 1..calls /\ turn'[u].number # calls + 1
    BY <2>2, <2>4, <2>7 DEF MemoryInv, Mine
  <2>8. \A u \in Threads : turn'[u].step # "idle" =>
          /\ turn'[u].number \in 1..calls'
          /\ episodes'[turn'[u].number] = IF turn'[u].step \in Forgetful THEN 0 ELSE 1
          /\ \A w \in Threads \ {u} : turn'[w].step # "idle" => turn'[w].number # turn'[u].number
    <3> TAKE u \in Threads
    <3> HAVE turn'[u].step # "idle"
    <3>1. turn'[u].number \in 1..calls'
      BY <2>3, <2>4, <2>7
    <3>2. episodes'[turn'[u].number] = IF turn'[u].step \in Forgetful THEN 0 ELSE 1
      <4>1. CASE u = t
        BY <2>3, <2>6, <4>1
      <4>2. CASE u # t
        BY <2>3, <2>7, <4>2 DEF MemoryInv, Mine
      <4> QED BY <4>1, <4>2
    <3>3. ASSUME NEW w \in Threads \ {u}, turn'[w].step # "idle"
          PROVE  turn'[w].number # turn'[u].number
      <4>1. CASE u = t \/ w = t
        BY <2>3, <2>7, <3>3, <4>1
      <4>2. CASE u # t /\ w # t
        BY <2>7, <3>3, <4>2 DEF MemoryInv, Mine
      <4> QED BY <4>1, <4>2
    <3> QED BY <3>1, <3>2, <3>3
  <2>9. ASSUME NEW r \in replies'
        PROVE  /\ r.turn \in Turns /\ r.turn <= calls' /\ episodes'[r.turn] = 1
               /\ \A u \in Threads : turn'[u].step # "idle" => turn'[u].number # r.turn
    <3>1. /\ r \in replies /\ r.turn \in Turns /\ r.turn <= calls /\ episodes[r.turn] = 1
      BY <2>2, <2>9 DEF MemoryInv
    <3>2. r.turn <= calls' /\ r.turn # calls + 1
      BY <2>3, <2>4, <3>1 DEF Turns
    <3>3. ASSUME NEW u \in Threads, turn'[u].step # "idle" PROVE turn'[u].number # r.turn
      <4>1. CASE u = t
        BY <2>3, <3>2, <4>1
      <4>2. CASE u # t
        BY <2>7, <3>1, <3>3, <4>2 DEF MemoryInv, Mine
      <4> QED BY <4>1, <4>2
    <3> QED BY <2>3, <3>1, <3>2, <3>3
  <2> QED BY <2>5, <2>8, <2>9 DEF MemoryInv, Mine
<1>2. ASSUME NEW t \in Threads, Step(t) PROVE MemoryInv'
  <2>1. Moves(t)
    BY <1>2, StepMoves
  <2>2. CASE Clear(t)
    <3>1. UNCHANGED episodes
      BY <2>2 DEF Clear
    <3> QED BY <2>1, <2>2, <3>1, ClearDoes, MemoryMoves DEF Goes, At, Forgetful
  <2>3. CASE Begin(t)
    <3>1. UNCHANGED episodes
      BY <2>3 DEF Begin
    <3> QED BY <2>1, <2>3, <3>1, BeginDoes, MemoryMoves DEF Emitting, Goes, Falls, At, Forgetful
  <2>4. CASE Plan(t)
    <3>1. UNCHANGED episodes
      BY <2>4 DEF Plan
    <3> QED BY <2>1, <2>4, <3>1, PlanDoes, MemoryMoves DEF Emitting, Goes, Falls, At, Forgetful
  <2>5. CASE Prepare(t)
    <3>1. UNCHANGED episodes
      BY <2>5 DEF Prepare
    <3> QED BY <2>1, <2>5, <3>1, PrepareDoes, MemoryMoves DEF Emitting, Goes, Falls, At, Forgetful
  <2>6. CASE Authorize(t)
    <3>1. UNCHANGED episodes
      BY <2>6 DEF Authorize
    <3> QED BY <2>1, <2>6, <3>1, AuthorizeDoes, MemoryMoves
            DEF Emitting, Goes, Falls, At, Forgetful
  <2>7. CASE Consolidate(t)
    <3>1. Goes(t, "consolidate", "execute") /\ UNCHANGED replies
      BY <2>7, ConsolidateDoes DEF Silent
    <3>2. /\ UNCHANGED calls /\ episodes' = [episodes EXCEPT ![Mine(t)] = @ + 1]
      BY <2>7 DEF Consolidate
    <3>3. /\ turn[t].step = "consolidate" /\ turn'[t].step = "execute"
          /\ turn'[t].number = turn[t].number
          /\ \A u \in Threads \ {t} : turn'[u] = turn[u]
      BY <3>1 DEF Goes, At, Moves, Becomes, SameTurn
    <3>4. Mine(t) \in Turns /\ Mine(t) \in 1..calls /\ episodes[Mine(t)] = 0
      BY <3>3 DEF ShapeInv, TurnOK, MemoryInv, Mine, Forgetful
    <3>5. /\ episodes'[Mine(t)] = 1 /\ DOMAIN episodes' = Turns
          /\ \A n \in Turns \ {Mine(t)} : episodes'[n] = episodes[n]
      BY <3>2, <3>4 DEF MemoryInv
    <3>6. \A n \in Turns : episodes'[n] \in {0, 1} /\ (n > calls' => episodes'[n] = 0)
      <4> TAKE n \in Turns
      <4>1. CASE n = Mine(t)
        <5>1. ~(n > calls)
          BY <3>4, <4>1 DEF ShapeInv
        <5> QED BY <3>2, <3>5, <4>1, <5>1
      <4>2. CASE n # Mine(t)
        <5>1. episodes[n] \in {0, 1} /\ (n > calls => episodes[n] = 0)
          BY DEF MemoryInv
        <5> QED BY <3>2, <3>5, <4>2, <5>1
      <4> QED BY <4>1, <4>2
    <3>7. "execute" \notin Forgetful
      BY DEF Forgetful
    <3>8. ASSUME NEW u \in Threads, turn'[u].step # "idle"
          PROVE  /\ turn'[u].number \in 1..calls'
                 /\ episodes'[turn'[u].number] = IF turn'[u].step \in Forgetful THEN 0 ELSE 1
                 /\ \A w \in Threads \ {u} :
                      turn'[w].step # "idle" => turn'[w].number # turn'[u].number
      <4>1. turn[u].step # "idle" /\ turn'[u].number = turn[u].number
        BY <3>3, <3>8
      <4>2. turn[u].number \in 1..calls /\ turn[u].number \in Turns
        BY <4>1 DEF MemoryInv, Mine, ShapeInv, TurnOK
      <4>3. \A w \in Threads \ {u} : turn'[w].step # "idle" => turn'[w].number # turn'[u].number
        BY <3>3, <4>1 DEF MemoryInv, Mine
      <4>4. CASE u = t
        BY <3>2, <3>3, <3>5, <3>7, <4>1, <4>2, <4>3, <4>4 DEF Mine
      <4>5. CASE u # t
        <5>1. turn[u].number # Mine(t) /\ turn'[u] = turn[u]
          BY <3>3, <4>1, <4>5 DEF MemoryInv, Mine
        <5>2. episodes[turn[u].number] = IF turn[u].step \in Forgetful THEN 0 ELSE 1
          BY <4>1 DEF MemoryInv, Mine
        <5> QED BY <3>2, <3>5, <4>1, <4>2, <4>3, <5>1, <5>2
      <4> QED BY <4>4, <4>5
    <3>9. ASSUME NEW r \in replies'
          PROVE  /\ r.turn \in Turns /\ r.turn <= calls' /\ episodes'[r.turn] = 1
                 /\ \A u \in Threads : turn'[u].step # "idle" => turn'[u].number # r.turn
      <4>1. /\ r.turn \in Turns /\ r.turn <= calls /\ episodes[r.turn] = 1
            /\ \A u \in Threads : turn[u].step # "idle" => turn[u].number # r.turn
        BY <3>1, <3>9 DEF MemoryInv, Mine
      <4>2. Mine(t) # r.turn
        BY <3>3, <4>1 DEF Mine
      <4>3. \A u \in Threads : turn'[u].step # "idle" => turn'[u].number # r.turn
        BY <3>3, <4>1
      <4> QED BY <3>2, <3>5, <4>1, <4>2, <4>3
    <3> QED BY <3>5, <3>6, <3>8, <3>9 DEF MemoryInv, Mine
  <2>8. CASE Run(t)
    <3>1. UNCHANGED episodes
      BY <2>8 DEF Run
    <3> QED BY <2>1, <2>8, <3>1, RunDoes, MemoryMoves DEF Silent, Goes, At, Forgetful
  <2>9. CASE Check(t)
    <3>1. UNCHANGED episodes
      BY <2>9 DEF Check
    <3> QED BY <2>1, <2>9, <3>1, CheckDoes, MemoryMoves DEF Silent, Goes, At, Forgetful
  <2>10. CASE Compare(t)
    <3>1. UNCHANGED episodes
      BY <2>10 DEF Compare
    <3> QED BY <2>1, <2>10, <3>1, CompareDoes, MemoryMoves
            DEF Emitting, Goes, Falls, At, Forgetful
  <2>11. CASE Attach(t)
    <3>1. UNCHANGED episodes
      BY <2>11 DEF Attach
    <3> QED BY <2>1, <2>11, <3>1, AttachDoes, MemoryMoves DEF Silent, Goes, At, Forgetful
  <2>12. CASE Complete(t)
    <3>1. UNCHANGED episodes
      BY <2>12 DEF Complete
    <3> QED BY <2>1, <2>12, <3>1, CompleteDoes, MemoryMoves
            DEF Emitting, Goes, Falls, At, Forgetful
  <2>13. CASE Record(t)
    <3>1. UNCHANGED episodes
      BY <2>13 DEF Record
    <3> QED BY <2>1, <2>13, <3>1, RecordDoes, MemoryMoves DEF Goes, At, Forgetful
  <2>14. CASE Reply(t)
    <3>1. UNCHANGED episodes
      BY <2>14 DEF Reply
    <3>2. At(t, "reply") /\ turn'[t].step = "idle" /\ \A r \in replies' \ replies : r.turn = Mine(t)
      BY <2>14, ReplyDoes
    <3> QED BY <2>1, <3>1, <3>2, MemoryMoves DEF At, Forgetful
  <2> QED BY <1>2, <2>2, <2>3, <2>4, <2>5, <2>6, <2>7, <2>8, <2>9, <2>10, <2>11, <2>12, <2>13,
             <2>14 DEF Step
<1>3. CASE UNCHANGED vars
  BY <1>3 DEF vars, MemoryInv, Mine
<1> QED BY <1>1, <1>2, <1>3 DEF Next

\* A turn is put into the memory once, however many threads run turns and whatever their
\* engines and subscribers do, and a turn that was answered was put there.
THEOREM TurnsRememberedOnce == Spec => []RememberedOnce
<1>1. MemoryInv => RememberedOnce
  BY DEF MemoryInv, RememberedOnce
<1> QED BY <1>1, ShapeStart, ShapeStep, MemoryStart, MemoryStep, PTL DEF Spec

-----------------------------------------------------------------------------
\* Induction up to n, for the numbers of a set.
LEMMA UpTo ==
  ASSUME NEW n \in Nat, NEW P, 0 \in P, \A k \in 0..n : k \in P /\ k # n => k + 1 \in P
  PROVE  \A k \in 0..n : k \in P
<1> DEFINE Bad == {k \in 0..n : k \notin P}
<1> SUFFICES ASSUME Bad # {} PROVE FALSE
  OBVIOUS
<1>1. Bad \subseteq Nat
  OBVIOUS
<1>2. PICK k \in Bad : \A j \in Bad : <<j, k>> \notin OpToRel(<, Nat)
  <2> HIDE DEF Bad
  <2> QED
    BY <1>1, NatLessThanWellFounded, WFMin
<1>3. \A j \in Bad : ~ (j < k)
  BY <1>1, <1>2 DEF OpToRel
<1>4. k \in 0..n /\ k # 0 /\ k - 1 \in 0..n /\ k - 1 # n /\ (k - 1) + 1 = k
  OBVIOUS
<1>5. k - 1 \in P
  BY <1>3, <1>4
<1> QED
  BY <1>4, <1>5

\* A set of places in a list that is not empty has a last one.
LEMMA LargestIndex ==
  ASSUME NEW n \in Nat, NEW s \in SUBSET (1..n), s # {}
  PROVE  /\ Max(s) \in s
         /\ \A i \in s : i <= Max(s)
<1>1. \E x \in s : \A i \in s : i <= x
  <2> DEFINE Above(k) == k \in Nat /\ \A i \in s : i <= n - k
             Bounds == {k \in Nat : \A i \in s : i <= k}
  <2>1. n \in Bounds
    OBVIOUS
  <2>2. PICK k \in Bounds : \A j \in Bounds : <<j, k>> \notin OpToRel(<, Nat)
    <3>1. Bounds \subseteq Nat /\ Bounds # {}
      BY <2>1
    <3> HIDE DEF Bounds
    <3> QED
      BY <3>1, NatLessThanWellFounded, WFMin
  <2>3. \A j \in Bounds : ~ (j < k)
    BY <2>2 DEF OpToRel
  <2>4. k \in s
    <3> SUFFICES ASSUME k \notin s PROVE FALSE
      OBVIOUS
    <3>1. \A i \in s : i <= k - 1 /\ i >= 1
      OBVIOUS
    <3>2. k >= 1
      <4>1. PICK i \in s : i >= 1 /\ i <= k /\ i \in Nat
        <5>1. PICK i : i \in s
          OBVIOUS
        <5>2. i \in 1..n /\ i <= k
          BY <5>1
        <5> QED
          BY <5>1, <5>2
      <4> QED
        BY <4>1
    <3>3. k - 1 \in Bounds
      BY <3>1, <3>2
    <3> QED
      BY <2>3, <3>3
  <2> QED
    BY <2>4
<1> QED
  BY <1>1 DEF Max


\* The ways a plan is walked: by the executor, for its tool alone, by the older executor at
\* the end of a turn, and where that one is interrupted.
Advance(way, plan, context, remembered, step, x) ==
  CASE way = "execute" -> IF x.interrupted /\ step \notin AfterInterruption THEN x
                          ELSE Handle(plan, context, remembered, step, x)
    [] way = "lookup" -> IF step \in {"tool_lookup"} THEN Handle(plan, context, remembered, step, x) ELSE x
    [] way = "end" -> LegacyStep(plan, context, remembered, step, x)
    [] way = "interrupt" -> Handle(plan, context, remembered, step, x)

\* FoldLeft recurs over the sets of places in the list.
Recursion(g, way, plan, context, remembered, list, start, S) ==
  \A s \in SUBSET S :
    g[s] = IF s = {} THEN start
           ELSE Advance(way, plan, context, remembered, list[Max(s)], g[s \ {Max(s)}])

\* There is a function that recurs so, whatever the walk does at each step.
LEMMA RecursionSolved ==
  ASSUME NEW way, NEW plan, NEW context, NEW remembered, NEW list, NEW start, NEW n \in Nat
  PROVE  \E g : g = [s \in SUBSET (1..n) |-> g[s]] /\ Recursion(g, way, plan, context, remembered, list, start, 1..n)
<1> DEFINE D == 1..n
           Solved(k) == \E g : g = [s \in SUBSET D |-> g[s]] /\ Recursion(g, way, plan, context, remembered, list, start, 1..k)
           P == {k \in 0..n : Solved(k)}
<1>1. Solved(0)
  <2> DEFINE g == [s \in SUBSET D |-> start]
  <2>1. g = [s \in SUBSET D |-> g[s]]
    OBVIOUS
  <2>2. Recursion(g, way, plan, context, remembered, list, start, 1..0)
    <3>1. 1..0 = {} /\ {} \in SUBSET D
      OBVIOUS
    <3>2. \A s \in SUBSET {} : s = {}
      OBVIOUS
    <3> QED
      BY <3>1, <3>2, Zenon DEF Recursion
  <2> QED
    BY <2>1, <2>2
<1>2. ASSUME NEW k \in 0..n, k # n, Solved(k)
      PROVE  Solved(k + 1)
  <2>1. PICK g : g = [s \in SUBSET D |-> g[s]] /\ Recursion(g, way, plan, context, remembered, list, start, 1..k)
    BY <1>2
  <2> DEFINE Then(f, s) == IF s = {} THEN start
                          ELSE Advance(way, plan, context, remembered, list[Max(s)], f[s \ {Max(s)}])
             h == [s \in SUBSET D |-> Then(g, s)]
  <2>2. \A s \in SUBSET (1..k) : g[s] = Then(g, s)
    BY <2>1, Zenon DEF Recursion
  <2>3. \A s \in SUBSET (1..(k + 1)) : s \in SUBSET D
    BY <1>2
  <2>4. \A s \in SUBSET (1..(k + 1)) : s # {} => s \ {Max(s)} \in SUBSET (1..k)
    <3> SUFFICES ASSUME NEW s \in SUBSET (1..(k + 1)), s # {}, NEW i \in s \ {Max(s)}
                 PROVE  i \in 1..k
      OBVIOUS
    <3>1. Max(s) \in s /\ \A j \in s : j <= Max(s)
      BY LargestIndex, k + 1 \in Nat
    <3>2. i \in 1..(k + 1) /\ i # Max(s) /\ Max(s) \in 1..(k + 1) /\ i <= Max(s)
      BY <3>1
    <3> HIDE DEF Solved
    <3> QED
      BY <1>2, <3>2
  <2>5. \A s \in SUBSET D : h[s] = Then(g, s)
    BY Zenon
  <2> HIDE DEF h
  <2>6. \A s \in SUBSET (1..(k + 1)) : h[s] = Then(h, s)
    <3> SUFFICES ASSUME NEW s \in SUBSET (1..(k + 1)) PROVE h[s] = Then(h, s)
      OBVIOUS
    <3>1. h[s] = Then(g, s)
      BY <2>3, <2>5
    <3>2. CASE s = {}
      BY <3>1, <3>2
    <3>3. CASE s # {}
      <4> DEFINE r == s \ {Max(s)}
      <4>1. r \in SUBSET (1..k)
        BY <2>4, <3>3
      <4>2. r \in SUBSET D
        BY <1>2, <4>1
      <4>3. h[r] = g[r]
        BY <2>2, <2>5, <4>1, <4>2, Zenon
      <4> QED
        BY <3>1, <3>3, <4>3, Zenon
    <3> QED
      BY <3>2, <3>3
  <2>7. h = [s \in SUBSET D |-> h[s]]
    BY Zenon DEF h
  <2> QED
    BY <2>6, <2>7, Zenon DEF Recursion
<1> HIDE DEF Solved
<1>3. 0 \in P /\ \A k \in 0..n : k \in P /\ k # n => k + 1 \in P
  BY <1>1, <1>2
<1>4. n \in P
  <2> HIDE DEF P
  <2> QED
    BY <1>3, UpTo, n \in 0..n
<1> QED
  BY <1>4 DEF Solved


\* A list by its places.
Listed(list) == Len(list) \in Nat /\ DOMAIN list = 1..Len(list)

\* A walk goes from the first step to the last.
Walk(h, way, plan, context, remembered, list, start) ==
  /\ h[0] = start
  /\ \A k \in 1..Len(list) : h[k] = Advance(way, plan, context, remembered, list[k], h[k - 1])

\* The function that recurs over the sets of places goes along the list.
LEMMA RecursionWalks ==
  ASSUME NEW iter, NEW way, NEW plan, NEW context, NEW remembered, NEW list, NEW start, Listed(list),
         Recursion(iter, way, plan, context, remembered, list, start, DOMAIN list)
  PROVE  \E h : Walk(h, way, plan, context, remembered, list, start) /\ iter[DOMAIN list] = h[Len(list)]
<1> DEFINE n == Len(list)
           h == [k \in 0..n |-> iter[1..k]]
<1>1. n \in Nat /\ DOMAIN list = 1..n
  BY DEF Listed
<1> HIDE DEF n
<1>2. \A s \in SUBSET (1..n) :
        iter[s] = IF s = {} THEN start
                  ELSE Advance(way, plan, context, remembered, list[Max(s)], iter[s \ {Max(s)}])
  BY <1>1, Zenon DEF Recursion
<1>3. h[0] = start
  <2>1. 1..0 = {} /\ 0 \in 0..n
    BY <1>1
  <2> QED
    BY <1>2, <2>1
<1>4. ASSUME NEW k \in 1..n
      PROVE  h[k] = Advance(way, plan, context, remembered, list[k], h[k - 1])
  <2>1. /\ 1..k \in SUBSET (1..n) /\ 1..k # {} /\ k \in Nat /\ k \in 1..k
        /\ k \in 0..n /\ k - 1 \in 0..n
    BY <1>1
  <2>2. Max(1..k) \in 1..k /\ \A i \in 1..k : i <= Max(1..k)
    BY <2>1, LargestIndex
  <2>3. Max(1..k) = k /\ (1..k) \ {k} = 1..(k - 1)
    BY <2>1, <2>2
  <2>4. iter[1..k] = Advance(way, plan, context, remembered, list[k], iter[1..(k - 1)])
    BY <1>2, <2>1, <2>3, Zenon
  <2> QED
    BY <2>1, <2>4
<1>5. iter[DOMAIN list] = h[n]
  BY <1>1
<1> HIDE DEF h
<1>6. Walk(h, way, plan, context, remembered, list, start)
  BY <1>3, <1>4, Zenon DEF Walk, n
<1> QED
  BY <1>5, <1>6 DEF n

ExecuteStart(plan, r) ==
  IF HasStep(plan, "policy") THEN r ELSE [r EXCEPT !.decision = PolicyOf(plan)]

\* The executor walks the steps of the plan, with the policy decided at the start when no step does it.
LEMMA ExecuteWalks ==
  ASSUME NEW plan, NEW context, NEW remembered, NEW r, Listed(plan.steps)
  PROVE  \E h : /\ Walk(h, "execute", plan, context, remembered, plan.steps, ExecuteStart(plan, r))
               /\ Execute(plan, context, remembered, r) = h[Len(plan.steps)]
<1> DEFINE start == ExecuteStart(plan, r)
           list == plan.steps
           walk(x, step) == IF x.interrupted /\ step \notin AfterInterruption THEN x
                            ELSE Handle(plan, context, remembered, step, x)
           Rec(it) == it = [s \in SUBSET DOMAIN list |->
                              IF s = {} THEN start ELSE walk(it[s \ {Max(s)}], list[Max(s)])]
           iter == CHOOSE it : Rec(it)
<1>1. Execute(plan, context, remembered, r) = iter[DOMAIN list]
  BY Zenon DEF Execute, ExecuteStart, FoldLeft, MapThenFoldSet
<1>2. \A x, step : Advance("execute", plan, context, remembered, step, x) = walk(x, step)
  BY DEF Advance
<1>3. Listed(list) /\ Len(list) \in Nat /\ DOMAIN list = 1..Len(list)
  BY DEF Listed
<1> HIDE DEF list, start, walk
<1>4. Rec(iter)
  <2>1. PICK g : /\ g = [s \in SUBSET DOMAIN list |-> g[s]]
                 /\ Recursion(g, "execute", plan, context, remembered, list, start, DOMAIN list)
    <3>1. \E g : /\ g = [s \in SUBSET (1..Len(list)) |-> g[s]]
                 /\ Recursion(g, "execute", plan, context, remembered, list, start, 1..Len(list))
      BY <1>3, RecursionSolved
    <3> QED
      BY <1>3, <3>1
  <2>2. Rec(g)
    BY <1>2, <2>1, Zenon DEF Recursion
  <2> HIDE DEF Rec
  <2> QED
    BY <2>2
<1> HIDE DEF iter
<1>5. Recursion(iter, "execute", plan, context, remembered, list, start, DOMAIN list)
  BY <1>2, <1>4, Zenon DEF Recursion
<1>6. \E h : /\ Walk(h, "execute", plan, context, remembered, list, start)
             /\ iter[DOMAIN list] = h[Len(list)]
  BY <1>3, <1>5, RecursionWalks
<1> QED
  BY <1>1, <1>6, Zenon DEF list, start

\* The older executor looks for the tool among them, ...
LEMMA SliceWalks ==
  ASSUME NEW plan, NEW context, NEW remembered, NEW r, Listed(plan.steps)
  PROVE  \E h : /\ Walk(h, "lookup", plan, context, remembered, plan.steps, r)
               /\ Slice(plan, context, remembered, {"tool_lookup"}, r) = h[Len(plan.steps)]
<1> DEFINE start == r
           list == plan.steps
           walk(x, step) == IF step \in {"tool_lookup"} THEN Handle(plan, context, remembered, step, x) ELSE x
           Rec(it) == it = [s \in SUBSET DOMAIN list |->
                              IF s = {} THEN start ELSE walk(it[s \ {Max(s)}], list[Max(s)])]
           iter == CHOOSE it : Rec(it)
<1>1. Slice(plan, context, remembered, {"tool_lookup"}, r) = iter[DOMAIN list]
  BY Zenon DEF Slice, FoldLeft, MapThenFoldSet
<1>2. \A x, step : Advance("lookup", plan, context, remembered, step, x) = walk(x, step)
  BY DEF Advance
<1>3. Listed(list) /\ Len(list) \in Nat /\ DOMAIN list = 1..Len(list)
  BY DEF Listed
<1> HIDE DEF list, start, walk
<1>4. Rec(iter)
  <2>1. PICK g : /\ g = [s \in SUBSET DOMAIN list |-> g[s]]
                 /\ Recursion(g, "lookup", plan, context, remembered, list, start, DOMAIN list)
    <3>1. \E g : /\ g = [s \in SUBSET (1..Len(list)) |-> g[s]]
                 /\ Recursion(g, "lookup", plan, context, remembered, list, start, 1..Len(list))
      BY <1>3, RecursionSolved
    <3> QED
      BY <1>3, <3>1
  <2>2. Rec(g)
    BY <1>2, <2>1, Zenon DEF Recursion
  <2> HIDE DEF Rec
  <2> QED
    BY <2>2
<1> HIDE DEF iter
<1>5. Recursion(iter, "lookup", plan, context, remembered, list, start, DOMAIN list)
  BY <1>2, <1>4, Zenon DEF Recursion
<1>6. \E h : /\ Walk(h, "lookup", plan, context, remembered, list, start)
             /\ iter[DOMAIN list] = h[Len(list)]
  BY <1>3, <1>5, RecursionWalks
<1> QED
  BY <1>1, <1>6, Zenon DEF list, start

\* ... and ends every turn with the same steps.
LEMMA EndWalks ==
  ASSUME NEW plan, NEW context, NEW remembered, NEW r
  PROVE  \E h : /\ Walk(h, "end", plan, context, remembered, Ending, r)
               /\ LegacyEnd(plan, context, remembered, r) = h[Len(Ending)]
<1> DEFINE start == r
           list == Ending
           walk(x, step) == LegacyStep(plan, context, remembered, step, x)
           Rec(it) == it = [s \in SUBSET DOMAIN list |->
                              IF s = {} THEN start ELSE walk(it[s \ {Max(s)}], list[Max(s)])]
           iter == CHOOSE it : Rec(it)
<1>1. LegacyEnd(plan, context, remembered, r) = iter[DOMAIN list]
  BY Zenon DEF LegacyEnd, FoldLeft, MapThenFoldSet
<1>2. \A x, step : Advance("end", plan, context, remembered, step, x) = walk(x, step)
  BY DEF Advance
<1>3. Listed(list) /\ Len(list) \in Nat /\ DOMAIN list = 1..Len(list)
  BY DEF Ending, Listed
<1> HIDE DEF list, start, walk
<1>4. Rec(iter)
  <2>1. PICK g : /\ g = [s \in SUBSET DOMAIN list |-> g[s]]
                 /\ Recursion(g, "end", plan, context, remembered, list, start, DOMAIN list)
    <3>1. \E g : /\ g = [s \in SUBSET (1..Len(list)) |-> g[s]]
                 /\ Recursion(g, "end", plan, context, remembered, list, start, 1..Len(list))
      BY <1>3, RecursionSolved
    <3> QED
      BY <1>3, <3>1
  <2>2. Rec(g)
    BY <1>2, <2>1, Zenon DEF Recursion
  <2> HIDE DEF Rec
  <2> QED
    BY <2>2
<1> HIDE DEF iter
<1>5. Recursion(iter, "end", plan, context, remembered, list, start, DOMAIN list)
  BY <1>2, <1>4, Zenon DEF Recursion
<1>6. \E h : /\ Walk(h, "end", plan, context, remembered, list, start)
             /\ iter[DOMAIN list] = h[Len(list)]
  BY <1>3, <1>5, RecursionWalks
<1> QED
  BY <1>1, <1>6, Zenon DEF list, start

\* An interruption is looked for outside the walk.
LEMMA InterruptWalks ==
  ASSUME NEW plan, NEW context, NEW remembered, NEW r
  PROVE  \E h : /\ Walk(h, "interrupt", plan, context, remembered, LegacyInterruption(plan), LegacyStart(plan, r))
               /\ LegacyInterrupted(plan, context, remembered, r) =
                    [LegacyEnd(plan, context, remembered, h[Len(LegacyInterruption(plan))]) EXCEPT !.program = NoProgram]
<1> DEFINE start == LegacyStart(plan, r)
           list == LegacyInterruption(plan)
           walk(x, step) == Handle(plan, context, remembered, step, x)
           Rec(it) == it = [s \in SUBSET DOMAIN list |->
                              IF s = {} THEN start ELSE walk(it[s \ {Max(s)}], list[Max(s)])]
           iter == CHOOSE it : Rec(it)
<1>1. LegacyInterrupted(plan, context, remembered, r) =
                    [LegacyEnd(plan, context, remembered, iter[DOMAIN list]) EXCEPT !.program = NoProgram]
  BY Zenon DEF LegacyInterrupted, FoldLeft, MapThenFoldSet
<1>2. \A x, step : Advance("interrupt", plan, context, remembered, step, x) = walk(x, step)
  BY DEF Advance
<1>3. Listed(list) /\ Len(list) \in Nat /\ DOMAIN list = 1..Len(list)
  BY DEF LegacyInterruption, Listed
<1> HIDE DEF list, start, walk
<1>4. Rec(iter)
  <2>1. PICK g : /\ g = [s \in SUBSET DOMAIN list |-> g[s]]
                 /\ Recursion(g, "interrupt", plan, context, remembered, list, start, DOMAIN list)
    <3>1. \E g : /\ g = [s \in SUBSET (1..Len(list)) |-> g[s]]
                 /\ Recursion(g, "interrupt", plan, context, remembered, list, start, 1..Len(list))
      BY <1>3, RecursionSolved
    <3> QED
      BY <1>3, <3>1
  <2>2. Rec(g)
    BY <1>2, <2>1, Zenon DEF Recursion
  <2> HIDE DEF Rec
  <2> QED
    BY <2>2
<1> HIDE DEF iter
<1>5. Recursion(iter, "interrupt", plan, context, remembered, list, start, DOMAIN list)
  BY <1>2, <1>4, Zenon DEF Recursion
<1>6. \E h : /\ Walk(h, "interrupt", plan, context, remembered, list, start)
             /\ iter[DOMAIN list] = h[Len(list)]
  BY <1>3, <1>5, RecursionWalks
<1> QED
  BY <1>1, <1>6, Zenon DEF list, start

-----------------------------------------------------------------------------
\* What a run holds.
Holds(x, i, d, e, n, p, a, m, o) ==
  /\ {"interrupted", "decision", "evidence", "ran", "program", "answer", "remembered", "outcomes"}
       \subseteq DOMAIN x
  /\ x.interrupted = i /\ x.decision = d /\ x.evidence = e /\ x.ran = n /\ x.program = p
  /\ x.answer = a /\ x.remembered = m /\ x.outcomes = o

\* The outcome of a step that records no evidence, or the evidence there is.
Told(step, status, e) == [step |-> step, status |-> status, evidence |-> e]

\* The answer of the kernel.
AnswerOf(d, e, program) ==
  IF d = "USE_TOOL" /\ e # NoEvidence THEN <<"kernel", program, e>> ELSE <<"kernel", program>>

\* What the output step says for an answer, and its outcome.
Spoken(context, answer) ==
  answer \o (IF context.first THEN <<"objective">> ELSE <<>>)
         \o (IF context.reply = NoReply THEN <<>> ELSE <<context.reply>>)
Closing(context, said) ==
  [step |-> "output", status |-> "success", said |-> said,
   limits |-> context.first /\ context.informed /\ context.limits]

\* The outcomes of the steps that end a turn, after those of the others.
Ended(context, answer, o, e) ==
  Append(Append(Append(o, Told("memory", "success", NoEvidence)), Told("context", "success", e)),
         Closing(context, Spoken(context, answer)))

\* The outcome of a step is put behind the others.
LEMMA NotedHolds ==
  ASSUME NEW x, NEW i, NEW d, NEW e, NEW n, NEW p, NEW a, NEW m, NEW o,
         Holds(x, i, d, e, n, p, a, m, o), NEW step, NEW status
  PROVE  Holds(Noted(x, step, status), i, d, e, n, p, a, m,
               Append(o, Told(step, status, IF step \in {"tool_lookup", "context"} THEN e ELSE NoEvidence)))
<1> DEFINE y == Noted(x, step, status)
           out == Outcome(step, status, x)
<1>1. y = [x EXCEPT !.outcomes = Append(@, out)]
  BY DEF Noted
<1>2. out = Told(step, status, IF step \in {"tool_lookup", "context"} THEN e ELSE NoEvidence)
  BY DEF Outcome, Told, Holds
<1> HIDE DEF y, out
<1>3. Holds(y, i, d, e, n, p, a, m, Append(o, out))
  BY <1>1, Zenon DEF Holds
<1> QED
  BY <1>2, <1>3 DEF y

\* The kernel answers with its program, and with the evidence of the tool if it was asked.
LEMMA KernelHolds ==
  ASSUME NEW x, NEW i, NEW d, NEW e, NEW n, NEW p, NEW a, NEW m, NEW o,
         Holds(x, i, d, e, n, p, a, m, o), NEW plan, NEW context, NEW remembered
  PROVE  Holds(Handle(plan, context, remembered, "kernel", x), i, d, e, n, plan.program,
               AnswerOf(d, e, plan.program), m, Append(o, Told("kernel", "success", NoEvidence)))
<1> DEFINE y == [x EXCEPT !.program = plan.program, !.answer = KernelAnswer(x, plan.program)]
           answer == KernelAnswer(x, plan.program)
<1>1. Handle(plan, context, remembered, "kernel", x) = Noted(y, "kernel", "success")
  BY Zenon DEF Handle
<1>2. answer = AnswerOf(d, e, plan.program)
  BY DEF KernelAnswer, AnswerOf, Holds
<1>3. y = [x EXCEPT !.program = plan.program, !.answer = answer]
  OBVIOUS
<1> HIDE DEF y, answer
<1>4. Holds(y, i, d, e, n, plan.program, answer, m, o)
  BY <1>3, Zenon DEF Holds
<1>5. Holds(Noted(y, "kernel", "success"), i, d, e, n, plan.program, answer, m,
            Append(o, Told("kernel", "success", IF "kernel" \in {"tool_lookup", "context"} THEN e ELSE NoEvidence)))
  BY <1>4, NotedHolds
<1> QED
  BY <1>1, <1>2, <1>5

\* A run with the decision of the policy.
Decided(plan, x) == [x EXCEPT !.decision = PolicyOf(plan)]

\* The policy decides, and interrupts the turn where it asks for a person.
LEMMA PolicyHolds ==
  ASSUME NEW x, NEW i, NEW d, NEW e, NEW n, NEW p, NEW a, NEW m, NEW o,
         Holds(x, i, d, e, n, p, a, m, o), NEW plan
  PROVE  /\ PolicyOf(plan) = "ESCALATE" =>
              Holds(Decide(plan, x), TRUE, PolicyOf(plan), e, n, p, a, m,
                    Append(o, Told("policy", "interrupted", NoEvidence)))
         /\ PolicyOf(plan) # "ESCALATE" =>
              Holds(Decide(plan, x), i, PolicyOf(plan), e, n, p, a, m,
                    Append(o, Told("policy", "success", NoEvidence)))
         /\ Holds(Decided(plan, x), i, PolicyOf(plan), e, n, p, a, m, o)
<1> DEFINE y == Decided(plan, x)
<1>1. Holds(y, i, PolicyOf(plan), e, n, p, a, m, o)
  BY Zenon DEF Holds, Decided
<1>2. /\ PolicyOf(plan) = "ESCALATE" =>
           Decide(plan, x) = [Noted(y, "policy", "interrupted") EXCEPT !.interrupted = TRUE]
      /\ PolicyOf(plan) # "ESCALATE" => Decide(plan, x) = Noted(y, "policy", "success")
  <2>1. y.decision = PolicyOf(plan)
    BY <1>1 DEF Holds
  <2> QED
    BY <2>1, Zenon DEF Decide, Decided
<1> HIDE DEF y
<1>3. ASSUME NEW status
      PROVE  Holds(Noted(y, "policy", status), i, PolicyOf(plan), e, n, p, a, m,
                   Append(o, Told("policy", status, NoEvidence)))
  <2>1. Holds(Noted(y, "policy", status), i, PolicyOf(plan), e, n, p, a, m,
              Append(o, Told("policy", status, IF "policy" \in {"tool_lookup", "context"} THEN e ELSE NoEvidence)))
    BY <1>1, NotedHolds
  <2> QED
    BY <2>1
<1>4. CASE PolicyOf(plan) = "ESCALATE"
  <2> DEFINE z == Noted(y, "policy", "interrupted")
             w == [z EXCEPT !.interrupted = TRUE]
             out == Append(o, Told("policy", "interrupted", NoEvidence))
  <2>1. Holds(z, i, PolicyOf(plan), e, n, p, a, m, out)
    BY <1>3
  <2> HIDE DEF z, out
  <2>2. Holds(w, TRUE, PolicyOf(plan), e, n, p, a, m, out)
    BY <2>1, Zenon DEF Holds
  <2>3. Decide(plan, x) = w
    BY <1>2, <1>4 DEF z
  <2> HIDE DEF w
  <2> QED
    BY <1>1, <1>4, <2>2, <2>3 DEF out, y
<1>5. CASE PolicyOf(plan) # "ESCALATE"
  BY <1>1, <1>2, <1>3, <1>5 DEF y
<1> QED
  BY <1>4, <1>5

\* A handoff or an escalation answers with the policy and interrupts the turn.
LEMMA StopHolds ==
  ASSUME NEW x, NEW i, NEW d, NEW e, NEW n, NEW p, NEW a, NEW m, NEW o,
         Holds(x, i, d, e, n, p, a, m, o), NEW plan, NEW context, NEW remembered,
         NEW step \in {"handoff", "escalation"}
  PROVE  Holds(Handle(plan, context, remembered, step, x), TRUE, d, e, n, p, <<"policy">>, m,
               Append(o, Told(step, "success", NoEvidence)))
<1> DEFINE y == [x EXCEPT !.answer = <<"policy">>]
           z == Noted(y, step, "success")
           w == [z EXCEPT !.interrupted = TRUE]
           out == Append(o, Told(step, "success", IF step \in {"tool_lookup", "context"} THEN e ELSE NoEvidence))
<1>1. Handle(plan, context, remembered, step, x) = Interruption(step, x)
  BY DEF Handle
<1>2. Interruption(step, x) = w
  BY Zenon DEF Interruption
<1>3. Holds(y, i, d, e, n, p, <<"policy">>, m, o)
  BY Zenon DEF Holds
<1> HIDE DEF y
<1>4. Holds(z, i, d, e, n, p, <<"policy">>, m, out)
  BY <1>3, NotedHolds
<1>5. out = Append(o, Told(step, "success", NoEvidence))
  OBVIOUS
<1> HIDE DEF z, out
<1>6. Holds(w, TRUE, d, e, n, p, <<"policy">>, m, out)
  BY <1>4, Zenon DEF Holds
<1> QED
  BY <1>1, <1>2, <1>5, <1>6

\* The memory, context and output steps.
LEMMA EndingHolds ==
  ASSUME NEW x, NEW i, NEW d, NEW e, NEW n, NEW p, NEW a, NEW m, NEW o,
         Holds(x, i, d, e, n, p, a, m, o), NEW plan, NEW context, NEW remembered
  PROVE  LET y == Handle(plan, context, remembered, "memory", x)
             z == Handle(plan, context, remembered, "context", y)
             w == Handle(plan, context, remembered, "output", z)
         IN  Holds(w, i, d, e, n, p, Spoken(context, a), remembered, Ended(context, a, o, e))
<1> DEFINE y == Handle(plan, context, remembered, "memory", x)
           z == Handle(plan, context, remembered, "context", y)
           w == Handle(plan, context, remembered, "output", z)
           u == [x EXCEPT !.remembered = remembered]
           o1 == Append(o, Told("memory", "success", NoEvidence))
           o2 == Append(o1, Told("context", "success", e))
<1>1. y = Noted(u, "memory", "success")
  BY Zenon DEF Handle, Remember
<1>2. z = Noted(y, "context", "success") /\ w = Speak(context, z)
  BY DEF Handle
<1>3. Holds(u, i, d, e, n, p, a, remembered, o)
  BY Zenon DEF Holds
<1> HIDE DEF y, z, w, u
<1>4. Holds(y, i, d, e, n, p, a, remembered, o1)
  <2>1. Holds(y, i, d, e, n, p, a, remembered,
              Append(o, Told("memory", "success", IF "memory" \in {"tool_lookup", "context"} THEN e ELSE NoEvidence)))
    BY <1>1, <1>3, NotedHolds
  <2> QED
    BY <2>1
<1> HIDE DEF o1
<1>5. Holds(z, i, d, e, n, p, a, remembered, o2)
  <2>1. Holds(z, i, d, e, n, p, a, remembered,
              Append(o1, Told("context", "success", IF "context" \in {"tool_lookup", "context"} THEN e ELSE NoEvidence)))
    BY <1>2, <1>4, NotedHolds
  <2> QED
    BY <2>1
<1> HIDE DEF o2
<1>6. Holds(w, i, d, e, n, p, Spoken(context, a), remembered, Append(o2, Closing(context, Spoken(context, a))))
  <2>1. w = [z EXCEPT !.answer = Spoken(context, a),
                      !.outcomes = Append(@, Closing(context, Spoken(context, a)))]
    <3>1. z.answer = a
      BY <1>5 DEF Holds
    <3> QED
      BY <1>2, <3>1, Zenon DEF Speak, Spoken, Closing
  <2>2. ASSUME NEW said, NEW out, w = [z EXCEPT !.answer = said, !.outcomes = Append(@, out)]
        PROVE  Holds(w, i, d, e, n, p, said, remembered, Append(o2, out))
    BY <1>5, <2>2, Zenon DEF Holds
  <2> QED
    BY <2>1, <2>2
<1>7. Ended(context, a, o, e) = Append(o2, Closing(context, Spoken(context, a)))
  BY DEF Ended, o1, o2
<1> QED
  BY <1>6, <1>7 DEF w, z, y

\* The tool is called when the policy asks for it: officially it runs, if it is there; where
\* there is evidence of it already a shadow execution takes that for its success.
FoundStatus(plan, e) ==
  IF ~ Registered \/ (e = NoEvidence /\ plan.key \notin Known) THEN "error" ELSE "success"
FoundEvidence(plan, e) ==
  IF ~ Registered THEN "error"
  ELSE IF e # NoEvidence THEN e ELSE IF plan.key \in Known THEN "concept" ELSE "error"

\* Whether the tool runs where it is called for.
Called(context) == Registered /\ context.mode = "official"

\* The tool's step, officially without evidence and in a comparison with it.
LEMMA LookUpHolds ==
  ASSUME NEW x, NEW i, NEW d, NEW e, NEW p, NEW a, NEW m, NEW o,
         Holds(x, i, d, e, FALSE, p, a, m, o), NEW plan, NEW context, NEW remembered,
         d = "USE_TOOL" => \/ context.mode = "official" /\ e = NoEvidence
                           \/ context.mode = "shadow" /\ e # NoEvidence
  PROVE  /\ d # "USE_TOOL" =>
              Holds(Handle(plan, context, remembered, "tool_lookup", x), i, d, e, FALSE, p, a, m,
                    Append(o, Told("tool_lookup", "skipped", e)))
         /\ d = "USE_TOOL" =>
              Holds(Handle(plan, context, remembered, "tool_lookup", x), i, d, FoundEvidence(plan, e),
                    Called(context), p, a, m,
                    Append(o, Told("tool_lookup", FoundStatus(plan, e), FoundEvidence(plan, e))))
<1>1. Handle(plan, context, remembered, "tool_lookup", x) = LookUp(plan, context, x)
  BY DEF Handle
<1>2. x.decision = d /\ x.evidence = e /\ x.ran = FALSE
  BY DEF Holds
<1>3. CASE d # "USE_TOOL"
  <2>1. LookUp(plan, context, x) = Noted(x, "tool_lookup", "skipped")
    BY <1>2, <1>3 DEF LookUp
  <2>2. Holds(Noted(x, "tool_lookup", "skipped"), i, d, e, FALSE, p, a, m,
              Append(o, Told("tool_lookup", "skipped",
                             IF "tool_lookup" \in {"tool_lookup", "context"} THEN e ELSE NoEvidence)))
    BY NotedHolds
  <2> QED
    BY <1>1, <1>3, <2>1, <2>2
<1>4. CASE d = "USE_TOOL"
  <2> DEFINE found == Lookup(plan.key, context, e)
             fe == FoundEvidence(plan, e)
             fs == FoundStatus(plan, e)
             fr == Called(context)
             y == [x EXCEPT !.evidence = found.evidence, !.ran = @ \/ found.ran]
  <2>1. LookUp(plan, context, x) = Noted(y, "tool_lookup", found.status)
    BY <1>2, <1>4, Zenon DEF LookUp
  <2>2. found = [status |-> fs, evidence |-> fe, ran |-> fr]
    <3>1. CASE ~ Registered
      BY <3>1 DEF Lookup, FoundEvidence, FoundStatus, Called
    <3>2. CASE Registered /\ context.mode = "official" /\ e = NoEvidence
      <4>1. DecideExecution(context.mode, Knowledge, IF e = NoEvidence THEN {} ELSE {"existing"}) = "execute"
        BY <3>2 DEF DecideExecution
      <4> QED
        BY <3>2, <4>1 DEF Lookup, FoundEvidence, FoundStatus, Called
    <3>3. CASE Registered /\ context.mode = "shadow" /\ e # NoEvidence
      <4>1. DecideExecution(context.mode, Knowledge, IF e = NoEvidence THEN {} ELSE {"existing"})
              = "reuse_existing_evidence"
        BY <3>3 DEF DecideExecution
      <4> QED
        BY <3>3, <4>1 DEF Lookup, FoundEvidence, FoundStatus, Called
    <3> QED
      BY <1>4, <3>1, <3>2, <3>3, StepsAssumption
  <2>3. found.status = fs /\ found.evidence = fe /\ found.ran = fr
    BY <2>2
  <2>4. fr \in BOOLEAN /\ (FALSE \/ fr) = fr
    BY StepsAssumption DEF Called
  <2>5. y = [x EXCEPT !.evidence = fe, !.ran = FALSE \/ fr]
    BY <1>2, <2>3, Zenon
  <2> HIDE DEF found, fe, fs, fr, y
  <2>6. Holds(y, i, d, fe, FALSE \/ fr, p, a, m, o)
    BY <2>5, Zenon DEF Holds
  <2>7. Holds(y, i, d, fe, fr, p, a, m, o)
    BY <2>4, <2>6
  <2>8. Holds(Noted(y, "tool_lookup", fs), i, d, fe, fr, p, a, m,
              Append(o, Told("tool_lookup", fs,
                             IF "tool_lookup" \in {"tool_lookup", "context"} THEN fe ELSE NoEvidence)))
    BY <2>7, NotedHolds
  <2>9. Holds(Noted(y, "tool_lookup", fs), i, d, fe, fr, p, a, m, Append(o, Told("tool_lookup", fs, fe)))
    BY <2>8
  <2> QED
    BY <1>1, <1>4, <2>1, <2>3, <2>9 DEF fe, fs, fr
<1> QED
  BY <1>3, <1>4

-----------------------------------------------------------------------------
\* The plans there are: what a flow says of the steps and the program.
KernelFlows == {"static_response", "clarification", "fallback"}
FlowNames == KernelFlows \union {"guided_process", "knowledge_lookup"} \union Interruptions

PlanOK(plan) ==
  /\ plan.flow \in FlowNames
  /\ plan.steps = StepsOf(plan.flow) /\ plan.program = ProgramFor(plan.flow)

\* The step that interrupts a turn, by its flow.
StopOf(flow) == IF flow = "safe_escalation" THEN "escalation" ELSE "handoff"

\* The places of the steps that end a turn.
EndsAt(list, n) ==
  /\ n \in Nat /\ Len(list) = n + 3 /\ DOMAIN list = 1..(n + 3)
  /\ list[n + 1] = "memory" /\ list[n + 2] = "context" /\ list[n + 3] = "output"

\* The steps of each flow, place by place.
LEMMA StepsHold ==
  ASSUME NEW plan, PlanOK(plan)
  PROVE  /\ plan.flow \in KernelFlows => EndsAt(plan.steps, 1) /\ plan.steps[1] = "kernel"
         /\ plan.flow = "guided_process" =>
              EndsAt(plan.steps, 2) /\ plan.steps[1] = "policy" /\ plan.steps[2] = "kernel"
         /\ plan.flow = "knowledge_lookup" =>
              /\ EndsAt(plan.steps, 3) /\ plan.steps[1] = "policy"
              /\ plan.steps[2] = "tool_lookup" /\ plan.steps[3] = "kernel"
         /\ plan.flow \in Interruptions =>
              /\ EndsAt(plan.steps, 2) /\ plan.steps[1] = "policy"
              /\ plan.steps[2] = StopOf(plan.flow)
<1> DEFINE s == StepsOf(plan.flow)
<1>1. plan.steps = s
  BY DEF PlanOK
<1>2. plan.flow \in KernelFlows =>
        /\ Len(s) = 4 /\ DOMAIN s = 1..4 /\ s[1] = "kernel" /\ s[2] = "memory"
        /\ s[3] = "context" /\ s[4] = "output"
  BY DEF StepsOf, Ending, KernelFlows
<1>3. plan.flow = "guided_process" =>
        /\ Len(s) = 5 /\ DOMAIN s = 1..5 /\ s[1] = "policy" /\ s[2] = "kernel" /\ s[3] = "memory"
        /\ s[4] = "context" /\ s[5] = "output"
  BY DEF StepsOf, Ending
<1>4. plan.flow = "knowledge_lookup" =>
        /\ Len(s) = 6 /\ DOMAIN s = 1..6 /\ s[1] = "policy" /\ s[2] = "tool_lookup"
        /\ s[3] = "kernel" /\ s[4] = "memory" /\ s[5] = "context" /\ s[6] = "output"
  BY DEF StepsOf, Ending
<1>5. plan.flow = "safe_escalation" =>
        /\ Len(s) = 5 /\ DOMAIN s = 1..5 /\ s[1] = "policy" /\ s[2] = "escalation" /\ s[3] = "memory"
        /\ s[4] = "context" /\ s[5] = "output"
  BY DEF StepsOf, Ending
<1>6. plan.flow = "human_handoff" =>
        /\ Len(s) = 5 /\ DOMAIN s = 1..5 /\ s[1] = "policy" /\ s[2] = "handoff" /\ s[3] = "memory"
        /\ s[4] = "context" /\ s[5] = "output"
  BY DEF StepsOf, Ending
<1> HIDE DEF s
<1>7. plan.flow \in KernelFlows => EndsAt(s, 1) /\ s[1] = "kernel"
  BY <1>2 DEF EndsAt
<1>8. plan.flow = "guided_process" => EndsAt(s, 2) /\ s[1] = "policy" /\ s[2] = "kernel"
  BY <1>3 DEF EndsAt
<1>9. plan.flow = "knowledge_lookup" =>
        EndsAt(s, 3) /\ s[1] = "policy" /\ s[2] = "tool_lookup" /\ s[3] = "kernel"
  BY <1>4 DEF EndsAt
<1>10. plan.flow \in Interruptions => EndsAt(s, 2) /\ s[1] = "policy" /\ s[2] = StopOf(plan.flow)
  BY <1>5, <1>6 DEF EndsAt, StopOf, Interruptions
<1> QED
  BY <1>1, <1>7, <1>8, <1>9, <1>10

\* Which steps a plan has.
LEMMA HasSteps ==
  ASSUME NEW plan, PlanOK(plan)
  PROVE  /\ HasStep(plan, "memory") /\ HasStep(plan, "context") /\ HasStep(plan, "output")
         /\ HasStep(plan, "policy") <=> plan.flow \notin KernelFlows
         /\ HasStep(plan, "kernel") <=> plan.flow \notin Interruptions
         /\ HasStep(plan, "escalation") <=> plan.flow = "safe_escalation"
         /\ HasStep(plan, "handoff") <=> plan.flow = "human_handoff"
<1> DEFINE s == plan.steps
<1>1. plan.flow \in FlowNames
  BY DEF PlanOK
<1>2. \A step : HasStep(plan, step) <=> \E i \in DOMAIN s : s[i] = step
  BY DEF HasStep
<1>3. CASE plan.flow \in KernelFlows
  <2>1. /\ DOMAIN s = 1..4 /\ s[1] = "kernel" /\ s[2] = "memory" /\ s[3] = "context"
        /\ s[4] = "output"
    BY <1>3, StepsHold DEF EndsAt
  <2> HIDE DEF s
  <2>2. \A i \in 1..4 : i = 1 \/ i = 2 \/ i = 3 \/ i = 4
    OBVIOUS
  <2> QED
    BY <1>2, <1>3, <2>1, <2>2 DEF KernelFlows, Interruptions
<1>4. CASE plan.flow = "guided_process"
  <2>1. /\ DOMAIN s = 1..5 /\ s[1] = "policy" /\ s[2] = "kernel" /\ s[3] = "memory"
        /\ s[4] = "context" /\ s[5] = "output"
    BY <1>4, StepsHold DEF EndsAt
  <2> HIDE DEF s
  <2>2. \A i \in 1..5 : i = 1 \/ i = 2 \/ i = 3 \/ i = 4 \/ i = 5
    OBVIOUS
  <2> QED
    BY <1>2, <1>4, <2>1, <2>2 DEF KernelFlows, Interruptions
<1>5. CASE plan.flow = "knowledge_lookup"
  <2>1. /\ DOMAIN s = 1..6 /\ s[1] = "policy" /\ s[2] = "tool_lookup" /\ s[3] = "kernel"
        /\ s[4] = "memory" /\ s[5] = "context" /\ s[6] = "output"
    BY <1>5, StepsHold DEF EndsAt
  <2> HIDE DEF s
  <2>2. \A i \in 1..6 : i = 1 \/ i = 2 \/ i = 3 \/ i = 4 \/ i = 5 \/ i = 6
    OBVIOUS
  <2> QED
    BY <1>2, <1>5, <2>1, <2>2 DEF KernelFlows, Interruptions
<1>6. CASE plan.flow \in Interruptions
  <2>1. /\ DOMAIN s = 1..5 /\ s[1] = "policy" /\ s[2] = StopOf(plan.flow) /\ s[3] = "memory"
        /\ s[4] = "context" /\ s[5] = "output"
    BY <1>6, StepsHold DEF EndsAt
  <2> HIDE DEF s
  <2>2. \A i \in 1..5 : i = 1 \/ i = 2 \/ i = 3 \/ i = 4 \/ i = 5
    OBVIOUS
  <2> QED
    BY <1>2, <1>6, <2>1, <2>2 DEF KernelFlows, Interruptions, StopOf
<1> QED
  BY <1>1, <1>3, <1>4, <1>5, <1>6 DEF FlowNames

\* Which flows the policy interrupts, and which one it lets use the tool.
LEMMA PolicyIs ==
  ASSUME NEW plan, PlanOK(plan)
  PROVE  /\ PolicyOf(plan) = "ESCALATE" <=> plan.flow \in Interruptions
         /\ PolicyOf(plan) = "USE_TOOL" => plan.flow = "knowledge_lookup"
BY DEF PolicyOf, Interruptions, PlanOK

-----------------------------------------------------------------------------
\* The ways the steps that end a turn are taken.
Ends(way, plan) ==
  \/ way = "execute"
  \/ way = "end" /\ HasStep(plan, "memory") /\ HasStep(plan, "context") /\ HasStep(plan, "output")

\* Taken in these ways, the last steps are handled as they are.
LEMMA AdvanceEnds ==
  ASSUME NEW way, NEW plan, Ends(way, plan), NEW context, NEW remembered, NEW x,
         NEW step \in {"memory", "context", "output"}
  PROVE  Advance(way, plan, context, remembered, step, x) = Handle(plan, context, remembered, step, x)
<1>1. CASE way = "execute"
  BY <1>1 DEF Advance, AfterInterruption
<1>2. CASE way = "end" /\ HasStep(plan, step)
  BY <1>2 DEF Advance, LegacyStep
<1> QED
  BY <1>1, <1>2 DEF Ends

\* A walk goes through them with what it holds before.
LEMMA WalkEnds ==
  ASSUME NEW h, NEW way, NEW plan, NEW context, NEW remembered, NEW list, NEW start,
         Walk(h, way, plan, context, remembered, list, start), Ends(way, plan),
         NEW k, EndsAt(list, k),
         NEW i, NEW d, NEW e, NEW n, NEW p, NEW a, NEW m, NEW o, Holds(h[k], i, d, e, n, p, a, m, o)
  PROVE  Holds(h[Len(list)], i, d, e, n, p, Spoken(context, a), remembered, Ended(context, a, o, e))
<1>1. /\ k \in Nat /\ Len(list) = k + 3
      /\ list[k + 1] = "memory" /\ list[k + 2] = "context" /\ list[k + 3] = "output"
  BY DEF EndsAt
<1>2. \A j \in 1..Len(list) : h[j] = Advance(way, plan, context, remembered, list[j], h[j - 1])
  BY DEF Walk
<1>3. /\ k + 1 \in 1..Len(list) /\ k + 2 \in 1..Len(list) /\ k + 3 \in 1..Len(list)
      /\ (k + 1) - 1 = k /\ (k + 2) - 1 = k + 1 /\ (k + 3) - 1 = k + 2
  BY <1>1
<1>4. /\ h[k + 1] = Advance(way, plan, context, remembered, "memory", h[k])
      /\ h[k + 2] = Advance(way, plan, context, remembered, "context", h[k + 1])
      /\ h[k + 3] = Advance(way, plan, context, remembered, "output", h[k + 2])
  <2>1. h[k + 1] = Advance(way, plan, context, remembered, list[k + 1], h[(k + 1) - 1])
    BY <1>2, <1>3
  <2>2. h[k + 2] = Advance(way, plan, context, remembered, list[k + 2], h[(k + 2) - 1])
    BY <1>2, <1>3
  <2>3. h[k + 3] = Advance(way, plan, context, remembered, list[k + 3], h[(k + 3) - 1])
    BY <1>2, <1>3
  <2> QED
    BY <1>1, <1>3, <2>1, <2>2, <2>3, Zenon
<1>5. /\ h[k + 1] = Handle(plan, context, remembered, "memory", h[k])
      /\ h[k + 2] = Handle(plan, context, remembered, "context", h[k + 1])
      /\ h[k + 3] = Handle(plan, context, remembered, "output", h[k + 2])
  BY <1>4, AdvanceEnds
<1>6. LET y == Handle(plan, context, remembered, "memory", h[k])
          z == Handle(plan, context, remembered, "context", y)
          w == Handle(plan, context, remembered, "output", z)
      IN  Holds(w, i, d, e, n, p, Spoken(context, a), remembered, Ended(context, a, o, e))
  BY EndingHolds
<1>7. Holds(h[k + 3], i, d, e, n, p, Spoken(context, a), remembered, Ended(context, a, o, e))
  BY <1>5, <1>6, Zenon
<1> QED
  BY <1>1, <1>7

-----------------------------------------------------------------------------
\* What an engine makes of a plan: evidence, outcomes before those of the steps that end the
\* turn, and the whole of it; an interrupted turn is left with the program p.
EvidenceOf(plan, e) == IF PolicyOf(plan) = "USE_TOOL" THEN FoundEvidence(plan, e) ELSE e
LookStatus(plan, e) == IF PolicyOf(plan) = "USE_TOOL" THEN FoundStatus(plan, e) ELSE "skipped"

Ruled(status) == Append(<<>>, Told("policy", status, NoEvidence))
Looked(plan, e) == Told("tool_lookup", LookStatus(plan, e), EvidenceOf(plan, e))
Answered == Told("kernel", "success", NoEvidence)

Before(plan, e) ==
  CASE plan.flow \in KernelFlows -> Append(<<>>, Answered)
    [] plan.flow = "guided_process" -> Append(Ruled("success"), Answered)
    [] plan.flow = "knowledge_lookup" -> Append(Append(Ruled("success"), Looked(plan, e)), Answered)
    [] plan.flow \in Interruptions ->
         Append(Ruled("interrupted"), Told(StopOf(plan.flow), "success", NoEvidence))

Ran(plan, context) == PolicyOf(plan) = "USE_TOOL" /\ Called(context)

\* The answer of the steps before the output.
BaseOf(plan, evidence) ==
  IF plan.flow \in Interruptions THEN <<"policy">> ELSE AnswerOf(PolicyOf(plan), evidence, plan.program)

Result(x, plan, context, e, p, remembered) ==
  LET stopped == plan.flow \in Interruptions
      evidence == EvidenceOf(plan, e)
  IN  Holds(x, stopped, PolicyOf(plan), evidence, Ran(plan, context), IF stopped THEN p ELSE plan.program,
            Spoken(context, BaseOf(plan, evidence)), remembered,
            Ended(context, BaseOf(plan, evidence), Before(plan, e), evidence))

\* A turn before its steps.
Fresh(r, e, p) == \E d, a, m : Holds(r, FALSE, d, e, FALSE, p, a, m, <<>>)

\* Officially there is no evidence yet, for a comparison that of the official execution.
Sensible(plan, context, e) ==
  PolicyOf(plan) = "USE_TOOL" => (context.mode = "official" /\ e = NoEvidence) \/ (context.mode = "shadow" /\ e # NoEvidence)

\* What a run must hold at its end, flow by flow.
LEMMA ResultOf ==
  ASSUME NEW x, NEW plan, PlanOK(plan), NEW context, NEW e, NEW p, NEW remembered
  PROVE  /\ plan.flow \in Interruptions =>
              (Holds(x, TRUE, "ESCALATE", e, FALSE, p, Spoken(context, <<"policy">>), remembered,
                     Ended(context, <<"policy">>, Append(Ruled("interrupted"), Told(StopOf(plan.flow), "success", NoEvidence)), e))
               => Result(x, plan, context, e, p, remembered))
         /\ plan.flow \in KernelFlows =>
              (Holds(x, FALSE, PolicyOf(plan), e, FALSE, plan.program, Spoken(context, AnswerOf(PolicyOf(plan), e, plan.program)),
                     remembered, Ended(context, AnswerOf(PolicyOf(plan), e, plan.program), Append(<<>>, Answered), e))
               => Result(x, plan, context, e, p, remembered))
         /\ plan.flow = "guided_process" =>
              (Holds(x, FALSE, PolicyOf(plan), e, FALSE, plan.program, Spoken(context, AnswerOf(PolicyOf(plan), e, plan.program)),
                     remembered, Ended(context, AnswerOf(PolicyOf(plan), e, plan.program), Append(Ruled("success"), Answered), e))
               => Result(x, plan, context, e, p, remembered))
         /\ plan.flow = "knowledge_lookup" =>
              (Holds(x, FALSE, PolicyOf(plan), EvidenceOf(plan, e), Ran(plan, context), plan.program,
                     Spoken(context, AnswerOf(PolicyOf(plan), EvidenceOf(plan, e), plan.program)), remembered,
                     Ended(context, AnswerOf(PolicyOf(plan), EvidenceOf(plan, e), plan.program), Append(Append(Ruled("success"), Looked(plan, e)), Answered), EvidenceOf(plan, e)))
               => Result(x, plan, context, e, p, remembered))
<1>1. PolicyOf(plan) = "ESCALATE" <=> plan.flow \in Interruptions
  BY PolicyIs
<1>2. PolicyOf(plan) = "USE_TOOL" => plan.flow = "knowledge_lookup"
  BY PolicyIs
<1>3. CASE plan.flow \in Interruptions
  <2>1. /\ plan.flow \notin KernelFlows /\ plan.flow # "guided_process" /\ plan.flow # "knowledge_lookup"
        /\ PolicyOf(plan) # "USE_TOOL" /\ EvidenceOf(plan, e) = e /\ Ran(plan, context) = FALSE
    BY <1>2, <1>3 DEF KernelFlows, Interruptions, EvidenceOf, Ran
  <2>2. Before(plan, e) = Append(Ruled("interrupted"), Told(StopOf(plan.flow), "success", NoEvidence))
    BY <1>3, <2>1 DEF Before
  <2>3. BaseOf(plan, e) = <<"policy">>
    BY <1>3 DEF BaseOf
  <2> QED
    BY <1>1, <1>3, <2>1, <2>2, <2>3 DEF Result
<1>4. CASE plan.flow \in KernelFlows
  <2>1. /\ plan.flow \notin Interruptions /\ plan.flow # "guided_process" /\ plan.flow # "knowledge_lookup"
        /\ PolicyOf(plan) # "USE_TOOL" /\ EvidenceOf(plan, e) = e /\ Ran(plan, context) = FALSE
    BY <1>2, <1>4 DEF KernelFlows, Interruptions, EvidenceOf, Ran
  <2>2. Before(plan, e) = Append(<<>>, Answered)
    BY <1>4, <2>1 DEF Before
  <2>3. (plan.flow \in Interruptions) = FALSE
    BY <2>1
  <2>4. BaseOf(plan, e) = AnswerOf(PolicyOf(plan), e, plan.program)
    BY <2>1 DEF BaseOf
  <2> QED
    BY <1>1, <1>4, <2>1, <2>2, <2>3, <2>4 DEF Result
<1>5. CASE plan.flow = "guided_process"
  <2>1. /\ plan.flow \notin Interruptions /\ plan.flow \notin KernelFlows /\ plan.flow # "knowledge_lookup"
        /\ PolicyOf(plan) # "USE_TOOL" /\ EvidenceOf(plan, e) = e /\ Ran(plan, context) = FALSE
    BY <1>2, <1>5 DEF KernelFlows, Interruptions, EvidenceOf, Ran
  <2>2. Before(plan, e) = Append(Ruled("success"), Answered)
    BY <1>5, <2>1 DEF Before
  <2>3. (plan.flow \in Interruptions) = FALSE
    BY <2>1
  <2>4. BaseOf(plan, e) = AnswerOf(PolicyOf(plan), e, plan.program)
    BY <2>1 DEF BaseOf
  <2> QED
    BY <1>1, <1>5, <2>1, <2>2, <2>3, <2>4 DEF Result
<1>6. CASE plan.flow = "knowledge_lookup"
  <2>1. plan.flow \notin Interruptions /\ plan.flow \notin KernelFlows /\ plan.flow # "guided_process"
    BY <1>6 DEF KernelFlows, Interruptions
  <2>2. Before(plan, e) = Append(Append(Ruled("success"), Looked(plan, e)), Answered)
    BY <1>6, <2>1 DEF Before
  <2>3. (plan.flow \in Interruptions) = FALSE
    BY <2>1
  <2>4. BaseOf(plan, EvidenceOf(plan, e)) = AnswerOf(PolicyOf(plan), EvidenceOf(plan, e), plan.program)
    BY <2>1 DEF BaseOf
  <2> QED
    BY <1>1, <1>6, <2>1, <2>2, <2>3, <2>4 DEF Result
<1> QED
  BY <1>3, <1>4, <1>5, <1>6 DEF PlanOK, FlowNames

\* The tool's step, whether the policy asked for it or not.
LEMMA Whichever ==
  ASSUME NEW x, NEW e, NEW p, NEW a, NEW m, NEW o,
         NEW plan, Holds(x, FALSE, PolicyOf(plan), e, FALSE, p, a, m, o), NEW context, NEW remembered,
         Sensible(plan, context, e)
  PROVE  Holds(Handle(plan, context, remembered, "tool_lookup", x), FALSE, PolicyOf(plan), EvidenceOf(plan, e),
               Ran(plan, context), p, a, m, Append(o, Looked(plan, e)))
<1> DEFINE y == Handle(plan, context, remembered, "tool_lookup", x)
           D == PolicyOf(plan)
<1>1. /\ D # "USE_TOOL" => Holds(y, FALSE, D, e, FALSE, p, a, m, Append(o, Told("tool_lookup", "skipped", e)))
      /\ D = "USE_TOOL" =>
           Holds(y, FALSE, D, FoundEvidence(plan, e), Called(context), p, a, m,
                 Append(o, Told("tool_lookup", FoundStatus(plan, e), FoundEvidence(plan, e))))
  <2>1. D = "USE_TOOL" => \/ context.mode = "official" /\ e = NoEvidence
                          \/ context.mode = "shadow" /\ e # NoEvidence
    BY DEF Sensible
  <2>2. Holds(x, FALSE, D, e, FALSE, p, a, m, o)
    OBVIOUS
  <2> HIDE DEF D
  <2> QED
    BY <2>1, <2>2, LookUpHolds
<1>2. CASE D = "USE_TOOL"
  <2>1. /\ EvidenceOf(plan, e) = FoundEvidence(plan, e) /\ LookStatus(plan, e) = FoundStatus(plan, e)
        /\ Ran(plan, context) = Called(context)
    BY <1>2 DEF EvidenceOf, LookStatus, Ran, Called
  <2> QED
    BY <1>1, <1>2, <2>1 DEF Looked
<1>3. CASE D # "USE_TOOL"
  <2>1. /\ EvidenceOf(plan, e) = e /\ LookStatus(plan, e) = "skipped" /\ Ran(plan, context) = FALSE
    BY <1>3 DEF EvidenceOf, LookStatus, Ran
  <2> QED
    BY <1>1, <1>3, <2>1 DEF Looked
<1> QED
  BY <1>2, <1>3

-----------------------------------------------------------------------------
\* The executor.
LEMMA ExecuteHolds ==
  ASSUME NEW plan, PlanOK(plan), NEW context, NEW remembered, NEW r, NEW e, NEW p,
         Fresh(r, e, p), Sensible(plan, context, e)
  PROVE  Result(Execute(plan, context, remembered, r), plan, context, e, p, remembered)
<1> DEFINE s == plan.steps
           P == PolicyOf(plan)
<1>1. PICK d, a, m : Holds(r, FALSE, d, e, FALSE, p, a, m, <<>>)
  BY DEF Fresh
<1>2. Listed(s)
  BY StepsHold DEF Listed, EndsAt, PlanOK, FlowNames
<1>3. PICK h : /\ Walk(h, "execute", plan, context, remembered, s, ExecuteStart(plan, r))
               /\ Execute(plan, context, remembered, r) = h[Len(s)]
  BY <1>2, ExecuteWalks
<1>4. h[0] = ExecuteStart(plan, r)
  BY <1>3 DEF Walk
<1>5. Ends("execute", plan)
  BY DEF Ends
<1> HIDE DEF s
<1>6. ASSUME NEW k \in 1..Len(s), NEW step, s[k] = step, NEW before, h[k - 1] = before,
             before.interrupted = FALSE \/ step \in AfterInterruption
      PROVE  h[k] = Handle(plan, context, remembered, step, before)
  <2>1. h[k] = Advance("execute", plan, context, remembered, step, before)
    BY <1>3, <1>6 DEF Walk
  <2> QED
    BY <1>6, <2>1 DEF Advance
<1>7. CASE plan.flow \in KernelFlows
  <2>1. EndsAt(s, 1) /\ s[1] = "kernel" /\ 1 \in 1..Len(s) /\ Len(s) = 4
    BY <1>7, StepsHold DEF EndsAt, s
  <2>2. h[0] = Decided(plan, r)
    BY <1>4, <1>7, HasSteps, Zenon DEF ExecuteStart, Decided
  <2>3. Holds(h[0], FALSE, P, e, FALSE, p, a, m, <<>>)
    BY <1>1, <2>2, PolicyHolds
  <2>4. h[1] = Handle(plan, context, remembered, "kernel", h[0])
    <3>1. h[1 - 1] = h[0] /\ h[0].interrupted = FALSE
      BY <2>3 DEF Holds
    <3> QED
      BY <1>6, <2>1, <3>1
  <2>5. Holds(h[1], FALSE, P, e, FALSE, plan.program, AnswerOf(P, e, plan.program), m, Append(<<>>, Answered))
    <3> HIDE DEF P
    <3> QED
      BY <2>3, <2>4, KernelHolds DEF Answered
  <2>6. Holds(h[Len(s)], FALSE, P, e, FALSE, plan.program, Spoken(context, AnswerOf(P, e, plan.program)), remembered,
              Ended(context, AnswerOf(P, e, plan.program), Append(<<>>, Answered), e))
    <3> HIDE DEF P
    <3> QED
      BY <1>3, <1>5, <2>1, <2>5, WalkEnds
  <2> QED
    BY <1>3, <1>7, <2>6, ResultOf
<1>8. CASE plan.flow \notin KernelFlows
  <2>1. s[1] = "policy" /\ 1 \in 1..Len(s)
    BY <1>8, StepsHold DEF EndsAt, s, PlanOK, FlowNames
  <2>2. h[0] = r /\ h[0].interrupted = FALSE
    BY <1>1, <1>4, <1>8, HasSteps DEF ExecuteStart, Holds
  <2>3. h[1] = Decide(plan, r)
    <3>1. h[1 - 1] = r /\ r.interrupted = FALSE
      BY <2>2
    <3>2. h[1] = Handle(plan, context, remembered, "policy", r)
      BY <1>6, <2>1, <3>1
    <3> QED
      BY <3>2 DEF Handle
  <2>4. /\ P = "ESCALATE" => Holds(h[1], TRUE, P, e, FALSE, p, a, m, Ruled("interrupted"))
        /\ P # "ESCALATE" => Holds(h[1], FALSE, P, e, FALSE, p, a, m, Ruled("success"))
    BY <1>1, <2>3, PolicyHolds DEF Ruled
  <2>5. P = "ESCALATE" <=> plan.flow \in Interruptions
    BY PolicyIs
  <2>6. CASE plan.flow = "guided_process"
    <3>1. EndsAt(s, 2) /\ s[2] = "kernel" /\ 2 \in 1..Len(s) /\ Len(s) = 5
      BY <2>6, StepsHold DEF EndsAt, s
    <3>2. Holds(h[1], FALSE, P, e, FALSE, p, a, m, Ruled("success"))
      BY <2>4, <2>5, <2>6 DEF Interruptions
    <3>3. h[2] = Handle(plan, context, remembered, "kernel", h[1])
      <4>1. h[2 - 1] = h[1] /\ h[1].interrupted = FALSE
        BY <3>2 DEF Holds
      <4> QED
        BY <1>6, <3>1, <4>1
    <3>4. Holds(h[2], FALSE, P, e, FALSE, plan.program, AnswerOf(P, e, plan.program), m,
                Append(Ruled("success"), Answered))
      <4> HIDE DEF P
      <4> QED
        BY <3>2, <3>3, KernelHolds DEF Answered
    <3>5. Holds(h[Len(s)], FALSE, P, e, FALSE, plan.program, Spoken(context, AnswerOf(P, e, plan.program)), remembered,
                Ended(context, AnswerOf(P, e, plan.program), Append(Ruled("success"), Answered), e))
      <4> HIDE DEF P
      <4> QED
        BY <1>3, <1>5, <3>1, <3>4, WalkEnds
    <3> QED
      BY <1>3, <2>6, <3>5, ResultOf
  <2>7. CASE plan.flow = "knowledge_lookup"
    <3> DEFINE E == EvidenceOf(plan, e)
               N == Ran(plan, context)
    <3>1. /\ EndsAt(s, 3) /\ s[2] = "tool_lookup" /\ s[3] = "kernel" /\ Len(s) = 6
          /\ 2 \in 1..Len(s) /\ 3 \in 1..Len(s)
      BY <2>7, StepsHold DEF EndsAt, s
    <3>2. Holds(h[1], FALSE, P, e, FALSE, p, a, m, Ruled("success"))
      BY <2>4, <2>5, <2>7 DEF Interruptions
    <3>3. h[2] = Handle(plan, context, remembered, "tool_lookup", h[1])
      <4>1. h[2 - 1] = h[1] /\ h[1].interrupted = FALSE
        BY <3>2 DEF Holds
      <4> QED
        BY <1>6, <3>1, <4>1
    <3>4. Holds(h[2], FALSE, P, E, N, p, a, m, Append(Ruled("success"), Looked(plan, e)))
      <4>1. Holds(Handle(plan, context, remembered, "tool_lookup", h[1]), FALSE, P, E, N, p, a, m,
                  Append(Ruled("success"), Looked(plan, e)))
        BY <3>2, Whichever
      <4> QED
        BY <3>3, <4>1
    <3> HIDE DEF E, N
    <3>5. h[3] = Handle(plan, context, remembered, "kernel", h[2])
      <4>1. h[3 - 1] = h[2] /\ h[2].interrupted = FALSE
        BY <3>4 DEF Holds
      <4> QED
        BY <1>6, <3>1, <4>1
    <3>6. Holds(h[3], FALSE, P, E, N, plan.program, AnswerOf(P, E, plan.program), m,
                Append(Append(Ruled("success"), Looked(plan, e)), Answered))
      <4> HIDE DEF P
      <4> QED
        BY <3>4, <3>5, KernelHolds DEF Answered
    <3>7. Holds(h[Len(s)], FALSE, P, E, N, plan.program, Spoken(context, AnswerOf(P, E, plan.program)), remembered,
                Ended(context, AnswerOf(P, E, plan.program), Append(Append(Ruled("success"), Looked(plan, e)), Answered), E))
      <4> HIDE DEF P
      <4> QED
        BY <1>3, <1>5, <3>1, <3>6, WalkEnds
    <3> QED
      BY <1>3, <2>7, <3>7, ResultOf DEF E, N
  <2>8. CASE plan.flow \in Interruptions
    <3> DEFINE stop == StopOf(plan.flow)
    <3>1. EndsAt(s, 2) /\ s[2] = stop /\ 2 \in 1..Len(s) /\ Len(s) = 5
      BY <2>8, StepsHold DEF EndsAt, s
    <3>2. stop \in {"handoff", "escalation"} /\ stop \in AfterInterruption
      BY DEF StopOf, AfterInterruption
    <3>3. Holds(h[1], TRUE, "ESCALATE", e, FALSE, p, a, m, Ruled("interrupted"))
      BY <2>4, <2>5, <2>8
    <3> HIDE DEF stop
    <3>4. h[2] = Handle(plan, context, remembered, stop, h[1])
      <4>1. h[2 - 1] = h[1]
        OBVIOUS
      <4> QED
        BY <1>6, <3>1, <3>2, <4>1
    <3>5. Holds(h[2], TRUE, "ESCALATE", e, FALSE, p, <<"policy">>, m,
                Append(Ruled("interrupted"), Told(stop, "success", NoEvidence)))
      BY <3>2, <3>3, <3>4, StopHolds
    <3>6. Holds(h[Len(s)], TRUE, "ESCALATE", e, FALSE, p, Spoken(context, <<"policy">>), remembered,
                Ended(context, <<"policy">>, Append(Ruled("interrupted"), Told(stop, "success", NoEvidence)), e))
      BY <1>3, <1>5, <3>1, <3>5, WalkEnds
    <3> QED
      BY <1>3, <2>8, <3>6, ResultOf DEF stop
  <2> QED
    BY <1>8, <2>6, <2>7, <2>8 DEF PlanOK, FlowNames
<1> QED
  BY <1>7, <1>8

-----------------------------------------------------------------------------
\* The older executor: its end, ...
LEMMA LegacyEndHolds ==
  ASSUME NEW plan, PlanOK(plan), NEW context, NEW remembered, NEW x,
         NEW i, NEW d, NEW e, NEW n, NEW p, NEW a, NEW m, NEW o, Holds(x, i, d, e, n, p, a, m, o),
         NEW q
  PROVE  Holds([LegacyEnd(plan, context, remembered, x) EXCEPT !.program = q],
               i, d, e, n, q, Spoken(context, a), remembered, Ended(context, a, o, e))
<1> DEFINE y == LegacyEnd(plan, context, remembered, x)
           z == [y EXCEPT !.program = q]
<1>1. PICK h : Walk(h, "end", plan, context, remembered, Ending, x) /\ y = h[Len(Ending)]
  BY EndWalks
<1>2. h[0] = x
  BY <1>1 DEF Walk
<1>3. EndsAt(Ending, 0)
  BY DEF EndsAt, Ending
<1>4. Ends("end", plan)
  BY HasSteps DEF Ends
<1> HIDE DEF y
<1>5. Holds(y, i, d, e, n, p, Spoken(context, a), remembered, Ended(context, a, o, e))
  BY <1>1, <1>2, <1>3, <1>4, WalkEnds
<1>6. Holds(z, i, d, e, n, q, Spoken(context, a), remembered, Ended(context, a, o, e))
  BY <1>5, Zenon DEF Holds
<1> QED
  BY <1>6 DEF y

\* ... its search for the tool, ...
LEMMA SliceHolds ==
  ASSUME NEW plan, PlanOK(plan), NEW context, NEW remembered, NEW r
  PROVE  Slice(plan, context, remembered, {"tool_lookup"}, r) =
           IF plan.flow = "knowledge_lookup" THEN Handle(plan, context, remembered, "tool_lookup", r) ELSE r
<1> DEFINE s == plan.steps
<1>1. Listed(s)
  BY StepsHold DEF Listed, EndsAt, PlanOK, FlowNames
<1>2. PICK h : /\ Walk(h, "lookup", plan, context, remembered, s, r)
               /\ Slice(plan, context, remembered, {"tool_lookup"}, r) = h[Len(s)]
  BY <1>1, SliceWalks
<1>3. h[0] = r
  BY <1>2 DEF Walk
<1> HIDE DEF s
<1>4. ASSUME NEW k \in 1..Len(s), NEW step, s[k] = step, NEW before, h[k - 1] = before
      PROVE  h[k] = IF step = "tool_lookup" THEN Handle(plan, context, remembered, step, before) ELSE before
  <2>1. h[k] = Advance("lookup", plan, context, remembered, step, before)
    BY <1>2, <1>4 DEF Walk
  <2> QED
    BY <2>1 DEF Advance
<1>5. CASE plan.flow \in KernelFlows
  <2>1. /\ Len(s) = 4 /\ s[1] = "kernel" /\ s[2] = "memory" /\ s[3] = "context" /\ s[4] = "output"
    BY <1>5, StepsHold DEF EndsAt, s
  <2>2. /\ 1 \in 1..Len(s) /\ 2 \in 1..Len(s) /\ 3 \in 1..Len(s) /\ 4 \in 1..Len(s)
        /\ h[1 - 1] = h[0] /\ h[2 - 1] = h[1] /\ h[3 - 1] = h[2] /\ h[4 - 1] = h[3]
    BY <2>1
  <2>3. h[1] = h[0] /\ h[2] = h[1] /\ h[3] = h[2] /\ h[4] = h[3]
    BY <1>4, <2>1, <2>2
  <2> QED
    BY <1>2, <1>3, <1>5, <2>1, <2>3 DEF KernelFlows
<1>6. CASE plan.flow = "guided_process" \/ plan.flow \in Interruptions
  <2>1. /\ Len(s) = 5 /\ s[1] = "policy" /\ s[2] # "tool_lookup" /\ s[3] = "memory"
        /\ s[4] = "context" /\ s[5] = "output"
    BY <1>6, StepsHold DEF EndsAt, s, StopOf
  <2>2. /\ 1 \in 1..Len(s) /\ 2 \in 1..Len(s) /\ 3 \in 1..Len(s) /\ 4 \in 1..Len(s) /\ 5 \in 1..Len(s)
        /\ h[1 - 1] = h[0] /\ h[2 - 1] = h[1] /\ h[3 - 1] = h[2] /\ h[4 - 1] = h[3] /\ h[5 - 1] = h[4]
    BY <2>1
  <2>3. h[1] = h[0] /\ h[2] = h[1] /\ h[3] = h[2] /\ h[4] = h[3] /\ h[5] = h[4]
    BY <1>4, <2>1, <2>2
  <2> QED
    BY <1>2, <1>3, <1>6, <2>1, <2>3 DEF Interruptions
<1>7. CASE plan.flow = "knowledge_lookup"
  <2>1. /\ Len(s) = 6 /\ s[1] = "policy" /\ s[2] = "tool_lookup" /\ s[3] = "kernel" /\ s[4] = "memory"
        /\ s[5] = "context" /\ s[6] = "output"
    BY <1>7, StepsHold DEF EndsAt, s
  <2>2. /\ 1 \in 1..Len(s) /\ 2 \in 1..Len(s) /\ 3 \in 1..Len(s) /\ 4 \in 1..Len(s)
        /\ 5 \in 1..Len(s) /\ 6 \in 1..Len(s)
        /\ h[1 - 1] = h[0] /\ h[2 - 1] = h[1] /\ h[3 - 1] = h[2] /\ h[4 - 1] = h[3] /\ h[5 - 1] = h[4]
        /\ h[6 - 1] = h[5]
    BY <2>1
  <2>3. h[1] = h[0] /\ h[3] = h[2] /\ h[4] = h[3] /\ h[5] = h[4] /\ h[6] = h[5]
    BY <1>4, <2>1, <2>2
  <2>4. h[2] = Handle(plan, context, remembered, "tool_lookup", h[1])
    BY <1>4, <2>1, <2>2
  <2> QED
    BY <1>2, <1>3, <1>7, <2>1, <2>3, <2>4
<1> QED
  BY <1>5, <1>6, <1>7 DEF PlanOK, FlowNames

\* ... and the whole of it.
LEMMA LegacyHolds ==
  ASSUME NEW plan, PlanOK(plan), NEW context, NEW remembered, NEW r, NEW e, NEW p,
         Fresh(r, e, p), Sensible(plan, context, e)
  PROVE  Result(LegacyExecute(plan, context, remembered, r), plan, context, e, NoProgram, remembered)
<1> DEFINE P == PolicyOf(plan)
           start == LegacyStart(plan, r)
           done == LegacyExecute(plan, context, remembered, r)
           looked == Slice(plan, context, remembered, {"tool_lookup"}, start)
           answered == Handle(plan, context, remembered, "kernel", looked)
<1>1. PICK d, a, m : Holds(r, FALSE, d, e, FALSE, p, a, m, <<>>)
  BY DEF Fresh
<1>2. P = "ESCALATE" <=> plan.flow \in Interruptions
  BY PolicyIs
<1>3. /\ plan.flow \in KernelFlows => Holds(start, FALSE, P, e, FALSE, p, a, m, <<>>)
      /\ plan.flow \in Interruptions => Holds(start, TRUE, P, e, FALSE, p, a, m, Ruled("interrupted"))
      /\ plan.flow \notin KernelFlows \union Interruptions =>
           Holds(start, FALSE, P, e, FALSE, p, a, m, Ruled("success"))
  <2>1. /\ plan.flow \in KernelFlows => start = Decided(plan, r)
        /\ plan.flow \notin KernelFlows => start = Decide(plan, r)
    BY HasSteps, Zenon DEF LegacyStart, Decided
  <2>2. /\ P = "ESCALATE" => Holds(Decide(plan, r), TRUE, P, e, FALSE, p, a, m, Ruled("interrupted"))
        /\ P # "ESCALATE" => Holds(Decide(plan, r), FALSE, P, e, FALSE, p, a, m, Ruled("success"))
        /\ Holds(Decided(plan, r), FALSE, P, e, FALSE, p, a, m, <<>>)
    BY <1>1, PolicyHolds DEF Ruled
  <2>3. plan.flow \in Interruptions => plan.flow \notin KernelFlows
    BY DEF KernelFlows, Interruptions
  <2> HIDE DEF start, P
  <2> QED
    BY <1>2, <2>1, <2>2, <2>3
<1>4. CASE plan.flow \in Interruptions
  <2> DEFINE stop == StopOf(plan.flow)
             list == LegacyInterruption(plan)
  <2>1. /\ Len(list) = 1 /\ list[1] = stop
    BY <1>4, HasSteps DEF LegacyInterruption, StopOf, Interruptions
  <2>2. done = LegacyInterrupted(plan, context, remembered, r)
    BY <1>2, <1>4 DEF LegacyExecute
  <2>3. stop \in {"handoff", "escalation"}
    BY DEF StopOf
  <2> HIDE DEF list, stop
  <2>4. PICK h : /\ Walk(h, "interrupt", plan, context, remembered, list, start)
                 /\ LegacyInterrupted(plan, context, remembered, r) =
                      [LegacyEnd(plan, context, remembered, h[Len(list)]) EXCEPT !.program = NoProgram]
    BY InterruptWalks DEF list
  <2>5. h[0] = start /\ h[1] = Handle(plan, context, remembered, stop, start)
    <3>1. h[0] = start /\ h[1] = Advance("interrupt", plan, context, remembered, list[1], h[1 - 1])
      <4>1. 1 \in 1..Len(list)
        BY <2>1
      <4> HIDE DEF start
      <4> QED
        BY <2>4, <4>1 DEF Walk
    <3> HIDE DEF start
    <3> QED
      BY <2>1, <3>1 DEF Advance
  <2>6. Holds(start, TRUE, "ESCALATE", e, FALSE, p, a, m, Ruled("interrupted"))
    BY <1>2, <1>3, <1>4
  <2> HIDE DEF start
  <2>7. Holds(h[1], TRUE, "ESCALATE", e, FALSE, p, <<"policy">>, m,
              Append(Ruled("interrupted"), Told(stop, "success", NoEvidence)))
    BY <2>3, <2>5, <2>6, StopHolds
  <2>8. Holds([LegacyEnd(plan, context, remembered, h[1]) EXCEPT !.program = NoProgram],
              TRUE, "ESCALATE", e, FALSE, NoProgram, Spoken(context, <<"policy">>), remembered,
              Ended(context, <<"policy">>, Append(Ruled("interrupted"), Told(stop, "success", NoEvidence)), e))
    BY <2>7, LegacyEndHolds
  <2>9. done = [LegacyEnd(plan, context, remembered, h[1]) EXCEPT !.program = NoProgram]
    BY <2>1, <2>2, <2>4, Zenon
  <2>10. Holds(done, TRUE, "ESCALATE", e, FALSE, NoProgram, Spoken(context, <<"policy">>), remembered,
               Ended(context, <<"policy">>, Append(Ruled("interrupted"), Told(stop, "success", NoEvidence)), e))
    BY <2>8, <2>9, Zenon
  <2> HIDE DEF done
  <2>11. Result(done, plan, context, e, NoProgram, remembered)
    BY <1>4, <2>10, ResultOf DEF stop
  <2> QED
    BY <2>11 DEF done
<1>5. CASE plan.flow \notin Interruptions
  <2>1. done = [LegacyEnd(plan, context, remembered, answered) EXCEPT !.program = plan.program]
    <3>1. done = LegacyKernelPath(plan, context, remembered, r)
      BY <1>2, <1>5 DEF LegacyExecute
    <3>2. LegacyStep(plan, context, remembered, "kernel", looked) = answered
      BY <1>5, HasSteps, Zenon DEF LegacyStep
    <3>3. LegacyKernelPath(plan, context, remembered, r) =
            [LegacyEnd(plan, context, remembered, LegacyStep(plan, context, remembered, "kernel", looked))
               EXCEPT !.program = plan.program]
      BY Zenon DEF LegacyKernelPath
    <3> QED
      BY <3>1, <3>2, <3>3, Zenon
  <2>2. looked = IF plan.flow = "knowledge_lookup" THEN Handle(plan, context, remembered, "tool_lookup", start)
                 ELSE start
    BY SliceHolds
  <2> HIDE DEF done, looked, start
  <2>3. ASSUME NEW E, NEW N, NEW o, Holds(looked, FALSE, P, E, N, p, a, m, o)
        PROVE  Holds(done, FALSE, P, E, N, plan.program, Spoken(context, AnswerOf(P, E, plan.program)), remembered,
                     Ended(context, AnswerOf(P, E, plan.program), Append(o, Answered), E))
    <3> HIDE DEF P
    <3>1. Holds(answered, FALSE, P, E, N, plan.program, AnswerOf(P, E, plan.program), m, Append(o, Answered))
      BY <2>3, KernelHolds DEF Answered
    <3> HIDE DEF answered
    <3>2. Holds([LegacyEnd(plan, context, remembered, answered) EXCEPT !.program = plan.program],
                FALSE, P, E, N, plan.program, Spoken(context, AnswerOf(P, E, plan.program)), remembered,
                Ended(context, AnswerOf(P, E, plan.program), Append(o, Answered), E))
      BY <3>1, LegacyEndHolds
    <3> QED
      BY <2>1, <3>2, Zenon
  <2>4. CASE plan.flow \in KernelFlows
    <3>1. looked = start
      BY <2>2, <2>4 DEF KernelFlows
    <3>2. Holds(looked, FALSE, P, e, FALSE, p, a, m, <<>>)
      BY <1>3, <2>4, <3>1
    <3>3. Holds(done, FALSE, P, e, FALSE, plan.program, Spoken(context, AnswerOf(P, e, plan.program)), remembered,
                Ended(context, AnswerOf(P, e, plan.program), Append(<<>>, Answered), e))
      BY <2>3, <3>2
    <3>4. Result(done, plan, context, e, NoProgram, remembered)
      BY <2>4, <3>3, ResultOf
    <3> QED
      BY <3>4 DEF done
  <2>5. CASE plan.flow = "guided_process"
    <3>1. looked = start
      BY <2>2, <2>5
    <3>2. Holds(looked, FALSE, P, e, FALSE, p, a, m, Ruled("success"))
      BY <1>3, <2>5, <3>1 DEF KernelFlows, Interruptions
    <3>3. Holds(done, FALSE, P, e, FALSE, plan.program, Spoken(context, AnswerOf(P, e, plan.program)), remembered,
                Ended(context, AnswerOf(P, e, plan.program), Append(Ruled("success"), Answered), e))
      BY <2>3, <3>2
    <3>4. Result(done, plan, context, e, NoProgram, remembered)
      BY <2>5, <3>3, ResultOf
    <3> QED
      BY <3>4 DEF done
  <2>6. CASE plan.flow = "knowledge_lookup"
    <3>1. looked = Handle(plan, context, remembered, "tool_lookup", start)
      BY <2>2, <2>6
    <3>2. Holds(start, FALSE, P, e, FALSE, p, a, m, Ruled("success"))
      BY <1>3, <2>6 DEF KernelFlows, Interruptions
    <3>3. Holds(looked, FALSE, P, EvidenceOf(plan, e), Ran(plan, context), p, a, m,
                Append(Ruled("success"), Looked(plan, e)))
      <4>1. Holds(Handle(plan, context, remembered, "tool_lookup", start), FALSE, P, EvidenceOf(plan, e),
                  Ran(plan, context), p, a, m, Append(Ruled("success"), Looked(plan, e)))
        BY <3>2, Whichever
      <4> QED
        BY <3>1, <4>1
    <3>4. Holds(done, FALSE, P, EvidenceOf(plan, e), Ran(plan, context), plan.program,
                Spoken(context, AnswerOf(P, EvidenceOf(plan, e), plan.program)), remembered,
                Ended(context, AnswerOf(P, EvidenceOf(plan, e), plan.program), Append(Append(Ruled("success"), Looked(plan, e)), Answered), EvidenceOf(plan, e)))
      BY <2>3, <3>3
    <3>5. Result(done, plan, context, e, NoProgram, remembered)
      BY <2>6, <3>4, ResultOf
    <3> QED
      BY <3>5 DEF done
  <2> QED
    BY <1>5, <2>4, <2>5, <2>6 DEF PlanOK, FlowNames
<1> QED
  BY <1>4, <1>5

-----------------------------------------------------------------------------
\* A plan is made for every message.
IntentNames ==
  {"greeting", "auto_claim_guidance", "concept_cleas", "concept_franquicia",
   "concept_denuncia_administrativa", "real_claim_status", "human_request", "fallback"}

\* A set of places that is not empty has a first one.
LEMMA LeastHolds ==
  ASSUME NEW n \in Nat, NEW s \in SUBSET (1..n), s # {}
  PROVE  Min(s) \in s
<1>1. s \subseteq Nat
  OBVIOUS
<1>2. PICK k \in s : \A j \in s : <<j, k>> \notin OpToRel(<, Nat)
  BY <1>1, NatLessThanWellFounded, WFMin
<1>3. \A j \in s : ~ (j < k)
  BY <1>1, <1>2 DEF OpToRel
<1>4. \A j \in s : k <= j
  BY <1>1, <1>3
<1> QED
  BY <1>4 DEF Min

\* One of several numbers is the greatest.
LEMMA GreatestHolds ==
  ASSUME NEW n \in Nat \ {0}, NEW f, \A i \in 1..n : f[i] \in Int
  PROVE  \E i \in 1..n : \A j \in 1..n : f[i] >= f[j]
<1> DEFINE Q(k) == \E i \in 1..n : \A j \in 1..k : f[i] >= f[j]
           P == {k \in 0..n : Q(k)}
<1>1. 0 \in P
  <2>1. 1 \in 1..n /\ 1..0 = {}
    OBVIOUS
  <2> QED
    BY <2>1
<1>2. ASSUME NEW k \in 0..n, k \in P, k # n
      PROVE  k + 1 \in P
  <2>1. PICK i \in 1..n : \A j \in 1..k : f[i] >= f[j]
    BY <1>2
  <2>2. k + 1 \in 1..n /\ \A j \in 1..(k + 1) : j \in 1..k \/ j = k + 1
    BY <1>2
  <2>3. f[i] \in Int /\ f[k + 1] \in Int /\ \A j \in 1..k : f[j] \in Int
    BY <2>2
  <2>4. CASE f[i] >= f[k + 1]
    <3>1. \A j \in 1..(k + 1) : f[i] >= f[j]
      BY <2>1, <2>2, <2>4
    <3> QED
      BY <2>2, <3>1
  <2>5. CASE ~ (f[i] >= f[k + 1])
    <3>1. \A j \in 1..(k + 1) : f[k + 1] >= f[j]
      <4> TAKE j \in 1..(k + 1)
      <4>1. CASE j = k + 1
        BY <2>3, <4>1
      <4>2. CASE j \in 1..k
        BY <2>1, <2>3, <2>5, <4>2
      <4> QED
        BY <2>2, <4>1, <4>2
    <3> QED
      BY <2>2, <3>1
  <2> QED
    BY <2>4, <2>5
<1>3. n \in P
  <2> HIDE DEF P
  <2> QED
    BY <1>1, <1>2, UpTo, n \in 0..n
<1> QED
  BY <1>3

\* The score of a rule is a number.
LEMMA ScoreIsNumber ==
  ASSUME NEW i \in 1..7, NEW hits \in Nat
  PROVE  Score(i, hits) \in Int
<1>1. Terms[i] \in {2, 3, 5, 6, 8, 9}
  BY DEF Terms
<1> DEFINE needed == IF Terms[i] < 4 THEN Terms[i] ELSE 4
<1>2. needed \in {2, 3, 4}
  BY <1>1
<1>3. Score(i, hits) = IF hits >= needed THEN Certain ELSE (Certain * hits) \div needed
  BY DEF Score
<1> HIDE DEF needed
<1> QED
  BY <1>2, <1>3 DEF Certain

\* The text is matched with one of the intents, or with none.
LEMMA MatchIs ==
  ASSUME NEW hits \in [1..7 -> Nat]
  PROVE  Match(hits).intent \in IntentNames
<1> DEFINE score(i) == Score(i, hits[i])
           best == {i \in DOMAIN Intents : \A j \in DOMAIN Intents : score(i) >= score(j)}
           f == [i \in 1..7 |-> score(i)]
<1>1. DOMAIN Intents = 1..7 /\ \A i \in 1..7 : Intents[i] \in IntentNames
  BY DEF Intents, IntentNames
<1>2. Min(best) \in best
  <2>1. \A i \in 1..7 : f[i] = score(i) /\ score(i) \in Int
    BY ScoreIsNumber
  <2> HIDE DEF f, score
  <2>2. \E i \in 1..7 : \A j \in 1..7 : f[i] >= f[j]
    BY <2>1, GreatestHolds
  <2>3. best # {} /\ best \in SUBSET (1..7)
    BY <1>1, <2>1, <2>2
  <2> HIDE DEF best
  <2> QED
    BY <2>3, LeastHolds
<1>3. Match(hits) = IF \A i \in DOMAIN Intents : hits[i] = 0
                    THEN [intent |-> "fallback", confidence |-> 0]
                    ELSE [intent |-> Intents[Min(best)], confidence |-> score(Min(best))]
  BY DEF Match
<1> HIDE DEF best, score
<1>4. Min(best) \in 1..7
  BY <1>1, <1>2 DEF best
<1>5. "fallback" \in IntentNames
  BY DEF IntentNames
<1> QED
  BY <1>1, <1>3, <1>4, <1>5

\* Every intent has a plan.
LEMMA PlanForOK ==
  ASSUME NEW match, match.intent \in IntentNames
  PROVE  PlanOK(PlanFor(match))
<1>1. ActionFor(match) \in {"static_response", "process_guidance", "knowledge_lookup", "safe_escalation",
                            "human_handoff", "clarify", "fallback_response"}
  BY DEF ActionFor, ActionRules, IntentNames
<1>2. Flows[ActionFor(match)] \in FlowNames
  BY <1>1 DEF Flows, FlowNames, KernelFlows, Interruptions
<1> QED
  BY <1>2 DEF PlanFor, PlanOK

\* So has every message, whatever the mission is.
LEMMA PlanIsMade ==
  ASSUME NEW m, m.hits \in [DOMAIN Intents -> Nat], NEW mission, NEW missing
  PROVE  PlanOK(PlanFor(IntentOf(m, mission, missing)))
<1>1. DOMAIN Intents = 1..7
  BY DEF Intents
<1>2. Match(m.hits).intent \in IntentNames
  BY <1>1, MatchIs
<1>3. IntentOf(m, mission, missing).intent \in IntentNames
  BY <1>2 DEF IntentOf, IntentNames
<1> QED
  BY <1>3, PlanForOK

-----------------------------------------------------------------------------
\* Either engine, and what it makes of a plan.
Engine(own, plan, context, remembered, r) ==
  IF own THEN Execute(plan, context, remembered, r) ELSE LegacyExecute(plan, context, remembered, r)

\* Either engine brings a plan to its result.
LEMMA EngineHolds ==
  ASSUME NEW plan, PlanOK(plan), NEW own \in BOOLEAN, NEW context, NEW remembered, NEW r, NEW e, NEW p,
         Fresh(r, e, p), Sensible(plan, context, e)
  PROVE  Result(Engine(own, plan, context, remembered, r), plan, context, e, IF own THEN p ELSE NoProgram, remembered)
<1>1. CASE own
  BY <1>1, ExecuteHolds DEF Engine
<1>2. CASE ~ own
  BY <1>2, LegacyHolds DEF Engine
<1> QED
  BY <1>1, <1>2

\* A turn starts its steps afresh, with the evidence it is given.
LEMMA RunIsFresh ==
  ASSUME NEW p, NEW a, NEW e
  PROVE  /\ Fresh(NewRun(p, a), NoEvidence, p)
         /\ Fresh([NewRun(p, a) EXCEPT !.evidence = e], e, p)
<1>1. Holds(NewRun(p, a), FALSE, "none", NoEvidence, FALSE, p, a, "nothing", <<>>)
  BY DEF NewRun, Holds
<1>2. Holds([NewRun(p, a) EXCEPT !.evidence = e], FALSE, "none", e, FALSE, p, a, "nothing", <<>>)
  BY DEF NewRun, Holds
<1> QED
  BY <1>1, <1>2 DEF Fresh

\* What two executions of a plan differ in, from what they start with and are given.
DifferAsGiven(plan, official, given, p, check, context, q) ==
  LET differ == Divergences(official, check)
  IN  /\ differ \subseteq {"program", "answer", "outcomes"}
      /\ "program" \in differ => plan.flow \in Interruptions /\ p # q
      /\ "answer" \in differ => context.reply # given.reply
      /\ "outcomes" \in differ =>
           \/ PolicyOf(plan) = "USE_TOOL" /\ Registered /\ plan.key \notin Known
           \/ context.reply # given.reply
           \/ given.first /\ given.limits /\ context.informed # given.informed

\* The official execution runs the tool when the policy asks for it and it is there, the other
\* does not; and they differ in nothing but the name of the program, where the turn is
\* interrupted, the outcome of a lookup that failed, and what the output step was given:
\* what the provider said of it, and whether the executor knew the limits of the text.
LEMMA EnginesCompare ==
  ASSUME NEW plan, PlanOK(plan), NEW official, NEW p, NEW remembered, NEW given, given.mode = "official",
         Result(official, plan, given, NoEvidence, p, remembered)
  PROVE  /\ official.decision = PolicyOf(plan)
         /\ official.ran = (official.decision = "USE_TOOL" /\ Registered)
         /\ Sensible(plan, given, NoEvidence)
         /\ \A context : context.mode = "shadow" =>
              /\ Sensible(plan, context, official.evidence)
              /\ \A check, q, again :
                   Result(check, plan, context, official.evidence, q, again) =>
                     /\ check.ran = FALSE
                     /\ remembered = again /\ context.first = given.first /\ context.limits = given.limits =>
                          DifferAsGiven(plan, official, given, p, check, context, q)
<1> DEFINE P == PolicyOf(plan)
           e == official.evidence
           stopped == plan.flow \in Interruptions
           wrong == P = "USE_TOOL" /\ Registered /\ plan.key \notin Known
<1>1. /\ official.decision = P /\ e = EvidenceOf(plan, NoEvidence)
      /\ official.ran = Ran(plan, given)
      /\ official.program = (IF stopped THEN p ELSE plan.program)
      /\ official.answer = Spoken(given, BaseOf(plan, e))
      /\ official.remembered = remembered
      /\ official.outcomes = Ended(given, BaseOf(plan, e), Before(plan, NoEvidence), e)
  BY DEF Result, Holds
<1>2. P = "USE_TOOL" => plan.flow = "knowledge_lookup" /\ ~ stopped
  BY PolicyIs DEF Interruptions
<1>3. P = "USE_TOOL" => e \in {"error", "concept"} /\ e # NoEvidence
  BY <1>1 DEF EvidenceOf, FoundEvidence, NoEvidence
<1>4. Ran(plan, given) = (P = "USE_TOOL" /\ Registered)
  BY StepsAssumption DEF Ran, Called
<1>5. /\ Sensible(plan, given, NoEvidence)
      /\ \A context : context.mode = "shadow" => Sensible(plan, context, e)
  BY <1>3 DEF Sensible
<1>6. EvidenceOf(plan, e) = e
  <2>1. CASE P = "USE_TOOL"
    BY <1>1, <1>3, <2>1, StepsAssumption DEF EvidenceOf, FoundEvidence
  <2>2. CASE P # "USE_TOOL"
    BY <2>2 DEF EvidenceOf
  <2> QED
    BY <2>1, <2>2
<1>7. ~ wrong => Before(plan, e) = Before(plan, NoEvidence)
  <2> SUFFICES ASSUME ~ wrong PROVE Before(plan, e) = Before(plan, NoEvidence)
    OBVIOUS
  <2>1. EvidenceOf(plan, e) = EvidenceOf(plan, NoEvidence)
    BY <1>1, <1>6
  <2>2. LookStatus(plan, e) = LookStatus(plan, NoEvidence)
    <3>1. CASE P = "USE_TOOL"
      BY <1>3, <3>1, StepsAssumption DEF LookStatus, FoundStatus
    <3>2. CASE P # "USE_TOOL"
      BY <3>2 DEF LookStatus
    <3> QED
      BY <3>1, <3>2
  <2>3. Looked(plan, e) = Looked(plan, NoEvidence)
    BY <2>1, <2>2 DEF Looked
  <2> QED
    BY <2>3, Zenon DEF Before
<1>8. ASSUME NEW context, context.mode = "shadow", NEW check, NEW q, NEW again,
             Result(check, plan, context, e, q, again)
      PROVE  /\ check.ran = FALSE
             /\ remembered = again /\ context.first = given.first /\ context.limits = given.limits =>
                  DifferAsGiven(plan, official, given, p, check, context, q)
  <2>1. /\ check.decision = P /\ check.evidence = e
        /\ check.ran = Ran(plan, context)
        /\ check.program = (IF stopped THEN q ELSE plan.program)
        /\ check.answer = Spoken(context, BaseOf(plan, e))
        /\ check.remembered = again
        /\ check.outcomes = Ended(context, BaseOf(plan, e), Before(plan, e), e)
    <3> HIDE DEF e
    <3> QED
      BY <1>6, <1>8 DEF Result, Holds
  <2>2. Ran(plan, context) = FALSE
    BY <1>8 DEF Ran, Called
  <2> DEFINE base == BaseOf(plan, e)
             before == Before(plan, e)
             alike == context.first = given.first /\ context.limits = given.limits
             known == given.first /\ given.limits /\ context.informed # given.informed
  <2>3. alike /\ context.reply = given.reply => Spoken(context, base) = Spoken(given, base)
    BY DEF Spoken
  <2>4. alike /\ context.reply = given.reply /\ ~ known =>
          Closing(context, Spoken(context, base)) = Closing(given, Spoken(given, base))
    BY <2>3 DEF Closing
  <2>5. alike /\ context.reply = given.reply /\ ~ known => Ended(context, base, before, e) = Ended(given, base, before, e)
    BY <2>4 DEF Ended
  <2>6. alike /\ context.reply = given.reply /\ ~ known /\ ~ wrong => official.outcomes = check.outcomes
    BY <1>1, <1>7, <2>1, <2>5
  <2>7. alike /\ context.reply = given.reply => official.answer = check.answer
    BY <1>1, <2>1, <2>3
  <2> HIDE DEF base, before, known, P, stopped, wrong
  <2>8. ~ stopped \/ p = q => official.program = check.program
    BY <1>1, <2>1
  <2>9. official.evidence = check.evidence /\ official.decision = check.decision
    BY <1>1, <2>1 DEF e
  <2>10. ASSUME remembered = again
         PROVE  Divergences(official, check) =
                  {f \in {"program", "answer", "outcomes"} : official[f] # check[f]}
    <3>1. official.remembered = check.remembered
      BY <1>1, <2>1, <2>10
    <3> QED
      BY <2>9, <3>1 DEF Divergences
  <2> HIDE DEF e
  <2>11. ASSUME remembered = again, alike PROVE DifferAsGiven(plan, official, given, p, check, context, q)
    BY <2>6, <2>7, <2>8, <2>10, <2>11 DEF known, DifferAsGiven, stopped, wrong, P
  <2> QED
    BY <2>1, <2>2, <2>11
<1>9. \A context : context.mode = "shadow" =>
        /\ Sensible(plan, context, e)
        /\ \A check, q, again :
             Result(check, plan, context, e, q, again) =>
               /\ check.ran = FALSE
               /\ remembered = again /\ context.first = given.first /\ context.limits = given.limits =>
                    DifferAsGiven(plan, official, given, p, check, context, q)
  <2> TAKE context
  <2> HAVE context.mode = "shadow"
  <2>1. Sensible(plan, context, e)
    BY <1>5
  <2> HIDE DEF e, stopped, wrong
  <2> QED
    BY <1>8, <2>1
<1>10. official.decision = PolicyOf(plan) /\ official.ran = (official.decision = "USE_TOOL" /\ Registered)
  BY <1>1, <1>4
<1> QED
  BY <1>5, <1>9, <1>10, Zenon

-----------------------------------------------------------------------------
\* What a turn holds from which step on: a plan, a run, the official execution, what the
\* other makes of it.
HasDiffers == {"compare", "attach", "complete", "record", "reply"}
HasOfficial == {"validate"} \union HasDiffers
HasRun == {"consolidate", "execute"} \union HasOfficial
HasPlan == {"policy", "authorize"} \union HasRun

AloneIn(s) == \E t \in Threads : s.threads = {t}
ExcusedIn(s, message, plan, run) ==
  UNION {IF s.chained /\ plan.flow \in Interruptions THEN {"program"} ELSE {},
         IF run.decision = "USE_TOOL" /\ Registered /\ plan.key \notin Known THEN {"outcomes"} ELSE {},
         IF ~ s.first \/ plan.flow \notin MigratedFlows THEN {}
         ELSE IF s.replies # {NoReply} THEN {"answer", "outcomes"}
         ELSE IF message.limits THEN {"outcomes"} ELSE {}}

\* What the handlers of a turn are given.
ContextIn(s, message, mode, informed, reply) ==
  [mode |-> mode, first |-> s.first, informed |-> informed, limits |-> message.limits, reply |-> reply]
Given(s, v) == ContextIn(s, v.message, "official", v.plan.flow \in MigratedFlows, v.reply)

TurnAsked(s, v) == v.step # "idle" => v.message \in s.messages

TurnPlanned(v) == v.step \in HasPlan => {"plan", "mission"} \subseteq DOMAIN v /\ PlanOK(v.plan)

TurnReady(s, v) ==
  v.step \in HasRun => /\ "run" \in DOMAIN v
                       /\ \E p, a : v.run = NewRun(p, a) /\ (s.chained \/ p = NoProgram)

TurnExecuted(s, v) ==
  v.step \in HasOfficial =>
    /\ {"official", "reply"} \subseteq DOMAIN v /\ v.reply \in s.replies
    /\ \E p, remembered : /\ Result(v.official, v.plan, Given(s, v), NoEvidence, p, remembered)
                          /\ s.chained \/ p = NoProgram
                          /\ AloneIn(s) => remembered = v.mission

TurnCompared(s, v) ==
  v.step \in HasDiffers =>
    /\ "differs" \in DOMAIN v
    /\ AloneIn(s) => v.differs \subseteq ExcusedIn(s, v.message, v.plan, v.official)

Held(s, v) == TurnAsked(s, v) /\ TurnPlanned(v) /\ TurnReady(s, v) /\ TurnExecuted(s, v) /\ TurnCompared(s, v)

\* What the engines made of the turns; and while one thread runs, what the memory
\* remembers is of its turn.
EngineInv ==
  /\ \A t \in Threads : /\ Held(setting, turn[t])
                        /\ AloneIn(setting) /\ turn[t].step = "execute" => semantic = turn[t].mission
  /\ \A r \in replies : AloneIn(setting) => r.differs \subseteq ExcusedIn(setting, r.message, r.plan, r.run)

\* A thread that goes on keeps what it has of its turn.
Keeps(v, w) ==
  DOMAIN v \subseteq DOMAIN w /\ \A x \in DOMAIN v \ {"step"} : w[x] = v[x]

SameStage(a, b) ==
  /\ a \in HasPlan <=> b \in HasPlan
  /\ a \in HasRun <=> b \in HasRun
  /\ a \in HasOfficial <=> b \in HasOfficial
  /\ a \in HasDiffers <=> b \in HasDiffers

\* A thread that goes on to another step keeps what it has.
LEMMA StepSetKeeps ==
  ASSUME NEW v, TurnOK(v), NEW s
  PROVE  LET w == [v EXCEPT !.step = s] IN Keeps(v, w) /\ w.step = s
<1> DEFINE w == [v EXCEPT !.step = s]
<1>1. w = [x \in DOMAIN v |-> IF x = "step" THEN s ELSE v[x]]
  BY Zenon
<1> HIDE DEF w
<1>2. DOMAIN w = DOMAIN v /\ w.step = s /\ \A x \in DOMAIN v \ {"step"} : w[x] = v[x]
  BY <1>1 DEF TurnOK
<1> QED BY <1>2 DEF w, Keeps

\* Going on within a stage.
LEMMA HeldOn ==
  ASSUME NEW s, NEW v, Held(s, v), TurnOK(v), v.step # "idle", NEW w, Keeps(v, w),
         SameStage(v.step, w.step)
  PROVE  Held(s, w)
<1>1. w.message = v.message
  BY DEF Keeps, TurnOK, Carried
<1>2. TurnAsked(s, w)
  BY <1>1 DEF TurnAsked, Held
<1>3. TurnPlanned(w) /\ (w.step \in HasPlan => w.plan = v.plan /\ w.mission = v.mission)
  BY DEF TurnPlanned, Held, Keeps, SameStage
<1>4. TurnReady(s, w)
  BY DEF TurnReady, Held, Keeps, SameStage
<1>5. HasDiffers \subseteq HasOfficial /\ HasOfficial \subseteq HasPlan
  BY DEF HasOfficial, HasRun, HasPlan
<1>6. TurnExecuted(s, w) /\ (w.step \in HasOfficial => w.official = v.official)
  BY <1>1, <1>3, <1>5 DEF TurnExecuted, Held, Keeps, SameStage, Given
<1>7. TurnCompared(s, w)
  BY <1>1, <1>3, <1>5, <1>6 DEF TurnCompared, Held, Keeps, SameStage
<1> QED BY <1>2, <1>3, <1>4, <1>6, <1>7 DEF Held

\* An idle thread has nothing.
LEMMA HeldIdle == ASSUME NEW s PROVE Held(s, Idle)
BY DEF Held, Idle, TurnAsked, TurnPlanned, TurnReady, TurnExecuted, TurnCompared, HasPlan, HasRun,
       HasOfficial, HasDiffers

\* There is nothing to compare at the start.
LEMMA EngineStart == Init => EngineInv
BY HeldIdle, IdleOK DEF Init, EngineInv

\* A step of one thread.
LEMMA EngineMoves ==
  ASSUME ShapeInv, EngineInv, NEW t \in Threads, Moves(t), Held(setting, turn'[t]),
         AloneIn(setting) /\ turn'[t].step = "execute" => semantic' = turn'[t].mission,
         \A r \in replies' \ replies :
           AloneIn(setting) => r.differs \subseteq ExcusedIn(setting, r.message, r.plan, r.run)
  PROVE  EngineInv'
<1>1. turn[t].step # "idle" /\ UNCHANGED setting /\ \A u \in Threads \ {t} : turn'[u] = turn[u]
  BY DEF Moves
<1>2. ASSUME NEW u \in Threads \ {t}
      PROVE  /\ Held(setting, turn'[u])
             /\ AloneIn(setting) /\ turn'[u].step = "execute" => semantic' = turn'[u].mission
  <2>1. Held(setting, turn[u]) /\ turn'[u] = turn[u]
    BY <1>1 DEF EngineInv
  <2>2. ~ (AloneIn(setting) /\ turn[u].step = "execute")
    BY <1>1 DEF ShapeInv, AloneIn
  <2> QED BY <2>1, <2>2
<1>3. \A r \in replies' : AloneIn(setting) => r.differs \subseteq ExcusedIn(setting, r.message, r.plan, r.run)
  BY DEF EngineInv
<1> QED BY <1>1, <1>2, <1>3 DEF EngineInv

\* A thread that publishes goes on, or a subscriber ends its turn.
LEMMA Sent ==
  ASSUME ShapeInv, NEW t \in Threads, NEW w, NEW events, Emit(t, events, w) \/ Raise(t, events)
  PROVE  turn'[t] = w \/ turn'[t] = Idle
BY DEF ShapeInv, Emit, Raise

\* The thread becomes what its step makes of it.
LEMMA SetOne ==
  ASSUME ShapeInv, NEW t \in Threads, NEW w, turn' = [turn EXCEPT ![t] = w]
  PROVE  turn'[t] = w
BY DEF ShapeInv

\* A step within a stage.
LEMMA EngineGoes ==
  ASSUME ShapeInv, EngineInv, NEW t \in Threads, Moves(t), UNCHANGED <<semantic, replies>>,
         NEW s, s # "execute", SameStage(turn[t].step, s),
         turn'[t] = [turn[t] EXCEPT !.step = s] \/ turn'[t] = Idle
  PROVE  EngineInv'
<1> DEFINE w == [turn[t] EXCEPT !.step = s]
<1>1. TurnOK(turn[t]) /\ turn[t].step # "idle" /\ Held(setting, turn[t])
  BY DEF ShapeInv, Moves, EngineInv
<1>2. Keeps(turn[t], w) /\ w.step = s
  BY <1>1, StepSetKeeps
<1>3. turn'[t] = w \/ turn'[t] = Idle
  OBVIOUS
<1> HIDE DEF w
<1>4. Held(setting, w)
  BY <1>1, <1>2, HeldOn
<1>5. Held(setting, turn'[t]) /\ turn'[t].step # "execute"
  BY <1>2, <1>3, <1>4, HeldIdle, IdleOK
<1> QED BY <1>5, EngineMoves

-----------------------------------------------------------------------------
\* A plan is made.
LEMMA PlanHolds ==
  ASSUME ShapeInv, EngineInv, NEW t \in Threads, Moves(t), Plan(t)
  PROVE  EngineInv'
<1> DEFINE v == turn[t]
<1>1. TurnOK(v) /\ v.step # "idle" /\ Held(setting, v) /\ v.step = "plan"
  BY DEF ShapeInv, Moves, EngineInv, Plan, At
<1>2. UNCHANGED <<semantic, replies>>
  BY DEF Plan
<1>3. \A m \in setting.messages : m.hits \in [DOMAIN Intents -> Nat]
  BY RuntimeAssumption DEF ShapeInv
<1>4. v.message.hits \in [DOMAIN Intents -> Nat]
  BY <1>1, <1>3 DEF Held, TurnAsked
<1>5. \/ turn'[t] = Idle
      \/ \E mission, missing :
           turn'[t] = Extend(v, [step |-> "policy", plan |-> PlanFor(IntentOf(v.message, mission, missing)),
                                 mission |-> mission])
  <2>1. CASE Raise(t, Planning)
    BY <2>1, Sent
  <2>2. CASE ~ Raise(t, Planning)
    <3> DEFINE mission == session[Talk(t)].mission
               w(missing) == Extend(v, [step |-> "policy", plan |-> PlanFor(IntentOf(v.message, mission, missing)),
                                        mission |-> mission])
    <3>1. PICK missing \in BOOLEAN : Emit(t, Planning, w(missing))
      BY <2>2 DEF Plan
    <3> HIDE DEF w
    <3>2. turn'[t] = w(missing) \/ turn'[t] = Idle
      BY <3>1, Sent
    <3> QED BY <3>2 DEF w
  <2> QED BY <2>1, <2>2
<1>6. ASSUME NEW more, DOMAIN more = {"step", "plan", "mission"}, more.step = "policy", PlanOK(more.plan),
             turn'[t] = Extend(v, more)
      PROVE  EngineInv'
  <2> DEFINE w == Extend(v, more)
  <2>1. w = [x \in DOMAIN v \union DOMAIN more |-> IF x \in DOMAIN more THEN more[x] ELSE v[x]]
    BY DEF Extend
  <2> HIDE DEF w
  <2>2. w.step = "policy" /\ w.plan = more.plan /\ w.message = v.message /\ {"plan", "mission"} \subseteq DOMAIN w
    BY <1>1, <1>6, <2>1 DEF TurnOK, Carried
  <2>3. TurnAsked(setting, w) /\ TurnPlanned(w)
    BY <1>1, <1>6, <2>2 DEF Held, TurnAsked, TurnPlanned
  <2>4. Held(setting, w)
    BY <2>2, <2>3 DEF Held, TurnReady, TurnExecuted, TurnCompared, HasRun, HasOfficial, HasDiffers
  <2>5. Held(setting, turn'[t]) /\ turn'[t].step # "execute"
    BY <1>6, <2>2, <2>4 DEF w
  <2> QED BY <1>2, <2>5, EngineMoves
<1>7. CASE turn'[t] = Idle
  <2>1. Held(setting, turn'[t]) /\ turn'[t].step # "execute"
    BY <1>7, HeldIdle, IdleOK
  <2> QED BY <1>2, <2>1, EngineMoves
<1>8. ASSUME NEW mission, NEW missing,
             turn'[t] = Extend(v, [step |-> "policy", plan |-> PlanFor(IntentOf(v.message, mission, missing)),
                                   mission |-> mission])
      PROVE  EngineInv'
  <2> DEFINE plan == PlanFor(IntentOf(v.message, mission, missing))
             more == [step |-> "policy", plan |-> plan, mission |-> mission]
  <2>1. PlanOK(plan)
    BY <1>4, PlanIsMade
  <2> HIDE DEF plan
  <2>2. DOMAIN more = {"step", "plan", "mission"} /\ more.step = "policy" /\ more.plan = plan
    OBVIOUS
  <2> HIDE DEF more
  <2>3. turn'[t] = Extend(v, more)
    BY <1>8 DEF more, plan
  <2> QED BY <1>6, <2>1, <2>2, <2>3
<1> QED BY <1>5, <1>7, <1>8

\* The mission of the turn.
LEMMA PrepareHolds ==
  ASSUME ShapeInv, EngineInv, NEW t \in Threads, Moves(t), Prepare(t)
  PROVE  EngineInv'
<1> DEFINE v == turn[t]
<1>1. TurnOK(v) /\ v.step # "idle" /\ Held(setting, v) /\ v.step = "policy"
  BY DEF ShapeInv, Moves, EngineInv, Prepare, At
<1>2. UNCHANGED <<semantic, replies>>
  BY DEF Prepare
<1>3. \/ turn'[t] = Idle
      \/ \E m : turn'[t] = [v EXCEPT !.step = "authorize", !.mission = m]
  <2>1. CASE Raise(t, <<"policy_evaluated">>)
    BY <2>1, Sent
  <2>2. ASSUME NEW m, Emit(t, <<"policy_evaluated">>, [v EXCEPT !.step = "authorize", !.mission = m])
        PROVE  turn'[t] = Idle \/ turn'[t] = [v EXCEPT !.step = "authorize", !.mission = m]
    <3> DEFINE w == [v EXCEPT !.step = "authorize", !.mission = m]
    <3>1. Emit(t, <<"policy_evaluated">>, w)
      BY <2>2
    <3> HIDE DEF w
    <3>2. turn'[t] = Idle \/ turn'[t] = w
      BY <3>1, Sent
    <3> QED BY <3>2 DEF w
  <2> QED BY <2>1, <2>2, Zenon DEF Prepare
<1>4. ASSUME NEW m, turn'[t] = [v EXCEPT !.step = "authorize", !.mission = m]
      PROVE  EngineInv'
  <2> DEFINE w == [v EXCEPT !.step = "authorize", !.mission = m]
  <2>1. w = [x \in DOMAIN v |-> IF x = "mission" THEN m ELSE IF x = "step" THEN "authorize" ELSE v[x]]
    BY Zenon
  <2> HIDE DEF w
  <2>2. {"plan", "mission"} \subseteq DOMAIN v /\ PlanOK(v.plan)
    BY <1>1 DEF Held, TurnPlanned, HasPlan
  <2>3. /\ w.step = "authorize" /\ w.plan = v.plan /\ w.message = v.message
        /\ {"plan", "mission"} \subseteq DOMAIN w
    BY <1>1, <2>1, <2>2 DEF TurnOK, Carried
  <2>4. TurnAsked(setting, w) /\ TurnPlanned(w)
    BY <1>1, <2>2, <2>3 DEF Held, TurnAsked, TurnPlanned
  <2>5. Held(setting, w)
    BY <2>3, <2>4 DEF Held, TurnReady, TurnExecuted, TurnCompared, HasRun, HasOfficial, HasDiffers
  <2>6. turn'[t] = w
    BY <1>4 DEF w
  <2>7. Held(setting, turn'[t]) /\ turn'[t].step # "execute"
    BY <2>3, <2>5, <2>6
  <2> QED BY <1>2, <2>7, EngineMoves
<1>5. CASE turn'[t] = Idle
  <2>1. Held(setting, turn'[t]) /\ turn'[t].step # "execute"
    BY <1>5, HeldIdle, IdleOK
  <2> QED BY <1>2, <2>1, EngineMoves
<1> QED BY <1>3, <1>4, <1>5

\* The turn before its steps.
LEMMA AuthorizeHolds ==
  ASSUME ShapeInv, EngineInv, NEW t \in Threads, Moves(t), Authorize(t)
  PROVE  EngineInv'
<1> DEFINE v == turn[t]
           run == IF setting.chained THEN NewRun(returned[Talk(t)].program, returned[Talk(t)].answer)
                  ELSE NewRun(NoProgram, NoAnswer)
           more == [step |-> "consolidate", run |-> run]
           w == Extend(v, more)
<1>1. TurnOK(v) /\ v.step # "idle" /\ Held(setting, v) /\ v.step = "authorize"
  BY DEF ShapeInv, Moves, EngineInv, Authorize, At
<1>2. UNCHANGED <<semantic, replies>>
  BY DEF Authorize
<1>3. \E p, a : run = NewRun(p, a) /\ (setting.chained \/ p = NoProgram)
  <2>1. CASE setting.chained
    BY <2>1
  <2>2. CASE ~ setting.chained
    BY <2>2
  <2> QED BY <2>1, <2>2
<1>4. Emit(t, <<"authority_resolved">>, w) \/ Raise(t, <<"authority_resolved">>)
  BY DEF Authorize
<1> HIDE DEF run
<1>5. DOMAIN more = {"step", "run"} /\ more.step = "consolidate" /\ more.run = run
  OBVIOUS
<1> HIDE DEF more
<1>6. w = [x \in DOMAIN v \union DOMAIN more |-> IF x \in DOMAIN more THEN more[x] ELSE v[x]]
  BY DEF Extend
<1> HIDE DEF w
<1>7. {"plan", "mission"} \subseteq DOMAIN v /\ PlanOK(v.plan)
  BY <1>1 DEF Held, TurnPlanned, HasPlan
<1>8. /\ w.step = "consolidate" /\ w.plan = v.plan /\ w.message = v.message /\ w.run = run
      /\ {"plan", "mission", "run"} \subseteq DOMAIN w
  BY <1>1, <1>5, <1>6, <1>7 DEF TurnOK, Carried
<1>9. TurnAsked(setting, w) /\ TurnPlanned(w) /\ TurnReady(setting, w)
  BY <1>1, <1>3, <1>7, <1>8 DEF Held, TurnAsked, TurnPlanned, TurnReady
<1>10. Held(setting, w)
  BY <1>8, <1>9 DEF Held, TurnExecuted, TurnCompared, HasOfficial, HasDiffers
<1>11. turn'[t] = w \/ turn'[t] = Idle
  BY <1>4, Sent
<1>12. Held(setting, turn'[t]) /\ turn'[t].step # "execute"
  BY <1>8, <1>10, <1>11, HeldIdle, IdleOK
<1> QED BY <1>2, <1>12, EngineMoves

\* The memory remembers the mission of the turn.
LEMMA ConsolidateHolds ==
  ASSUME ShapeInv, EngineInv, NEW t \in Threads, Moves(t), Consolidate(t)
  PROVE  EngineInv'
<1> DEFINE v == turn[t]
           w == [v EXCEPT !.step = "execute"]
<1>1. TurnOK(v) /\ v.step # "idle" /\ Held(setting, v) /\ v.step = "consolidate"
  BY DEF ShapeInv, Moves, EngineInv, Consolidate, At
<1>2. UNCHANGED replies /\ semantic' = v.mission
  BY DEF Consolidate
<1>3. turn' = [turn EXCEPT ![t] = w]
  BY DEF Consolidate
<1>4. Keeps(v, w) /\ w.step = "execute"
  BY <1>1, StepSetKeeps
<1> HIDE DEF w
<1>5. SameStage(v.step, w.step)
  BY <1>1, <1>4 DEF SameStage, HasPlan, HasRun, HasOfficial, HasDiffers
<1>6. Held(setting, w)
  BY <1>1, <1>4, <1>5, HeldOn
<1>7. w.mission = v.mission
  BY <1>1, <1>4 DEF Held, TurnPlanned, HasPlan, HasRun, Keeps
<1>8. turn'[t] = w
  BY <1>3, SetOne
<1> QED BY <1>2, <1>6, <1>7, <1>8, EngineMoves

\* The official execution.
LEMMA RunHolds ==
  ASSUME ShapeInv, EngineInv, NEW t \in Threads, Moves(t), Run(t)
  PROVE  EngineInv' /\ "official" \in DOMAIN turn'[t] /\ Counted(t, turn'[t].official)
<1> DEFINE v == turn[t]
           plan == v.plan
           context(reply) == Context(t, "official", Official(t), reply)
           done(reply) == Engine(Official(t), plan, context(reply), semantic, v.run)
           more(reply) == [step |-> "validate", official |-> done(reply), reply |-> reply]
<1>1. TurnOK(v) /\ v.step # "idle" /\ Held(setting, v) /\ v.step = "execute"
  BY DEF ShapeInv, Moves, EngineInv, Run, At
<1>2. UNCHANGED <<semantic, replies>>
  BY DEF Run
<1>3. PICK reply \in setting.replies :
        turn' = [turn EXCEPT ![t] = Extend(v, more(reply))] /\ Counted(t, done(reply))
  BY Zenon DEF Run, Engine
<1> DEFINE given == context(reply)
           run == done(reply)
           added == more(reply)
           w == Extend(v, added)
<1>4. {"plan", "mission"} \subseteq DOMAIN v /\ PlanOK(plan)
  BY <1>1 DEF Held, TurnPlanned, HasPlan, HasRun
<1>5. /\ "run" \in DOMAIN v
      /\ \E p, a : v.run = NewRun(p, a) /\ (setting.chained \/ p = NoProgram)
  BY <1>1 DEF Held, TurnReady, HasRun
<1>6. given = ContextIn(setting, v.message, "official", plan.flow \in MigratedFlows, reply) /\ given.mode = "official"
  BY DEF Context, ContextIn, Official
<1> HIDE DEF context
<1>7. \E p : Result(run, plan, given, NoEvidence, p, semantic) /\ (setting.chained \/ p = NoProgram)
  <2>1. PICK p, a : v.run = NewRun(p, a) /\ (setting.chained \/ p = NoProgram)
    BY <1>5
  <2>2. Fresh(v.run, NoEvidence, p)
    BY <2>1, RunIsFresh
  <2>3. Sensible(plan, given, NoEvidence)
    BY <1>6 DEF Sensible
  <2>4. Official(t) \in BOOLEAN
    BY DEF Official
  <2> HIDE DEF given
  <2>5. Result(run, plan, given, NoEvidence, IF Official(t) THEN p ELSE NoProgram, semantic)
    BY <1>4, <2>2, <2>3, <2>4, EngineHolds DEF given
  <2> QED BY <2>1, <2>5
<1> HIDE DEF done, given
<1>8. /\ DOMAIN added = {"step", "official", "reply"} /\ added.step = "validate" /\ added.official = run
      /\ added.reply = reply
  OBVIOUS
<1>9. turn' = [turn EXCEPT ![t] = w] /\ Counted(t, run)
  BY <1>3, Zenon
<1> HIDE DEF run, added, more
<1>10. w = [x \in DOMAIN v \union DOMAIN added |-> IF x \in DOMAIN added THEN added[x] ELSE v[x]]
  BY DEF Extend
<1> HIDE DEF w
<1>11. /\ w.step = "validate" /\ w.plan = plan /\ w.mission = v.mission /\ w.message = v.message
       /\ w.run = v.run /\ w.official = run /\ w.reply = reply
       /\ {"plan", "mission", "run", "official", "reply"} \subseteq DOMAIN w
  BY <1>1, <1>4, <1>5, <1>8, <1>10 DEF TurnOK, Carried
<1>12. TurnAsked(setting, w) /\ TurnPlanned(w) /\ TurnReady(setting, w)
  BY <1>1, <1>4, <1>5, <1>11 DEF Held, TurnAsked, TurnPlanned, TurnReady
<1>13. AloneIn(setting) => semantic = v.mission
  BY <1>1 DEF EngineInv
<1>14. Given(setting, w) = given
  BY <1>6, <1>11 DEF Given
<1>15. TurnExecuted(setting, w)
  BY <1>3, <1>7, <1>11, <1>13, <1>14 DEF TurnExecuted
<1>16. Held(setting, w)
  BY <1>11, <1>12, <1>15 DEF Held, TurnCompared, HasDiffers
<1>17. turn'[t] = w
  BY <1>9, SetOne
<1>18. EngineInv'
  <2>1. Held(setting, turn'[t]) /\ turn'[t].step # "execute"
    BY <1>11, <1>16, <1>17
  <2> QED BY <1>2, <2>1, EngineMoves
<1> QED BY <1>9, <1>11, <1>17, <1>18

\* The comparison.
LEMMA CheckHolds ==
  ASSUME ShapeInv, EngineInv, NEW t \in Threads, Moves(t), Check(t)
  PROVE  EngineInv' /\ "official" \in DOMAIN turn'[t] /\ turn'[t].official = turn[t].official
         /\ \E check : check.ran = FALSE /\ Counted(t, check)
<1> DEFINE v == turn[t]
           plan == v.plan
           official == v.official
           run == [v.run EXCEPT !.evidence = official.evidence]
           own == ~ Official(t)
           context(reply) == Context(t, "shadow", FALSE, reply)
           again(reply) == Engine(own, plan, context(reply), v.mission, run)
           more(reply) == [step |-> "compare", differs |-> Divergences(official, again(reply))]
<1>1. TurnOK(v) /\ v.step # "idle" /\ Held(setting, v) /\ v.step = "validate"
  BY DEF ShapeInv, Moves, EngineInv, Check, At
<1>2. UNCHANGED <<semantic, replies>>
  BY DEF Check
<1>3. PICK reply \in setting.replies :
        /\ Repeats(t, reply)
        /\ turn' = [turn EXCEPT ![t] = Extend(v, more(reply))] /\ Counted(t, again(reply))
  BY Zenon DEF Check, Engine
<1> DEFINE heard == context(reply)
           check == again(reply)
           added == more(reply)
           w == Extend(v, added)
           given == Given(setting, v)
<1>4. {"plan", "mission"} \subseteq DOMAIN v /\ PlanOK(plan)
  BY <1>1 DEF Held, TurnPlanned, HasPlan, HasRun, HasOfficial
<1>5. /\ "run" \in DOMAIN v
      /\ \E p, a : v.run = NewRun(p, a) /\ (setting.chained \/ p = NoProgram)
  BY <1>1 DEF Held, TurnReady, HasRun, HasOfficial
<1>6. {"official", "reply"} \subseteq DOMAIN v /\ v.reply \in setting.replies
  BY <1>1 DEF Held, TurnExecuted, HasOfficial
<1>7. PICK p, remembered : /\ Result(official, plan, given, NoEvidence, p, remembered)
                           /\ setting.chained \/ p = NoProgram
                           /\ AloneIn(setting) => remembered = v.mission
  BY <1>1 DEF Held, TurnExecuted, HasOfficial
<1>8. /\ given.mode = "official" /\ given.first = setting.first /\ given.limits = v.message.limits
      /\ given.informed = (plan.flow \in MigratedFlows) /\ given.reply = v.reply
  BY DEF Given, ContextIn
<1>9. /\ heard.mode = "shadow" /\ heard.first = setting.first /\ heard.limits = v.message.limits
      /\ heard.informed = FALSE /\ heard.reply = reply
  BY DEF Context
<1> HIDE DEF context, given
<1>10. /\ official.decision = PolicyOf(plan)
       /\ Sensible(plan, heard, official.evidence)
       /\ \A c, r, m :
            Result(c, plan, heard, official.evidence, r, m) =>
              /\ c.ran = FALSE
              /\ remembered = m /\ heard.first = given.first /\ heard.limits = given.limits =>
                   DifferAsGiven(plan, official, given, p, c, heard, r)
  <2> HIDE DEF heard, plan, official
  <2> QED BY <1>4, <1>7, <1>8, <1>9, EnginesCompare, Zenon
<1>11. \E q : /\ Result(check, plan, heard, official.evidence, q, v.mission)
              /\ setting.chained \/ q = NoProgram
  <2>1. PICK q, a : v.run = NewRun(q, a) /\ (setting.chained \/ q = NoProgram)
    BY <1>5
  <2>2. Fresh(run, official.evidence, q)
    BY <2>1, RunIsFresh
  <2>3. own \in BOOLEAN
    BY DEF Official
  <2> HIDE DEF run, own, heard
  <2>4. Result(check, plan, heard, official.evidence, IF own THEN q ELSE NoProgram, v.mission)
    BY <1>4, <1>10, <2>2, <2>3, EngineHolds DEF heard
  <2> QED BY <2>1, <2>3, <2>4
<1> HIDE DEF again, heard
<1>12. /\ check.ran = FALSE
       /\ AloneIn(setting) => Divergences(official, check) \subseteq ExcusedIn(setting, v.message, plan, official)
  <2>1. PICK q : /\ Result(check, plan, heard, official.evidence, q, v.mission)
                 /\ setting.chained \/ q = NoProgram
    BY <1>11
  <2>2. /\ check.ran = FALSE
        /\ remembered = v.mission => DifferAsGiven(plan, official, given, p, check, heard, q)
    <3>1. heard.first = given.first /\ heard.limits = given.limits
      BY <1>8, <1>9
    <3> HIDE DEF check, plan, official
    <3> QED BY <1>10, <2>1, <3>1
  <2>3. ASSUME AloneIn(setting)
        PROVE  Divergences(official, check) \subseteq ExcusedIn(setting, v.message, plan, official)
    <3> DEFINE differ == Divergences(official, check)
               some == ExcusedIn(setting, v.message, plan, official)
    <3>1. ~ setting.chained => p = q
      BY <1>7, <2>1
    <3>2. reply # v.reply => setting.first /\ plan.flow \in MigratedFlows /\ setting.replies # {NoReply}
      BY <1>3, <1>6, <2>3 DEF Repeats, Alone, AloneIn, Official
    <3>3. DifferAsGiven(plan, official, given, p, check, heard, q)
      BY <1>7, <2>2, <2>3
    <3>4. PolicyOf(plan) = official.decision
      BY <1>10
    <3> HIDE DEF plan, official, check
    <3>5. /\ heard.reply # given.reply => setting.first /\ plan.flow \in MigratedFlows /\ setting.replies # {NoReply}
          /\ given.first /\ given.limits /\ heard.informed # given.informed =>
               setting.first /\ plan.flow \in MigratedFlows /\ v.message.limits
      <4>1. heard.reply = reply /\ given.reply = v.reply
        BY <1>8, <1>9
      <4>2. plan.flow \notin MigratedFlows => given.informed = FALSE
        <5>1. ASSUME ~ (plan.flow \in MigratedFlows)  PROVE (plan.flow \in MigratedFlows) = FALSE
          BY <5>1, SMT
        <5>2. given.informed = (plan.flow \in MigratedFlows)
          BY <1>8, Zenon
        <5> QED BY <5>1, <5>2, Zenon
      <4>3. heard.informed = FALSE /\ given.first = setting.first /\ given.limits = v.message.limits
        BY <1>8, <1>9
      <4>4. given.first => setting.first
        BY <4>3, Zenon
      <4>5. given.limits => v.message.limits
        BY <4>3, Zenon
      <4>6. heard.informed # given.informed => plan.flow \in MigratedFlows
        BY <4>2, <4>3
      <4> QED BY <3>2, <4>1, <4>4, <4>5, <4>6, Zenon
    <3> HIDE DEF v
    <3>6. /\ differ \subseteq {"program", "answer", "outcomes"}
          /\ "program" \in differ => setting.chained /\ plan.flow \in Interruptions
          /\ "answer" \in differ => setting.first /\ plan.flow \in MigratedFlows /\ setting.replies # {NoReply}
          /\ "outcomes" \in differ =>
               \/ official.decision = "USE_TOOL" /\ Registered /\ plan.key \notin Known
               \/ setting.first /\ plan.flow \in MigratedFlows /\ setting.replies # {NoReply}
               \/ setting.first /\ plan.flow \in MigratedFlows /\ v.message.limits
      BY <3>1, <3>3, <3>4, <3>5 DEF DifferAsGiven
    <3> HIDE DEF differ
    <3>7. /\ "program" \in differ => "program" \in some
          /\ "answer" \in differ => "answer" \in some
          /\ "outcomes" \in differ => "outcomes" \in some
      BY <3>6 DEF ExcusedIn
    <3> HIDE DEF some
    <3>8. differ \subseteq some
      BY <3>6, <3>7
    <3> QED BY <3>8 DEF differ, some
  <2> QED BY <2>2, <2>3
<1>13. DOMAIN added = {"step", "differs"} /\ added.step = "compare" /\ added.differs = Divergences(official, check)
  OBVIOUS
<1>14. turn' = [turn EXCEPT ![t] = w] /\ Counted(t, check)
  BY <1>3, Zenon
<1> HIDE DEF added, more, check
<1>15. w = [x \in DOMAIN v \union DOMAIN added |-> IF x \in DOMAIN added THEN added[x] ELSE v[x]]
  BY DEF Extend
<1> HIDE DEF w
<1>16. /\ w.step = "compare" /\ w.plan = plan /\ w.mission = v.mission /\ w.message = v.message
       /\ w.run = v.run /\ w.official = official /\ w.reply = v.reply /\ w.differs = Divergences(official, check)
       /\ {"plan", "mission", "run", "official", "reply", "differs"} \subseteq DOMAIN w
  BY <1>1, <1>4, <1>5, <1>6, <1>13, <1>15 DEF TurnOK, Carried
<1>17. TurnAsked(setting, w) /\ TurnPlanned(w) /\ TurnReady(setting, w)
  BY <1>1, <1>4, <1>5, <1>16 DEF Held, TurnAsked, TurnPlanned, TurnReady
<1>18. Given(setting, w) = given
  BY <1>16 DEF Given, given
<1>19. TurnExecuted(setting, w)
  BY <1>6, <1>7, <1>16, <1>18 DEF TurnExecuted
<1>20. TurnCompared(setting, w)
  BY <1>12, <1>16 DEF TurnCompared
<1>21. Held(setting, w)
  BY <1>17, <1>19, <1>20 DEF Held
<1>22. turn'[t] = w
  BY <1>14, SetOne
<1>23. EngineInv'
  <2>1. Held(setting, turn'[t]) /\ turn'[t].step # "execute"
    BY <1>16, <1>21, <1>22
  <2> QED BY <1>2, <2>1, EngineMoves
<1>24. \E c : c.ran = FALSE /\ Counted(t, c)
  BY <1>12, <1>14
<1> QED BY <1>16, <1>22, <1>23, <1>24

-----------------------------------------------------------------------------
\* A step that only goes on, or is ended by a subscriber.
Passes(t, from, to) ==
  /\ turn[t].step = from /\ UNCHANGED <<semantic, replies, lookups>>
  /\ turn'[t] = [turn[t] EXCEPT !.step = to] \/ turn'[t] = Idle

\* The steps that only go on.
LEMMA PassesOn ==
  ASSUME ShapeInv, NEW t \in Threads
  PROVE  /\ Clear(t) => Passes(t, "clear", "start")
         /\ Begin(t) => Passes(t, "start", "plan")
         /\ Compare(t) => Passes(t, "compare", "attach")
         /\ Attach(t) => Passes(t, "attach", "complete")
         /\ Complete(t) => Passes(t, "complete", "record")
         /\ Record(t) => Passes(t, "record", "reply")
<1>1. ASSUME NEW to, turn' = [turn EXCEPT ![t] = [turn[t] EXCEPT !.step = to]]
      PROVE  turn'[t] = [turn[t] EXCEPT !.step = to]
  <2> DEFINE w == [turn[t] EXCEPT !.step = to]
  <2>1. turn' = [turn EXCEPT ![t] = w]
    BY <1>1
  <2> HIDE DEF w
  <2>2. turn'[t] = w
    BY <2>1, SetOne
  <2> QED BY <2>2 DEF w
<1>2. ASSUME NEW to, NEW events, Emit(t, events, [turn[t] EXCEPT !.step = to]) \/ Raise(t, events)
      PROVE  turn'[t] = [turn[t] EXCEPT !.step = to] \/ turn'[t] = Idle
  <2> DEFINE w == [turn[t] EXCEPT !.step = to]
  <2>1. Emit(t, events, w) \/ Raise(t, events)
    BY <1>2
  <2> HIDE DEF w
  <2>2. turn'[t] = w \/ turn'[t] = Idle
    BY <2>1, Sent
  <2> QED BY <2>2 DEF w
<1>3. Clear(t) => Passes(t, "clear", "start")
  <2> SUFFICES ASSUME Clear(t) PROVE Passes(t, "clear", "start")
    OBVIOUS
  <2>1. turn' = [turn EXCEPT ![t] = [turn[t] EXCEPT !.step = "start"]]
    BY DEF Clear
  <2>2. turn[t].step = "clear" /\ UNCHANGED <<semantic, replies, lookups>>
    BY DEF Clear, At
  <2> QED BY <1>1, <2>1, <2>2, Zenon DEF Passes
<1>4. Begin(t) => Passes(t, "start", "plan")
  <2> SUFFICES ASSUME Begin(t) PROVE Passes(t, "start", "plan")
    OBVIOUS
  <2>1. Emit(t, <<"started">>, [turn[t] EXCEPT !.step = "plan"]) \/ Raise(t, <<"started">>)
    BY DEF Begin
  <2>2. turn[t].step = "start" /\ UNCHANGED <<semantic, replies, lookups>>
    BY DEF Begin, At
  <2> QED BY <1>2, <2>1, <2>2, Zenon DEF Passes
<1>5. Compare(t) => Passes(t, "compare", "attach")
  <2> SUFFICES ASSUME Compare(t) PROVE Passes(t, "compare", "attach")
    OBVIOUS
  <2>1. Emit(t, <<"compared">>, [turn[t] EXCEPT !.step = "attach"]) \/ Raise(t, <<"compared">>)
    BY DEF Compare
  <2>2. turn[t].step = "compare" /\ UNCHANGED <<semantic, replies, lookups>>
    BY DEF Compare, At
  <2> QED BY <1>2, <2>1, <2>2, Zenon DEF Passes
<1>6. Attach(t) => Passes(t, "attach", "complete")
  <2> SUFFICES ASSUME Attach(t) PROVE Passes(t, "attach", "complete")
    OBVIOUS
  <2>1. turn' = [turn EXCEPT ![t] = [turn[t] EXCEPT !.step = "complete"]]
    BY DEF Attach
  <2>2. turn[t].step = "attach" /\ UNCHANGED <<semantic, replies, lookups>>
    BY DEF Attach, At
  <2> QED BY <1>1, <2>1, <2>2, Zenon DEF Passes
<1>7. Complete(t) => Passes(t, "complete", "record")
  <2> SUFFICES ASSUME Complete(t) PROVE Passes(t, "complete", "record")
    OBVIOUS
  <2>1. Emit(t, <<"completed">>, [turn[t] EXCEPT !.step = "record"]) \/ Raise(t, <<"completed">>)
    BY DEF Complete
  <2>2. turn[t].step = "complete" /\ UNCHANGED <<semantic, replies, lookups>>
    BY DEF Complete, At
  <2> QED BY <1>2, <2>1, <2>2, Zenon DEF Passes
<1>8. Record(t) => Passes(t, "record", "reply")
  <2> SUFFICES ASSUME Record(t) PROVE Passes(t, "record", "reply")
    OBVIOUS
  <2>1. turn' = [turn EXCEPT ![t] = [turn[t] EXCEPT !.step = "reply"]]
    BY DEF Record
  <2>2. turn[t].step = "record" /\ UNCHANGED <<semantic, replies, lookups>>
    BY DEF Record, At
  <2> QED BY <1>1, <2>1, <2>2, Zenon DEF Passes
<1> QED BY <1>3, <1>4, <1>5, <1>6, <1>7, <1>8

\* The stages go on as the steps do.
LEMMA Stages ==
  /\ SameStage("clear", "start") /\ SameStage("start", "plan") /\ SameStage("compare", "attach")
  /\ SameStage("attach", "complete") /\ SameStage("complete", "record") /\ SameStage("record", "reply")
BY DEF SameStage, HasPlan, HasRun, HasOfficial, HasDiffers

\* They leave the engines' work alone, ...
LEMMA EnginePasses ==
  ASSUME ShapeInv, EngineInv, NEW t \in Threads, Moves(t), NEW from, NEW to, to # "execute",
         SameStage(from, to), Passes(t, from, to)
  PROVE  EngineInv'
BY EngineGoes, Zenon DEF Passes

\* A caller gets what the official execution made, and what the other made of it.
LEMMA ReplyHolds ==
  ASSUME ShapeInv, EngineInv, NEW t \in Threads, Moves(t), Reply(t)
  PROVE  /\ EngineInv' /\ turn'[t] = Idle /\ turn[t].step = "reply"
         /\ \A r \in replies' \ replies : r.turn = Mine(t) /\ r.run = turn[t].official
<1> DEFINE v == turn[t]
           reply == [turn |-> Mine(t), message |-> v.message, plan |-> v.plan, run |-> v.official,
                     differs |-> v.differs, clears |-> v.clears, events |-> bus, trace |-> lastTrace.turn]
<1>1. Held(setting, v) /\ v.step = "reply"
  BY DEF EngineInv, Reply, At
<1>2. replies' = replies \union {reply} /\ turn' = [turn EXCEPT ![t] = Idle]
  BY DEF Reply
<1>3. reply.differs = v.differs /\ reply.message = v.message /\ reply.plan = v.plan /\ reply.run = v.official /\ reply.turn = Mine(t)
  OBVIOUS
<1> HIDE DEF reply
<1>4. AloneIn(setting) => v.differs \subseteq ExcusedIn(setting, v.message, v.plan, v.official)
  BY <1>1 DEF Held, TurnCompared, HasDiffers
<1>5. \A r \in replies' \ replies : r = reply
  BY <1>2
<1>6. turn'[t] = Idle
  BY <1>2, SetOne
<1>7. EngineInv'
  <2>1. Held(setting, turn'[t]) /\ turn'[t].step # "execute"
    BY <1>6, HeldIdle, IdleOK
  <2>2. \A r \in replies' \ replies :
          AloneIn(setting) => r.differs \subseteq ExcusedIn(setting, r.message, r.plan, r.run)
    BY <1>3, <1>4, <1>5
  <2> QED BY <2>1, <2>2, EngineMoves
<1> QED BY <1>1, <1>3, <1>5, <1>6, <1>7

\* The engines' work is kept.
LEMMA EngineStep == ShapeInv /\ EngineInv /\ [Next]_vars => EngineInv'
<1> SUFFICES ASSUME ShapeInv, EngineInv, [Next]_vars PROVE EngineInv'
  OBVIOUS
<1>1. ASSUME NEW t \in Threads, t \in setting.threads, NEW m \in setting.messages,
             NEW clears \in setting.clears, Call(t, m, clears)
      PROVE  EngineInv'
  <2> DEFINE w == [step |-> IF clears THEN "clear" ELSE "start", number |-> calls + 1, message |-> m,
                   clears |-> clears]
  <2>1. turn' = [turn EXCEPT ![t] = w] /\ UNCHANGED <<setting, semantic, replies>>
    BY <1>1 DEF Call
  <2>2. w.step \in {"clear", "start"} /\ w.message = m
    OBVIOUS
  <2> HIDE DEF w
  <2>3. Held(setting, w) /\ w.step # "execute"
    BY <2>2 DEF Held, TurnAsked, TurnPlanned, TurnReady, TurnExecuted, TurnCompared, HasPlan, HasRun,
                HasOfficial, HasDiffers
  <2>4. \A u \in Threads : turn'[u] = IF u = t THEN w ELSE turn[u]
    BY <2>1 DEF ShapeInv
  <2> QED BY <2>1, <2>3, <2>4 DEF EngineInv
<1>2. ASSUME NEW t \in Threads, Step(t) PROVE EngineInv'
  <2>1. Moves(t)
    BY <1>2, StepMoves
  <2>2. CASE Clear(t)
    BY <2>1, <2>2, PassesOn, EnginePasses, Stages, "start" # "execute"
  <2>3. CASE Begin(t)
    BY <2>1, <2>3, PassesOn, EnginePasses, Stages, "plan" # "execute"
  <2>4. CASE Compare(t)
    BY <2>1, <2>4, PassesOn, EnginePasses, Stages, "attach" # "execute"
  <2>5. CASE Attach(t)
    BY <2>1, <2>5, PassesOn, EnginePasses, Stages, "complete" # "execute"
  <2>6. CASE Complete(t)
    BY <2>1, <2>6, PassesOn, EnginePasses, Stages, "record" # "execute"
  <2>7. CASE Record(t)
    BY <2>1, <2>7, PassesOn, EnginePasses, Stages, "reply" # "execute"
  <2> QED BY <1>2, <2>1, <2>2, <2>3, <2>4, <2>5, <2>6, <2>7, PlanHolds, PrepareHolds, AuthorizeHolds,
             ConsolidateHolds, RunHolds, CheckHolds, ReplyHolds DEF Step
<1>3. CASE UNCHANGED vars
  BY <1>3 DEF vars, EngineInv
<1> QED BY <1>1, <1>2, <1>3 DEF Next

\* The engine that decides and the one that checks it make the same of every plan, whatever
\* the messages, the concepts and the keys the tool knows are, but for the name of the program
\* of an interrupted turn and the outcome of a lookup that failed, as long as one thread runs.
THEOREM EnginesAlwaysAgree == Spec => []EnginesAgree
<1>1. EngineInv => EnginesAgree
  BY DEF EngineInv, EnginesAgree, Excused, ExcusedIn, Alone, AloneIn
<1> QED BY <1>1, ShapeStart, ShapeStep, EngineStart, EngineStep, PTL DEF Spec

-----------------------------------------------------------------------------
\* How often the tool runs for what the official execution was.
ToolRuns(run) == IF run.decision = "USE_TOOL" /\ Registered THEN 1 ELSE 0

\* The tool ran once for a turn whose official execution asked for it, and not for another.
LookupInv ==
  /\ lookups \in [Turns -> {0, 1}]
  /\ \A n \in Turns : n > calls => lookups[n] = 0
  /\ \A t \in Threads : turn[t].step # "idle" =>
       lookups[Mine(t)] = IF turn[t].step \in HasOfficial THEN ToolRuns(turn[t].official) ELSE 0
  /\ \A r \in replies : lookups[r.turn] = ToolRuns(r.run)

\* No tool has run at the start.
LEMMA LookupStart == Init => LookupInv
BY IdleOK DEF Init, LookupInv

\* A step that leaves the count alone, and the official execution.
LEMMA LookupMoves ==
  ASSUME ShapeInv, LookupInv, NEW t \in Threads, Moves(t), UNCHANGED lookups,
         turn'[t].step # "idle" =>
           /\ turn'[t].step \in HasOfficial <=> turn[t].step \in HasOfficial
           /\ turn[t].step \in HasOfficial => turn'[t].official = turn[t].official,
         \A r \in replies' \ replies :
           r.turn = Mine(t) /\ turn[t].step \in HasOfficial /\ r.run = turn[t].official
  PROVE  LookupInv'
<1>1. turn[t].step # "idle" /\ Mine(t) \in Turns /\ UNCHANGED calls
  BY DEF Moves, ShapeInv, TurnOK, Mine
<1>2. turn'[t].step # "idle" => turn'[t].number = turn[t].number
  BY DEF Moves, Becomes, SameTurn
<1>3. ASSUME NEW u \in Threads, turn'[u].step # "idle"
      PROVE  lookups'[turn'[u].number] =
               IF turn'[u].step \in HasOfficial THEN ToolRuns(turn'[u].official) ELSE 0
  <2>1. CASE u = t
    BY <1>1, <1>2, <1>3, <2>1 DEF LookupInv, Mine
  <2>2. CASE u # t
    BY <1>3, <2>2 DEF LookupInv, Mine, Moves
  <2> QED BY <2>1, <2>2
<1>4. ASSUME NEW r \in replies' PROVE lookups'[r.turn] = ToolRuns(r.run)
  <2>1. CASE r \in replies
    BY <2>1 DEF LookupInv
  <2>2. CASE r \notin replies
    BY <1>1, <2>2 DEF LookupInv
  <2> QED BY <2>1, <2>2
<1>5. lookups' \in [Turns -> {0, 1}] /\ \A n \in Turns : n > calls' => lookups'[n] = 0
  BY <1>1 DEF LookupInv
<1> QED BY <1>3, <1>4, <1>5 DEF LookupInv, Mine

\* ... and the count of the tool's runs.
LEMMA LookupPasses ==
  ASSUME ShapeInv, EngineInv, LookupInv, NEW t \in Threads, Moves(t), NEW from, NEW to,
         SameStage(from, to), Passes(t, from, to)
  PROVE  LookupInv'
<1> DEFINE w == [turn[t] EXCEPT !.step = to]
<1>1. TurnOK(turn[t]) /\ Held(setting, turn[t]) /\ turn[t].step = from
  BY DEF ShapeInv, EngineInv, Passes
<1>2. Keeps(turn[t], w) /\ w.step = to
  BY <1>1, StepSetKeeps
<1>3. UNCHANGED <<replies, lookups>> /\ (turn'[t] = w \/ turn'[t] = Idle)
  BY Zenon DEF Passes
<1> HIDE DEF w
<1>4. w.step \in HasOfficial <=> turn[t].step \in HasOfficial
  BY <1>1, <1>2 DEF SameStage
<1>5. turn[t].step \in HasOfficial => w.official = turn[t].official
  BY <1>1, <1>2 DEF Held, TurnExecuted, Keeps
<1> QED BY <1>3, <1>4, <1>5, LookupMoves, IdleOK

\* The official execution is counted.
LEMMA LookupRuns ==
  ASSUME ShapeInv, MemoryInv, EngineInv, LookupInv, NEW t \in Threads, Moves(t), Run(t)
  PROVE  LookupInv'
<1> DEFINE o == turn'[t].official
           n == Mine(t)
           k == IF o.ran THEN 1 ELSE 0
<1>1. /\ turn[t].step = "execute" /\ turn[t].step # "idle" /\ UNCHANGED replies
      /\ UNCHANGED <<setting, calls>>
  BY DEF Run, At
<1>2. EngineInv' /\ "official" \in DOMAIN turn'[t] /\ Counted(t, o)
  BY RunHolds
<1>3. turn'[t].step = "validate"
  BY RunDoes DEF Silent, Goes
<1>4. o.ran = (o.decision = "USE_TOOL" /\ Registered)
  <2>1. Held(setting', turn'[t])
    BY <1>2 DEF EngineInv
  <2>2. PlanOK(turn'[t].plan)
    BY <1>3, <2>1 DEF Held, TurnPlanned, HasPlan, HasRun, HasOfficial
  <2>3. PICK p, remembered : Result(o, turn'[t].plan, Given(setting', turn'[t]), NoEvidence, p, remembered)
    BY <1>3, <2>1 DEF Held, TurnExecuted, HasOfficial
  <2> DEFINE given == Given(setting', turn'[t])
  <2>5. given.mode = "official"
    BY DEF Given, ContextIn
  <2> DEFINE plan == turn'[t].plan
  <2> HIDE DEF o, plan, given
  <2>4. PlanOK(plan) /\ Result(o, plan, given, NoEvidence, p, remembered)
    BY <2>2, <2>3 DEF plan, given
  <2> QED BY <2>4, <2>5, EnginesCompare
<1>5. lookups' = [lookups EXCEPT ![n] = @ + k]
  BY <1>2 DEF Counted
<1>6. k = ToolRuns(o) /\ k \in {0, 1}
  BY <1>4 DEF ToolRuns
<1>7. n \in Turns /\ n \in 1..calls /\ turn'[t].number = n /\ \A u \in Threads \ {t} : turn'[u] = turn[u]
  BY <1>1, <1>3 DEF ShapeInv, TurnOK, MemoryInv, Mine, Moves, Becomes, SameTurn
<1>8. turn[t].step \notin HasOfficial /\ turn'[t].step \in HasOfficial
  BY <1>1, <1>3 DEF HasOfficial, HasDiffers
<1>9. lookups[n] = 0
  BY <1>1, <1>8 DEF LookupInv
<1> HIDE DEF o, n, k
<1>10. /\ lookups'[n] = k /\ lookups' \in [Turns -> {0, 1}]
       /\ \A j \in Turns \ {n} : lookups'[j] = lookups[j]
  BY <1>5, <1>6, <1>7, <1>9 DEF LookupInv
<1>11. \A j \in Turns : j > calls' => lookups'[j] = 0
  <2> TAKE j \in Turns
  <2>1. CASE j = n
    BY <1>1, <1>6, <1>7, <1>10, <2>1 DEF ShapeInv
  <2>2. CASE j # n
    BY <1>1, <1>10, <2>2 DEF LookupInv
  <2> QED BY <2>1, <2>2
<1>12. ASSUME NEW u \in Threads, turn'[u].step # "idle"
       PROVE  lookups'[turn'[u].number] =
                IF turn'[u].step \in HasOfficial THEN ToolRuns(turn'[u].official) ELSE 0
  <2>1. CASE u = t
    BY <1>6, <1>7, <1>8, <1>10, <2>1 DEF o
  <2>2. CASE u # t
    <3>1. turn'[u] = turn[u] /\ turn[u].number \in Turns /\ turn[u].number # n
      BY <1>1, <1>7, <1>12, <2>2 DEF MemoryInv, Mine, n, ShapeInv, TurnOK
    <3> QED BY <1>10, <1>12, <3>1 DEF LookupInv, Mine
  <2> QED BY <2>1, <2>2
<1>13. ASSUME NEW r \in replies' PROVE lookups'[r.turn] = ToolRuns(r.run)
  <2>1. r \in replies /\ r.turn \in Turns /\ r.turn # n
    BY <1>1, <1>13 DEF MemoryInv, n
  <2> QED BY <1>10, <2>1 DEF LookupInv
<1> QED BY <1>10, <1>11, <1>12, <1>13 DEF LookupInv, Mine

\* The other execution is not.
LEMMA LookupChecks ==
  ASSUME ShapeInv, EngineInv, LookupInv, NEW t \in Threads, Moves(t), Check(t)
  PROVE  LookupInv'
<1>1. /\ turn[t].step = "validate" /\ turn[t].step # "idle" /\ UNCHANGED replies
  BY DEF Check, At
<1>2. turn'[t].official = turn[t].official /\ \E c : c.ran = FALSE /\ Counted(t, c)
  BY CheckHolds
<1>3. turn'[t].step = "compare"
  BY CheckDoes DEF Silent, Goes
<1>4. UNCHANGED lookups
  <2>1. PICK c : c.ran = FALSE /\ Counted(t, c)
    BY <1>2
  <2>2. lookups' = [lookups EXCEPT ![Mine(t)] = @ + 0]
    BY <2>1 DEF Counted
  <2>3. lookups \in [Turns -> {0, 1}] /\ Mine(t) \in Turns
    BY <1>1 DEF LookupInv, ShapeInv, TurnOK, Mine
  <2> QED BY <2>2, <2>3
<1>5. turn[t].step \in HasOfficial /\ turn'[t].step \in HasOfficial
  BY <1>1, <1>3 DEF HasOfficial, HasDiffers
<1> QED BY <1>1, <1>2, <1>4, <1>5, LookupMoves

\* The count is kept.
LEMMA LookupStep == ShapeInv /\ MemoryInv /\ EngineInv /\ LookupInv /\ [Next]_vars => LookupInv'
<1> SUFFICES ASSUME ShapeInv, MemoryInv, EngineInv, LookupInv, [Next]_vars PROVE LookupInv'
  OBVIOUS
<1>1. ASSUME NEW t \in Threads, t \in setting.threads, NEW m \in setting.messages,
             NEW clears \in setting.clears, Call(t, m, clears)
      PROVE  LookupInv'
  <2>1. clears \in BOOLEAN
    BY RuntimeAssumption DEF ShapeInv
  <2>2. /\ At(t, "idle") /\ \A u \in Threads \ {t} : turn'[u] = turn[u]
        /\ turn'[t].step \in {"clear", "start"} /\ UNCHANGED replies
    BY <1>1, <2>1, CallDoes
  <2>3. /\ calls < setting.turns /\ calls' = calls + 1 /\ turn'[t].number = calls + 1
        /\ UNCHANGED lookups
    BY <1>1 DEF Call, ShapeInv
  <2>4. calls \in Nat /\ calls + 1 \in Turns
    <3>1. setting.turns \in 0..MaxTurns /\ MaxTurns \in Nat /\ calls \in 0..setting.turns
      BY RuntimeAssumption DEF ShapeInv
    <3> QED BY <2>3, <3>1 DEF Turns
  <2>5. lookups[calls + 1] = 0 /\ turn'[t].step \notin HasOfficial
    BY <2>2, <2>4 DEF LookupInv, HasOfficial, HasDiffers
  <2>6. \A n \in Turns : n > calls' => lookups'[n] = 0
    BY <2>3, <2>4 DEF LookupInv, Turns
  <2>7. ASSUME NEW u \in Threads, turn'[u].step # "idle"
        PROVE  lookups'[turn'[u].number] =
                 IF turn'[u].step \in HasOfficial THEN ToolRuns(turn'[u].official) ELSE 0
    <3>1. CASE u = t
      BY <2>3, <2>5, <3>1
    <3>2. CASE u # t
      BY <2>2, <2>3, <2>7, <3>2 DEF LookupInv, Mine
    <3> QED BY <3>1, <3>2
  <2>8. \A r \in replies' : lookups'[r.turn] = ToolRuns(r.run)
    BY <2>2, <2>3 DEF LookupInv
  <2>9. lookups' \in [Turns -> {0, 1}]
    BY <2>3 DEF LookupInv
  <2> QED BY <2>6, <2>7, <2>8, <2>9 DEF LookupInv, Mine
<1>2. ASSUME NEW t \in Threads, Step(t) PROVE LookupInv'
  <2>1. Moves(t)
    BY <1>2, StepMoves
  <2>2. ASSUME NEW from, NEW to, NEW events, Emitting(t, from, to, events), UNCHANGED lookups,
               from \notin HasOfficial, to \notin HasOfficial
        PROVE  LookupInv'
    <3>1. UNCHANGED replies /\ turn[t].step = from /\ turn'[t].step \in {to, "idle"}
      BY <2>2 DEF Emitting, Goes, Falls, At
    <3> QED BY <2>1, <2>2, <3>1, LookupMoves
  <2>3. CASE Plan(t)
    <3>1. UNCHANGED lookups /\ "plan" \notin HasOfficial /\ "policy" \notin HasOfficial
      BY <2>3 DEF Plan, HasOfficial, HasDiffers
    <3> QED BY <2>2, <2>3, <3>1, PlanDoes
  <2>4. CASE Prepare(t)
    <3>1. UNCHANGED lookups /\ "policy" \notin HasOfficial /\ "authorize" \notin HasOfficial
      BY <2>4 DEF Prepare, HasOfficial, HasDiffers
    <3> QED BY <2>2, <2>4, <3>1, PrepareDoes
  <2>5. CASE Authorize(t)
    <3>1. UNCHANGED lookups /\ "authorize" \notin HasOfficial /\ "consolidate" \notin HasOfficial
      BY <2>5 DEF Authorize, HasOfficial, HasDiffers
    <3> QED BY <2>2, <2>5, <3>1, AuthorizeDoes
  <2>6. CASE Consolidate(t)
    <3>1. /\ UNCHANGED <<lookups, replies>> /\ turn[t].step = "consolidate" /\ turn'[t].step = "execute"
      BY <2>6, ConsolidateDoes DEF Consolidate, Silent, Goes, At
    <3>2. "consolidate" \notin HasOfficial /\ "execute" \notin HasOfficial
      BY DEF HasOfficial, HasDiffers
    <3> QED BY <2>1, <3>1, <3>2, LookupMoves
  <2>7. CASE Reply(t)
    <3>1. UNCHANGED lookups
      BY <2>7 DEF Reply
    <3>2. "reply" \in HasOfficial
      BY DEF HasOfficial, HasDiffers
    <3>3. /\ turn'[t] = Idle /\ turn[t].step = "reply"
          /\ \A r \in replies' \ replies : r.turn = Mine(t) /\ r.run = turn[t].official
      BY <2>1, <2>7, ReplyHolds
    <3> QED BY <2>1, <3>1, <3>2, <3>3, LookupMoves, IdleOK
  <2>8. CASE Clear(t)
    BY <2>1, <2>8, PassesOn, LookupPasses, Stages
  <2>9. CASE Begin(t)
    BY <2>1, <2>9, PassesOn, LookupPasses, Stages
  <2>10. CASE Compare(t)
    BY <2>1, <2>10, PassesOn, LookupPasses, Stages
  <2>11. CASE Attach(t)
    BY <2>1, <2>11, PassesOn, LookupPasses, Stages
  <2>12. CASE Complete(t)
    BY <2>1, <2>12, PassesOn, LookupPasses, Stages
  <2>13. CASE Record(t)
    BY <2>1, <2>13, PassesOn, LookupPasses, Stages
  <2> QED BY <1>2, <2>1, <2>3, <2>4, <2>5, <2>6, <2>7, <2>8, <2>9, <2>10, <2>11, <2>12, <2>13,
             LookupRuns, LookupChecks DEF Step
<1>3. CASE UNCHANGED vars
  BY <1>3 DEF vars, LookupInv, Mine
<1> QED BY <1>1, <1>2, <1>3 DEF Next

\* However a turn is executed twice, its effects are there once, however many threads run
\* turns: what it adds to the memory, and the call of the tool, which runs for the turns whose
\* policy asks for it and for no other.
THEOREM EffectsHappenOnce == Spec => []EffectsOnce
<1>1. MemoryInv => RememberedOnce
  BY DEF MemoryInv, RememberedOnce
<1>2. LookupInv => LookedUpOnce
  BY DEF LookupInv, LookedUpOnce, ToolRuns
<1>3. MemoryInv /\ LookupInv => EffectsOnce
  BY <1>1, <1>2 DEF EffectsOnce
<1> QED BY <1>3, ShapeStart, ShapeStep, MemoryStart, MemoryStep, EngineStart, EngineStep, LookupStart,
           LookupStep, PTL DEF Spec
=============================================================================
