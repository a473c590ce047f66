----------------------- MODULE PublicConversations_proofs -----------------------
(* For any threads, conversations, settings and requests, and however the tests,  *)
(* the constructions and the reads of the shared layers interleave: a runtime      *)
(* serves one conversation and runs each of its requests once, and what a reset    *)
(* forgot serves no request that came after it.  Beside it, the demo endpoint      *)
(* counts every turn it composed alone, and its summaries tell all that was said.  *)
(* A turn that hears a cancellation rejected leaves no trace of one in its memory. *)
(* However many amounts its messages state, the pair that it quotes was heard.    *)
EXTENDS DemoFlow, FiniteSetTheorems, NaturalsInduction, WellFoundedInduction, TLAPS

\* A sequence of anything.
List(s) == \E n \in Nat : DOMAIN s = 1..n /\ s = [i \in 1..n |-> s[i]]

\* The numbers that layers, runtimes and requests are known by.
Shape ==
  /\ setting \in Settings
  /\ List(layers) /\ cache \in Nat /\ (cache # 0 => cache \in DOMAIN layers)
  /\ List(runtimes)
  /\ List(answers) /\ received = Len(answers)
  /\ DOMAIN workers = Workers /\ workers = [w \in Workers |-> workers[w]]

\* What a layer has for a conversation is a runtime of that conversation.
SessionsIn(layer) ==
  /\ "session" \in DOMAIN layer
  /\ DOMAIN layer.session = Conversations
  /\ \A c \in Conversations :
       LET r == layer.session[c]
       IN  r # 0 => r \in DOMAIN runtimes /\ runtimes[r].conv = c

SessionsTrue == \A l \in DOMAIN layers : SessionsIn(layers[l])

\* The turns of a runtime are requests of its conversation, each of them once.
TurnsIn(runtime) ==
  /\ {"conv", "turns"} \subseteq DOMAIN runtime
  /\ List(runtime.turns)
  /\ \A i \in DOMAIN runtime.turns :
       runtime.turns[i] \in DOMAIN answers /\ answers[runtime.turns[i]].conv = runtime.conv
  /\ \A i, j \in DOMAIN runtime.turns : runtime.turns[i] = runtime.turns[j] => i = j

TurnsTrue == \A r \in DOMAIN runtimes : TurnsIn(runtimes[r])

AnswersKnow == \A i \in DOMAIN answers : "conv" \in DOMAIN answers[i]

\* What a thread holds of its request and of the objects it found, by its step.
HoldsRequest(v) ==
  v.pc # "idle" =>
    /\ {"request", "conv", "input"} \subseteq DOMAIN v
    /\ v.request \in DOMAIN answers
    /\ v.conv \in Conversations
    /\ answers[v.request].conv = v.conv

HoldsLayer(v) ==
  v.pc \notin {"idle", "layer", "build"} => "layer" \in DOMAIN v /\ v.layer \in DOMAIN layers

HoldsRuntime(v) ==
  v.pc = "turn" => /\ "runtime" \in DOMAIN v /\ v.runtime \in DOMAIN runtimes
                   /\ runtimes[v.runtime].conv = v.conv

\* The steps of the shadow, after the turn.
Shadowing == {"shadow", "state", "hear", "locate", "detail", "decide", "apply", "finish"}

\* A request that has not come to its turn is in no runtime.
NotYetRun(v) ==
  v.pc \notin {"idle"} \union Shadowing =>
    \A r \in DOMAIN runtimes : \A i \in DOMAIN runtimes[r].turns : runtimes[r].turns[i] # v.request

WorkerOK(v) ==
  "pc" \in DOMAIN v /\ HoldsRequest(v) /\ HoldsLayer(v) /\ HoldsRuntime(v) /\ NotYetRun(v)

WorkersOK == \A w \in Workers : WorkerOK(workers[w])

\* No two threads serve one request.
RequestsApart ==
  \A w, u \in Workers :
    workers[w].pc # "idle" /\ workers[u].pc # "idle" /\ w # u => workers[w].request # workers[u].request

\* The inductive invariant.
PublicInv == Shape /\ SessionsTrue /\ TurnsTrue /\ AnswersKnow /\ WorkersOK /\ RequestsApart

-----------------------------------------------------------------------------
LEMMA ListIsSeq ==
  ASSUME NEW s, List(s)
  PROVE  /\ s \in Seq({s[i] : i \in DOMAIN s})
         /\ Len(s) \in Nat /\ DOMAIN s = 1..Len(s)
<1>1. PICK n \in Nat : DOMAIN s = 1..n /\ s = [i \in 1..n |-> s[i]]
  BY DEF List
<1>2. s \in [1..n -> {s[i] : i \in DOMAIN s}]
  BY <1>1
<1>3. s \in Seq({s[i] : i \in DOMAIN s})
  BY <1>2
<1> QED BY <1>3

LEMMA EmptyList == List(<< >>) /\ DOMAIN << >> = {}
<1>1. DOMAIN << >> = 1..0 /\ << >> = [i \in 1..0 |-> << >>[i]]
  OBVIOUS
<1> QED BY <1>1 DEF List

LEMMA ListAppend ==
  ASSUME NEW s, NEW e, List(s)
  PROVE  /\ List(Append(s, e))
         /\ Len(Append(s, e)) = Len(s) + 1
         /\ DOMAIN Append(s, e) = DOMAIN s \union {Len(s) + 1}
         /\ Len(s) + 1 \notin DOMAIN s
         /\ Append(s, e)[Len(s) + 1] = e
         /\ \A i \in DOMAIN s : Append(s, e)[i] = s[i]
<1> DEFINE S == {s[i] : i \in DOMAIN s} \union {e}
           t == Append(s, e)
<1>1. s \in Seq(S) /\ Len(s) \in Nat /\ DOMAIN s = 1..Len(s)
  <2>1. PICK n \in Nat : DOMAIN s = 1..n /\ s = [i \in 1..n |-> s[i]]
    BY DEF List
  <2>2. s \in [1..n -> S]
    BY <2>1
  <2>3. s \in Seq(S)
    BY <2>2
  <2> QED BY <2>3, ListIsSeq
<1> HIDE DEF S
<1>2. e \in S
  BY DEF S
<1>3. /\ t \in Seq(S) /\ Len(t) = Len(s) + 1 /\ t[Len(s) + 1] = e
      /\ \A i \in 1..Len(s) : t[i] = s[i]
  BY <1>1, <1>2
<1> HIDE DEF t
<1>4. DOMAIN t = 1..(Len(s) + 1) /\ t = [i \in 1..(Len(s) + 1) |-> t[i]]
  BY <1>1, <1>3
<1>5. List(t)
  BY <1>1, <1>4 DEF List
<1>6. 1..(Len(s) + 1) = 1..Len(s) \union {Len(s) + 1} /\ Len(s) + 1 \notin 1..Len(s)
  BY <1>1
<1> QED BY <1>1, <1>3, <1>4, <1>5, <1>6 DEF t

LEMMA ListExcept ==
  ASSUME NEW s, NEW t, NEW i, NEW e, List(s), t = [s EXCEPT ![i] = e]
  PROVE  /\ List(t) /\ DOMAIN t = DOMAIN s /\ Len(t) = Len(s)
         /\ i \in DOMAIN s => t[i] = e
         /\ \A j \in DOMAIN s : j # i => t[j] = s[j]
<1>1. PICK n \in Nat : DOMAIN s = 1..n /\ s = [k \in 1..n |-> s[k]]
  BY DEF List
<1>2. /\ DOMAIN t = 1..n /\ t = [k \in 1..n |-> t[k]]
      /\ i \in DOMAIN s => t[i] = e
      /\ \A j \in DOMAIN s : j # i => t[j] = s[j]
  BY <1>1
<1>3. List(t)
  BY <1>2 DEF List
<1>4. Len(t) = Len(s)
  <2>1. /\ Len(s) \in Nat /\ DOMAIN s = 1..Len(s)
        /\ Len(t) \in Nat /\ DOMAIN t = 1..Len(t)
    BY <1>3, ListIsSeq
  <2> QED BY <2>1, <1>1, <1>2
<1> QED BY <1>1, <1>2, <1>3, <1>4

\* What an extended record says.
LEMMA Extended ==
  ASSUME NEW r, NEW more
  PROVE  /\ DOMAIN Extend(r, more) = DOMAIN r \union DOMAIN more
         /\ \A x \in DOMAIN more : Extend(r, more)[x] = more[x]
         /\ \A x \in DOMAIN r : x \notin DOMAIN more => Extend(r, more)[x] = r[x]
BY DEF Extend

-----------------------------------------------------------------------------
\* What every step keeps of the shared objects.
RuntimesKept ==
  \A r \in DOMAIN runtimes : r \in DOMAIN runtimes' /\ runtimes'[r].conv = runtimes[r].conv

Kept ==
  /\ \A i \in DOMAIN answers : i \in DOMAIN answers' /\ answers'[i].conv = answers[i].conv
  /\ DOMAIN layers \subseteq DOMAIN layers'
  /\ RuntimesKept

\* The turns that were not there before are of the request of a thread.
TurnsOf(w) ==
  \A r \in DOMAIN runtimes' : \A i \in DOMAIN runtimes'[r].turns :
    \/ /\ r \in DOMAIN runtimes /\ i \in DOMAIN runtimes[r].turns
       /\ runtimes'[r].turns[i] = runtimes[r].turns[i]
    \/ workers[w].pc # "idle" /\ runtimes'[r].turns[i] = workers[w].request

\* A thread that is served one step leaves the others as they were.
LEMMA OneThread ==
  ASSUME PublicInv, NEW w \in Workers, NEW v,
         workers' = [workers EXCEPT ![w] = v], WorkerOK(v)', Kept, TurnsOf(w),
         \/ v.pc = "idle"
         \/ workers[w].pc # "idle" /\ v.request = workers[w].request
         \/ workers[w].pc = "idle" /\ v.request \notin DOMAIN answers
  PROVE  WorkersOK' /\ RequestsApart'
<1>1. DOMAIN workers = Workers
  BY DEF PublicInv, Shape
<1>2. workers'[w] = v /\ \A u \in Workers : u # w => workers'[u] = workers[u]
  BY <1>1
<1>3. \A u \in Workers : WorkerOK(workers[u])
  BY DEF PublicInv, WorkersOK
<1>4. ASSUME NEW u \in Workers, u # w
      PROVE  WorkerOK(workers[u])'
  <2> DEFINE x == workers[u]
  <2>1. workers'[u] = x
    BY <1>2, <1>4
  <2>2. WorkerOK(x)
    BY <1>3
  <2>3. x.pc # "idle" => /\ {"request", "conv", "input"} \subseteq DOMAIN x
                         /\ x.request \in DOMAIN answers' /\ x.conv \in Conversations
                         /\ answers'[x.request].conv = x.conv
    BY <2>2 DEF WorkerOK, HoldsRequest, Kept
  <2>4. x.pc \notin {"idle", "layer", "build"} => "layer" \in DOMAIN x /\ x.layer \in DOMAIN layers'
    BY <2>2 DEF WorkerOK, HoldsLayer, Kept
  <2>5. x.pc = "turn" => /\ "runtime" \in DOMAIN x /\ x.runtime \in DOMAIN runtimes'
                         /\ runtimes'[x.runtime].conv = x.conv
    BY <2>2 DEF WorkerOK, HoldsRuntime, Kept, RuntimesKept
  <2>6. x.pc \notin {"idle"} \union Shadowing =>
          \A r \in DOMAIN runtimes' : \A i \in DOMAIN runtimes'[r].turns :
            runtimes'[r].turns[i] # x.request
    BY <2>2, <1>4 DEF WorkerOK, NotYetRun, Shadowing, TurnsOf, PublicInv, RequestsApart
  <2>7. "pc" \in DOMAIN x
    BY <2>2 DEF WorkerOK
  <2> QED BY <2>1, <2>3, <2>4, <2>5, <2>6, <2>7
          DEF WorkerOK, HoldsRequest, HoldsLayer, HoldsRuntime, NotYetRun, Shadowing
<1>5. WorkersOK'
  BY <1>2, <1>4 DEF WorkersOK
<1>6. RequestsApart'
  <2> SUFFICES ASSUME NEW u \in Workers, NEW x \in Workers, u # x,
                      workers'[u].pc # "idle", workers'[x].pc # "idle"
               PROVE  workers'[u].request # workers'[x].request
    BY DEF RequestsApart
  <2>1. \A y \in Workers : workers[y].pc # "idle" => workers[y].request \in DOMAIN answers
    BY <1>3 DEF WorkerOK, HoldsRequest
  <2>2. CASE u = w
    BY <1>2, <2>1, <2>2 DEF PublicInv, RequestsApart
  <2>3. CASE x = w
    BY <1>2, <2>1, <2>3 DEF PublicInv, RequestsApart
  <2>4. CASE u # w /\ x # w
    BY <1>2, <2>4 DEF PublicInv, RequestsApart
  <2> QED BY <2>2, <2>3, <2>4
<1> QED BY <1>5, <1>6

\* An answer says nothing else of the conversation of its request.
LEMMA AnswerKeeps ==
  ASSUME PublicInv, NEW w \in Workers, workers[w].pc # "idle",
         NEW answer, "conv" \notin DOMAIN answer, Answer(w, answer)
  PROVE  /\ List(answers') /\ Len(answers') = Len(answers) /\ DOMAIN answers' = DOMAIN answers
         /\ \A i \in DOMAIN answers : "conv" \in DOMAIN answers'[i] /\ answers'[i].conv = answers[i].conv
<1> DEFINE n == workers[w].request
           e == Extend(answers[n], answer)
<1>1. List(answers) /\ n \in DOMAIN answers /\ \A i \in DOMAIN answers : "conv" \in DOMAIN answers[i]
  BY DEF PublicInv, Shape, AnswersKnow, WorkersOK, WorkerOK, HoldsRequest
<1>2. answers' = [answers EXCEPT ![n] = e]
  BY DEF Answer
<1>3. "conv" \in DOMAIN e /\ e.conv = answers[n].conv
  <2>1. "conv" \in DOMAIN answers[n]
    BY <1>1
  <2> HIDE DEF n
  <2> QED BY <2>1 DEF Extend
<1> HIDE DEF n, e
<1>4. /\ List(answers') /\ Len(answers') = Len(answers) /\ DOMAIN answers' = DOMAIN answers
      /\ answers'[n] = e /\ \A i \in DOMAIN answers : i # n => answers'[i] = answers[i]
  BY <1>1, <1>2, ListExcept
<1> QED BY <1>1, <1>3, <1>4

\* A thread that has answered is idle.
LEMMA IdleOK == WorkerOK(Idle)'
BY DEF WorkerOK, HoldsRequest, HoldsLayer, HoldsRuntime, NotYetRun, Shadowing, Idle

-----------------------------------------------------------------------------
\* While runtimes and the conversations of the requests stay, so do the turns.
LEMMA TurnsStay ==
  ASSUME PublicInv, NEW w \in Workers, runtimes' = runtimes, DOMAIN answers \subseteq DOMAIN answers',
         \A i \in DOMAIN answers : answers'[i].conv = answers[i].conv
  PROVE  TurnsTrue' /\ TurnsOf(w)
<1>1. TurnsTrue'
  BY DEF PublicInv, TurnsTrue, TurnsIn
<1>2. TurnsOf(w)
  BY DEF TurnsOf
<1> QED BY <1>1, <1>2

\* The steps that move a thread only.
LEMMA ThreadMoves ==
  ASSUME PublicInv, NEW w \in Workers, NEW v, workers' = [workers EXCEPT ![w] = v],
         UNCHANGED <<setting, cache, layers, runtimes, received, answers>>,
         workers[w].pc # "idle", v.request = workers[w].request, WorkerOK(v)
  PROVE  PublicInv'
<1>1. Kept /\ TurnsTrue' /\ TurnsOf(w)
  <2>1. Kept
    BY DEF Kept, RuntimesKept
  <2> QED BY <2>1, TurnsStay
<1>2. WorkerOK(v)'
  BY DEF WorkerOK, HoldsRequest, HoldsLayer, HoldsRuntime, NotYetRun, Shadowing
<1>3. WorkersOK' /\ RequestsApart'
  BY <1>1, <1>2, OneThread
<1>4. Shape' /\ SessionsTrue' /\ AnswersKnow'
  BY DEF PublicInv, Shape, SessionsTrue, SessionsIn, AnswersKnow
<1> QED BY <1>1, <1>3, <1>4 DEF PublicInv

\* What the record of a thread at work says.
LEMMA AtWork ==
  ASSUME PublicInv, NEW w \in Workers, workers[w].pc # "idle"
  PROVE  /\ {"pc", "request", "conv", "input"} \subseteq DOMAIN workers[w]
         /\ workers[w].request \in DOMAIN answers
         /\ workers[w].conv \in Conversations
         /\ answers[workers[w].request].conv = workers[w].conv
BY DEF PublicInv, WorkersOK, WorkerOK, HoldsRequest

LEMMA LookupKeeps ==
  ASSUME PublicInv, NEW w \in Workers, LookupLayer(w)
  PROVE  PublicInv'
<1>1. workers[w].pc = "layer" /\ WorkerOK(workers[w])
  BY DEF LookupLayer, PublicInv, WorkersOK
<1>2. CASE cache = 0
  <2> DEFINE v == [workers[w] EXCEPT !.pc = "build"]
  <2>1. workers' = [workers EXCEPT ![w] = v]
    BY <1>2 DEF LookupLayer
  <2>2. WorkerOK(v) /\ v.request = workers[w].request
    BY <1>1 DEF WorkerOK, HoldsRequest, HoldsLayer, HoldsRuntime, NotYetRun, Shadowing
  <2> HIDE DEF v
  <2> QED BY <1>1, <2>1, <2>2, ThreadMoves DEF LookupLayer
<1>3. CASE cache # 0
  <2> DEFINE next == IF workers[w].input.action = "reset_conversation" THEN "forget" ELSE "start"
             v == Extend(workers[w], [pc |-> next, layer |-> cache])
  <2>1. workers' = [workers EXCEPT ![w] = v]
    BY <1>3 DEF LookupLayer
  <2>2. next \in {"forget", "start"}
    OBVIOUS
  <2> HIDE DEF next
  <2>3. /\ {"pc", "request", "conv", "input", "layer"} \subseteq DOMAIN v
        /\ v.pc = next /\ v.layer = cache
        /\ v.request = workers[w].request /\ v.conv = workers[w].conv
    BY <1>1, AtWork DEF Extend
  <2>4. cache \in DOMAIN layers
    BY <1>3 DEF PublicInv, Shape
  <2> HIDE DEF v
  <2>5. WorkerOK(v)
    BY <1>1, <2>2, <2>3, <2>4 DEF WorkerOK, HoldsRequest, HoldsLayer, HoldsRuntime, NotYetRun, Shadowing
  <2> QED BY <1>1, <2>1, <2>3, <2>5, ThreadMoves DEF LookupLayer
<1> QED BY <1>2, <1>3

LEMMA CheckKeeps ==
  ASSUME PublicInv, NEW w \in Workers, CheckSession(w)
  PROVE  PublicInv'
<1> DEFINE next == IF LayerOf(w).session[Conv(w)] = 0 THEN "create" ELSE "fetch"
           v == [workers[w] EXCEPT !.pc = next]
<1>1. workers[w].pc = "session" /\ WorkerOK(workers[w]) /\ workers' = [workers EXCEPT ![w] = v]
  BY DEF CheckSession, PublicInv, WorkersOK
<1>2. next \in {"create", "fetch"}
  OBVIOUS
<1> HIDE DEF next
<1>3. WorkerOK(v) /\ v.request = workers[w].request
  BY <1>1, <1>2 DEF WorkerOK, HoldsRequest, HoldsLayer, HoldsRuntime, NotYetRun, Shadowing
<1> HIDE DEF v
<1> QED BY <1>1, <1>3, ThreadMoves DEF CheckSession

-----------------------------------------------------------------------------
\* A layer whose sessions, after a step, are still runtimes of their conversations.
LEMMA LayerChanges ==
  ASSUME PublicInv, NEW l \in DOMAIN layers, NEW e, layers' = [layers EXCEPT ![l] = e],
         SessionsIn(e)', RuntimesKept
  PROVE  List(layers') /\ DOMAIN layers' = DOMAIN layers /\ SessionsTrue'
<1>1. List(layers)
  BY DEF PublicInv, Shape
<1>2. /\ List(layers') /\ DOMAIN layers' = DOMAIN layers
      /\ layers'[l] = e /\ \A k \in DOMAIN layers : k # l => layers'[k] = layers[k]
  BY <1>1, ListExcept
<1>3. \A k \in DOMAIN layers : SessionsIn(layers[k])
  BY DEF PublicInv, SessionsTrue
<1>4. ASSUME NEW k \in DOMAIN layers, k # l
      PROVE  SessionsIn(layers[k])'
  BY <1>2, <1>3, <1>4 DEF SessionsIn, RuntimesKept
<1>5. SessionsTrue'
  BY <1>2, <1>4 DEF SessionsTrue
<1> QED BY <1>2, <1>5

\* Setting something else of a layer leaves its sessions.
LEMMA OtherFieldSet ==
  ASSUME PublicInv, NEW l \in DOMAIN layers, NEW e, layers' = [layers EXCEPT ![l] = e],
         "session" \in DOMAIN e, e.session = layers[l].session, UNCHANGED runtimes
  PROVE  List(layers') /\ DOMAIN layers' = DOMAIN layers /\ SessionsTrue'
<1>1. SessionsIn(layers[l])
  BY DEF PublicInv, SessionsTrue
<1>2. SessionsIn(e)'
  BY <1>1 DEF SessionsIn
<1>3. RuntimesKept
  BY DEF RuntimesKept
<1> QED BY <1>2, <1>3, LayerChanges

\* A thread at work on a layer.
LEMMA OnLayer ==
  ASSUME PublicInv, NEW w \in Workers, workers[w].pc \notin {"idle", "layer", "build"}
  PROVE  "layer" \in DOMAIN workers[w] /\ workers[w].layer \in DOMAIN layers
BY DEF PublicInv, WorkersOK, WorkerOK, HoldsLayer

\* The steps that answer.
LEMMA AnswerStep ==
  ASSUME PublicInv, NEW w \in Workers, workers[w].pc # "idle",
         NEW answer, "conv" \notin DOMAIN answer, Answer(w, answer),
         UNCHANGED <<setting, cache, runtimes, received>>,
         List(layers'), DOMAIN layers' = DOMAIN layers, SessionsTrue'
  PROVE  PublicInv'
<1>1. /\ List(answers') /\ Len(answers') = Len(answers) /\ DOMAIN answers' = DOMAIN answers
      /\ \A i \in DOMAIN answers : "conv" \in DOMAIN answers'[i] /\ answers'[i].conv = answers[i].conv
  BY AnswerKeeps
<1>2. Kept
  BY <1>1 DEF Kept, RuntimesKept
<1>3. TurnsTrue' /\ TurnsOf(w)
  BY <1>1, TurnsStay
<1>4. workers' = [workers EXCEPT ![w] = Idle] /\ Idle.pc = "idle"
  BY DEF Answer, Idle
<1>5. WorkersOK' /\ RequestsApart'
  BY <1>2, <1>3, <1>4, IdleOK, OneThread
<1>6. Shape'
  <2>1. DOMAIN workers' = Workers /\ workers' = [u \in Workers |-> workers'[u]]
    BY <1>4 DEF PublicInv, Shape
  <2> QED BY <1>1, <2>1 DEF PublicInv, Shape
<1>7. AnswersKnow'
  BY <1>1 DEF AnswersKnow
<1> QED BY <1>3, <1>5, <1>6, <1>7 DEF PublicInv

\* The steps of a thread that change layers and runtimes and answer nobody.
LEMMA LayerStep ==
  ASSUME PublicInv, NEW w \in Workers, NEW v, workers[w].pc # "idle",
         workers' = [workers EXCEPT ![w] = v], v.request = workers[w].request, WorkerOK(v)',
         UNCHANGED <<setting, received, answers>>,
         Kept, TurnsOf(w), TurnsTrue', SessionsTrue',
         List(layers'), List(runtimes'), cache' \in Nat, cache' # 0 => cache' \in DOMAIN layers'
  PROVE  PublicInv'
<1>1. WorkersOK' /\ RequestsApart'
  BY OneThread
<1>2. Shape'
  <2>1. DOMAIN workers' = Workers /\ workers' = [u \in Workers |-> workers'[u]]
    BY DEF PublicInv, Shape
  <2> QED BY <2>1 DEF PublicInv, Shape
<1>3. AnswersKnow'
  BY DEF PublicInv, AnswersKnow
<1> QED BY <1>1, <1>2, <1>3 DEF PublicInv

LEMMA BuildKeeps ==
  ASSUME PublicInv, NEW w \in Workers, BuildLayer(w)
  PROVE  PublicInv'
<1> PICK v : v = [workers[w] EXCEPT !.pc = "layer"]
  OBVIOUS
<1>1. /\ workers[w].pc = "build" /\ WorkerOK(workers[w]) /\ workers' = [workers EXCEPT ![w] = v]
      /\ List(layers) /\ List(runtimes)
  BY DEF BuildLayer, PublicInv, WorkersOK, Shape
<1>2. v.request = workers[w].request /\ WorkerOK(v)
  BY <1>1 DEF WorkerOK, HoldsRequest, HoldsLayer, HoldsRuntime, NotYetRun, Shadowing
<1>3. layers' = Append(layers, NewLayer) /\ UNCHANGED <<setting, memories, runtimes, received, answers>>
  BY DEF BuildLayer
<1>4. /\ List(layers') /\ DOMAIN layers' = DOMAIN layers \union {Len(layers) + 1}
      /\ Len(layers) + 1 \notin DOMAIN layers
      /\ layers'[Len(layers) + 1] = NewLayer
      /\ \A l \in DOMAIN layers : layers'[l] = layers[l]
  BY <1>1, <1>3, ListAppend
<1>5. cache' = Len(layers) + 1 /\ cache' \in Nat
  BY <1>1, ListIsSeq DEF BuildLayer
<1>6. Kept
  BY <1>3, <1>4 DEF Kept, RuntimesKept
<1>7. TurnsTrue' /\ TurnsOf(w)
  BY <1>3, TurnsStay
<1>8. SessionsTrue'
  <2>1. /\ "session" \in DOMAIN NewLayer /\ DOMAIN NewLayer.session = Conversations
        /\ \A c \in Conversations : NewLayer.session[c] = 0
    BY DEF NewLayer
  <2> QED BY <1>3, <1>4, <2>1 DEF PublicInv, SessionsTrue, SessionsIn
<1>9. WorkerOK(v)'
  BY <1>2, <1>3, <1>4 DEF WorkerOK, HoldsRequest, HoldsLayer, HoldsRuntime, NotYetRun, Shadowing
<1> QED BY <1>1, <1>2, <1>3, <1>4, <1>5, <1>6, <1>7, <1>8, <1>9, LayerStep

LEMMA StartKeeps ==
  ASSUME PublicInv, NEW w \in Workers, Start(w)
  PROVE  PublicInv'
<1>1. workers[w].pc = "start" /\ UNCHANGED <<setting, cache, runtimes, received>>
  BY DEF Start
<1>2. "layer" \in DOMAIN workers[w] /\ workers[w].layer \in DOMAIN layers
  BY <1>1, OnLayer
<1>3. PICK l : l = workers[w].layer
  OBVIOUS
<1>4. PICK mid, act, mem :
        /\ layers' = [layers EXCEPT ![l].memory[Conv(w)] = mid]
        /\ IF act.enabled
           THEN /\ workers' = [workers EXCEPT ![w] =
                      Extend(workers[w], [pc |-> "session", mid |-> mid, action |-> act])]
                /\ UNCHANGED answers
           ELSE Answer(w, [kind |-> "disabled", plugin |-> mem.plugin, capability |-> act.capability])
  <2> DEFINE fresh_ == LayerOf(w).memory[Conv(w)] = 0
             mid_ == IF fresh_ THEN Len(memories) + 1 ELSE LayerOf(w).memory[Conv(w)]
             mem_ == IF fresh_ THEN NewMemory ELSE memories[mid_]
             act_ == FindAction(workers[w].input.action, mem_.plugin)
  <2>1. /\ layers' = [layers EXCEPT ![l].memory[Conv(w)] = mid_]
        /\ IF act_.enabled
           THEN /\ workers' = [workers EXCEPT ![w] =
                      Extend(workers[w], [pc |-> "session", mid |-> mid_, action |-> act_])]
                /\ UNCHANGED answers
           ELSE Answer(w, [kind |-> "disabled", plugin |-> mem_.plugin, capability |-> act_.capability])
    BY <1>3 DEF Start
  <2> HIDE DEF fresh_, mid_, mem_, act_
  <2> QED BY <2>1
<1>5. List(layers') /\ DOMAIN layers' = DOMAIN layers /\ SessionsTrue'
  <2> PICK e : e = [layers[l] EXCEPT !.memory[Conv(w)] = mid]
    OBVIOUS
  <2>1. layers' = [layers EXCEPT ![l] = e]
    BY <1>4
  <2>2. "session" \in DOMAIN e /\ e.session = layers[l].session
    BY <1>2, <1>3 DEF PublicInv, SessionsTrue, SessionsIn
  <2> QED BY <1>1, <1>2, <1>3, <2>1, <2>2, OtherFieldSet
<1>6. CASE act.enabled
  <2> PICK v : v = Extend(workers[w], [pc |-> "session", mid |-> mid, action |-> act])
    OBVIOUS
  <2>1. workers' = [workers EXCEPT ![w] = v] /\ UNCHANGED answers
    BY <1>4, <1>6
  <2>2. /\ {"pc", "request", "conv", "input", "layer"} \subseteq DOMAIN v /\ v.pc = "session"
        /\ v.request = workers[w].request /\ v.conv = workers[w].conv /\ v.layer = workers[w].layer
    BY <1>1, <1>2, AtWork DEF Extend
  <2>3. WorkerOK(v)'
    <3>1. WorkerOK(workers[w])
      BY DEF PublicInv, WorkersOK
    <3> QED BY <1>1, <1>2, <1>5, <2>1, <2>2, <3>1
            DEF WorkerOK, HoldsRequest, HoldsLayer, HoldsRuntime, NotYetRun, Shadowing
  <2>4. Kept /\ TurnsTrue' /\ TurnsOf(w)
    <3>1. Kept
      BY <1>1, <1>5, <2>1 DEF Kept, RuntimesKept
    <3> QED BY <1>1, <2>1, <3>1, TurnsStay
  <2>5. List(runtimes') /\ cache' \in Nat /\ (cache' # 0 => cache' \in DOMAIN layers')
    BY <1>1, <1>5 DEF PublicInv, Shape
  <2> QED BY <1>1, <1>5, <2>1, <2>2, <2>3, <2>4, <2>5, LayerStep
<1>7. CASE ~act.enabled
  <2> PICK answer : answer = [kind |-> "disabled", plugin |-> mem.plugin, capability |-> act.capability]
    OBVIOUS
  <2>1. "conv" \notin DOMAIN answer /\ Answer(w, answer)
    BY <1>4, <1>7
  <2> QED BY <1>1, <1>5, <2>1, AnswerStep
<1> QED BY <1>6, <1>7

LEMMA FetchKeeps ==
  ASSUME PublicInv, NEW w \in Workers, FetchSession(w)
  PROVE  PublicInv'
<1> PICK r : r = LayerOf(w).session[Conv(w)]
  OBVIOUS
<1>1. /\ workers[w].pc = "fetch"
      /\ UNCHANGED <<setting, cache, layers, memories, runtimes, received>>
      /\ IF r = 0 THEN Answer(w, [kind |-> "key_error"])
         ELSE IF workers[w].action.id \in ObservabilityActions
         THEN Answer(w, [kind |-> "observed", runtime |-> r])
         ELSE /\ workers' = [workers EXCEPT ![w] = Extend(workers[w], [pc |-> "turn", runtime |-> r])]
              /\ UNCHANGED answers
  BY DEF FetchSession
<1>2. /\ "layer" \in DOMAIN workers[w] /\ workers[w].layer \in DOMAIN layers
      /\ workers[w].conv \in Conversations
  BY <1>1, OnLayer, AtWork
<1>3. r # 0 => r \in DOMAIN runtimes /\ runtimes[r].conv = workers[w].conv
  BY <1>2 DEF PublicInv, SessionsTrue, SessionsIn, LayerOf, Conv
<1>4. ASSUME NEW answer, "conv" \notin DOMAIN answer, Answer(w, answer)
      PROVE  PublicInv'
  <2>1. List(layers') /\ DOMAIN layers' = DOMAIN layers /\ SessionsTrue'
    BY <1>1 DEF PublicInv, Shape, SessionsTrue, SessionsIn
  <2> QED BY <1>1, <1>4, <2>1, AnswerStep
<1>5. CASE r = 0
  <2> PICK answer : answer = [kind |-> "key_error"]
    OBVIOUS
  <2> QED BY <1>1, <1>4, <1>5
<1>6. CASE r # 0 /\ workers[w].action.id \in ObservabilityActions
  <2> PICK answer : answer = [kind |-> "observed", runtime |-> r]
    OBVIOUS
  <2> QED BY <1>1, <1>4, <1>6
<1>7. CASE r # 0 /\ workers[w].action.id \notin ObservabilityActions
  <2> PICK v : v = Extend(workers[w], [pc |-> "turn", runtime |-> r])
    OBVIOUS
  <2>1. /\ workers' = [workers EXCEPT ![w] = v]
        /\ UNCHANGED <<setting, cache, layers, runtimes, received, answers>>
    BY <1>1, <1>7
  <2>2. /\ {"pc", "request", "conv", "input", "layer", "runtime"} \subseteq DOMAIN v
        /\ v.pc = "turn" /\ v.runtime = r /\ v.request = workers[w].request
        /\ v.conv = workers[w].conv /\ v.layer = workers[w].layer
    BY <1>1, <1>2, AtWork DEF Extend
  <2>3. WorkerOK(v)
    <3>1. WorkerOK(workers[w])
      BY DEF PublicInv, WorkersOK
    <3> QED BY <1>1, <1>2, <1>3, <1>7, <2>2, <3>1
            DEF WorkerOK, HoldsRequest, HoldsLayer, HoldsRuntime, NotYetRun, Shadowing
  <2> QED BY <1>1, <2>1, <2>2, <2>3, ThreadMoves
<1> QED BY <1>5, <1>6, <1>7

LEMMA ForgetMemoryKeeps ==
  ASSUME PublicInv, NEW w \in Workers, ForgetMemory(w)
  PROVE  PublicInv'
<1> PICK l : l = workers[w].layer
  OBVIOUS
<1> PICK v : v = [workers[w] EXCEPT !.pc = "forget_session"]
  OBVIOUS
<1> PICK e : e = [layers[l] EXCEPT !.memory[Conv(w)] = 0]
  OBVIOUS
<1>1. /\ workers[w].pc = "forget" /\ WorkerOK(workers[w])
      /\ workers' = [workers EXCEPT ![w] = v] /\ layers' = [layers EXCEPT ![l] = e]
      /\ UNCHANGED <<setting, cache, memories, runtimes, received, answers>>
  BY DEF ForgetMemory, PublicInv, WorkersOK
<1>2. "layer" \in DOMAIN workers[w] /\ l \in DOMAIN layers
  BY <1>1, OnLayer
<1>3. "session" \in DOMAIN e /\ e.session = layers[l].session
  BY <1>2 DEF PublicInv, SessionsTrue, SessionsIn
<1>4. List(layers') /\ DOMAIN layers' = DOMAIN layers /\ SessionsTrue'
  BY <1>1, <1>2, <1>3, OtherFieldSet
<1>5. v.request = workers[w].request /\ WorkerOK(v)'
  BY <1>1, <1>2, <1>4 DEF WorkerOK, HoldsRequest, HoldsLayer, HoldsRuntime, NotYetRun, Shadowing
<1>6. Kept /\ TurnsTrue' /\ TurnsOf(w)
  <2>1. Kept
    BY <1>1, <1>4 DEF Kept, RuntimesKept
  <2> QED BY <1>1, <2>1, TurnsStay
<1>7. List(runtimes') /\ cache' \in Nat /\ (cache' # 0 => cache' \in DOMAIN layers')
  BY <1>1, <1>4 DEF PublicInv, Shape
<1> QED BY <1>1, <1>4, <1>5, <1>6, <1>7, LayerStep

LEMMA ForgetSessionKeeps ==
  ASSUME PublicInv, NEW w \in Workers, ForgetSession(w)
  PROVE  PublicInv'
<1> PICK l : l = workers[w].layer
  OBVIOUS
<1> PICK e : e = [layers[l] EXCEPT !.session[Conv(w)] = 0]
  OBVIOUS
<1> PICK answer : answer = [kind |-> "reset"]
  OBVIOUS
<1>1. /\ workers[w].pc = "forget_session" /\ layers' = [layers EXCEPT ![l] = e]
      /\ Answer(w, answer) /\ "conv" \notin DOMAIN answer
      /\ UNCHANGED <<setting, cache, memories, runtimes, received>>
  BY DEF ForgetSession
<1>2. "layer" \in DOMAIN workers[w] /\ l \in DOMAIN layers /\ Conv(w) \in Conversations
  BY <1>1, OnLayer, AtWork DEF Conv
<1>3. SessionsIn(e)'
  <2>1. SessionsIn(layers[l])
    BY <1>2 DEF PublicInv, SessionsTrue
  <2>2. /\ "session" \in DOMAIN e /\ DOMAIN e.session = Conversations
        /\ e.session[Conv(w)] = 0
        /\ \A c \in Conversations : c # Conv(w) => e.session[c] = layers[l].session[c]
    BY <1>2, <2>1 DEF SessionsIn
  <2> QED BY <1>1, <2>1, <2>2 DEF SessionsIn
<1>4. List(layers') /\ DOMAIN layers' = DOMAIN layers /\ SessionsTrue'
  <2>1. RuntimesKept
    BY <1>1 DEF RuntimesKept
  <2> QED BY <1>1, <1>2, <1>3, <2>1, LayerChanges
<1> QED BY <1>1, <1>4, AnswerStep

\* The steps between the turn and the answer add to what their thread holds.
ShadowSteps(w) == RouteShadow(w) \/ StoreState(w) \/ UpdateMemory(w) \/ Decide(w) \/ Apply(w)

Adds(w, more) ==
  /\ workers' = [workers EXCEPT ![w] = Extend(workers[w], more)]
  /\ "pc" \in DOMAIN more /\ more.pc \in Shadowing
  /\ {"layer", "request", "conv", "input", "mid", "runtime"} \intersect DOMAIN more = {}

LEMMA ShadowAdds ==
  ASSUME NEW w \in Workers, ShadowSteps(w)
  PROVE  /\ workers[w].pc \in Shadowing
         /\ UNCHANGED <<setting, cache, runtimes, received, answers>>
         /\ \E more : Adds(w, more)
<1>1. CASE RouteShadow(w)
  <2>1. PICK requested, route, version : workers' = [workers EXCEPT ![w] =
          Extend(workers[w], [pc |-> "state", requested |-> requested, route |-> route,
                              version |-> version])]
    BY <1>1, Zenon DEF RouteShadow
  <2> PICK more : more = [pc |-> "state", requested |-> requested, route |-> route, version |-> version]
    OBVIOUS
  <2>2. Adds(w, more)
    BY <2>1 DEF Adds, Shadowing
  <2> QED BY <1>1, <2>2 DEF RouteShadow, Shadowing
<1>2. CASE StoreState(w)
  <2>1. PICK plugin, capability : workers' = [workers EXCEPT ![w] =
          Extend(workers[w], [pc |-> "hear", plugin |-> plugin, capability |-> capability])]
    BY <1>2, Zenon DEF StoreState
  <2> PICK more : more = [pc |-> "hear", plugin |-> plugin, capability |-> capability]
    OBVIOUS
  <2>2. Adds(w, more)
    BY <2>1 DEF Adds, Shadowing
  <2> QED BY <1>2, <2>2 DEF StoreState, Shadowing
<1>3. CASE UpdateMemory(w)
  <2> PICK pc : pc = After[workers[w].pc]
    OBVIOUS
  <2>1. /\ workers' = [workers EXCEPT ![w] = Extend(workers[w], [pc |-> pc])]
        /\ workers[w].pc \in {"hear", "locate", "detail"} /\ pc \in {"locate", "detail", "decide"}
    BY <1>3 DEF UpdateMemory, After
  <2> PICK more : more = [pc |-> pc]
    OBVIOUS
  <2>2. Adds(w, more)
    BY <2>1 DEF Adds, Shadowing
  <2> QED BY <1>3, <2>1, <2>2 DEF UpdateMemory, Shadowing
<1>4. CASE Decide(w)
  <2>1. PICK turn : workers' = [workers EXCEPT ![w] = Extend(workers[w], [pc |-> "apply", turn |-> turn])]
    BY <1>4, Zenon DEF Decide
  <2> PICK more : more = [pc |-> "apply", turn |-> turn]
    OBVIOUS
  <2>2. Adds(w, more)
    BY <2>1 DEF Adds, Shadowing
  <2> QED BY <1>4, <2>2 DEF Decide, Shadowing
<1>5. CASE Apply(w)
  <2>1. workers' = [workers EXCEPT ![w] = Extend(workers[w], [pc |-> "finish"])]
    BY <1>5, Zenon DEF Apply
  <2> PICK more : more = [pc |-> "finish"]
    OBVIOUS
  <2>2. Adds(w, more)
    BY <2>1 DEF Adds, Shadowing
  <2> QED BY <1>5, <2>2 DEF Apply, Shadowing
<1> QED BY <1>1, <1>2, <1>3, <1>4, <1>5 DEF ShadowSteps

\* They leave the layers, or set the plugin's version in one.
LEMMA ShadowLayers ==
  ASSUME NEW w \in Workers, ShadowSteps(w)
  PROVE  \/ layers' = layers
         \/ \E versions : layers' = [layers EXCEPT ![workers[w].layer].version[workers[w].conv] = versions]
BY Zenon DEF ShadowSteps, RouteShadow, StoreState, UpdateMemory, Decide, Apply

LEMMA ShadowKeeps ==
  ASSUME PublicInv, NEW w \in Workers, ShadowSteps(w)
  PROVE  PublicInv'
<1> PICK l : l = workers[w].layer
  OBVIOUS
<1>1. PICK more : Adds(w, more)
  BY ShadowAdds
<1> PICK v : v = Extend(workers[w], more)
  OBVIOUS
<1>2. /\ workers[w].pc \in Shadowing /\ WorkerOK(workers[w])
      /\ UNCHANGED <<setting, cache, runtimes, received, answers>>
      /\ workers' = [workers EXCEPT ![w] = v]
  BY <1>1, ShadowAdds DEF PublicInv, WorkersOK, Adds
<1>3. workers[w].pc # "idle" /\ "layer" \in DOMAIN workers[w] /\ l \in DOMAIN layers
  BY <1>2, OnLayer DEF Shadowing
<1>4. /\ {"pc", "request", "conv", "input", "layer"} \subseteq DOMAIN v /\ v.pc \in Shadowing
      /\ v.request = workers[w].request /\ v.conv = workers[w].conv /\ v.layer = workers[w].layer
  BY <1>1, <1>3, AtWork DEF Extend, Adds
<1>5. WorkerOK(v)
  BY <1>2, <1>3, <1>4 DEF WorkerOK, HoldsRequest, HoldsLayer, HoldsRuntime, NotYetRun, Shadowing
<1>6. CASE layers' = layers
  BY <1>2, <1>3, <1>4, <1>5, <1>6, ThreadMoves
<1>7. ASSUME NEW versions, layers' = [layers EXCEPT ![l].version[workers[w].conv] = versions]
      PROVE  PublicInv'
  <2> PICK e : e = [layers[l] EXCEPT !.version[workers[w].conv] = versions]
    OBVIOUS
  <2>1. layers' = [layers EXCEPT ![l] = e]
    BY <1>7
  <2>2. "session" \in DOMAIN e /\ e.session = layers[l].session
    BY <1>3 DEF PublicInv, SessionsTrue, SessionsIn
  <2>3. List(layers') /\ DOMAIN layers' = DOMAIN layers /\ SessionsTrue'
    BY <1>2, <1>3, <2>1, <2>2, OtherFieldSet
  <2>4. Kept
    BY <1>2, <2>3 DEF Kept, RuntimesKept
  <2>5. TurnsTrue' /\ TurnsOf(w)
    BY <1>2, TurnsStay
  <2>6. WorkerOK(v)'
    BY <1>2, <1>5, <2>3 DEF WorkerOK, HoldsRequest, HoldsLayer, HoldsRuntime, NotYetRun, Shadowing
  <2>7. List(runtimes') /\ cache' \in Nat /\ (cache' # 0 => cache' \in DOMAIN layers')
    BY <1>2, <2>3 DEF PublicInv, Shape
  <2> QED BY <1>2, <1>3, <1>4, <2>3, <2>4, <2>5, <2>6, <2>7, LayerStep
<1> QED BY <1>6, <1>7, ShadowLayers

\* What a request is answered at the end of its shadow.
LEMMA FinishAnswers ==
  ASSUME NEW w \in Workers, Finish(w)
  PROVE  \E answer :
           /\ Answer(w, answer) /\ {"kind", "runtime", "mid", "layer"} \subseteq DOMAIN answer
           /\ "conv" \notin DOMAIN answer /\ "after" \notin DOMAIN answer
           /\ answer.kind = "answered" /\ answer.runtime = workers[w].runtime
           /\ answer.mid = workers[w].mid /\ answer.layer = workers[w].layer
<1>1. PICK active, domain, unshadowed :
        Answer(w, [kind |-> "answered", runtime |-> workers[w].runtime, mid |-> workers[w].mid,
                   layer |-> workers[w].layer, capability |-> active,
                   plugin |-> PluginForCapability(active), version |-> workers[w].version,
                   domain |-> domain, unshadowed |-> unshadowed])
  BY Zenon DEF Finish
<1> PICK answer : answer =
      [kind |-> "answered", runtime |-> workers[w].runtime, mid |-> workers[w].mid,
       layer |-> workers[w].layer, capability |-> active,
       plugin |-> PluginForCapability(active), version |-> workers[w].version,
       domain |-> domain, unshadowed |-> unshadowed]
  OBVIOUS
<1>2. Answer(w, answer)
  BY <1>1
<1>3. /\ {"kind", "runtime", "mid", "layer"} \subseteq DOMAIN answer
      /\ "conv" \notin DOMAIN answer /\ "after" \notin DOMAIN answer
      /\ answer.kind = "answered" /\ answer.runtime = workers[w].runtime
      /\ answer.mid = workers[w].mid /\ answer.layer = workers[w].layer
  OBVIOUS
<1> QED BY <1>2, <1>3

LEMMA FinishKeeps ==
  ASSUME PublicInv, NEW w \in Workers, Finish(w)
  PROVE  PublicInv'
<1>1. workers[w].pc = "finish" /\ UNCHANGED <<setting, cache, layers, runtimes, received>>
  BY DEF Finish
<1>2. List(layers') /\ DOMAIN layers' = DOMAIN layers /\ SessionsTrue'
  BY <1>1 DEF PublicInv, Shape, SessionsTrue, SessionsIn
<1>3. PICK answer : Answer(w, answer) /\ "conv" \notin DOMAIN answer
  BY FinishAnswers
<1> QED BY <1>1, <1>2, <1>3, AnswerStep

LEMMA CreateKeeps ==
  ASSUME PublicInv, NEW w \in Workers, CreateSession(w)
  PROVE  PublicInv'
<1> PICK l : l = workers[w].layer
  OBVIOUS
<1> PICK n : n = Len(runtimes) + 1
  OBVIOUS
<1> PICK new : new = [conv |-> Conv(w), turns |-> << >>]
  OBVIOUS
<1> PICK v : v = [workers[w] EXCEPT !.pc = "fetch"]
  OBVIOUS
<1> PICK e : e = [layers[l] EXCEPT !.session[Conv(w)] = n]
  OBVIOUS
<1>1. /\ workers[w].pc = "create" /\ WorkerOK(workers[w])
      /\ workers' = [workers EXCEPT ![w] = v] /\ layers' = [layers EXCEPT ![l] = e]
      /\ runtimes' = Append(runtimes, new) /\ UNCHANGED <<setting, cache, memories, received, answers>>
  BY DEF CreateSession, PublicInv, WorkersOK
<1>2. l \in DOMAIN layers /\ Conv(w) \in Conversations /\ List(runtimes)
  BY <1>1, OnLayer, AtWork DEF Conv, PublicInv, Shape
<1>3. /\ List(runtimes') /\ DOMAIN runtimes' = DOMAIN runtimes \union {n} /\ n \notin DOMAIN runtimes
      /\ runtimes'[n] = new /\ \A r \in DOMAIN runtimes : runtimes'[r] = runtimes[r]
  BY <1>1, <1>2, ListAppend
<1>4. RuntimesKept
  BY <1>3 DEF RuntimesKept
<1>5. SessionsIn(e)'
  <2>1. SessionsIn(layers[l])
    BY <1>2 DEF PublicInv, SessionsTrue
  <2>2. /\ "session" \in DOMAIN e /\ DOMAIN e.session = Conversations
        /\ e.session[Conv(w)] = n
        /\ \A c \in Conversations : c # Conv(w) => e.session[c] = layers[l].session[c]
    BY <1>2, <2>1 DEF SessionsIn
  <2>3. n \in DOMAIN runtimes' /\ runtimes'[n].conv = Conv(w)
    BY <1>3
  <2>4. ASSUME NEW c \in Conversations, e.session[c] # 0
        PROVE  e.session[c] \in DOMAIN runtimes' /\ runtimes'[e.session[c]].conv = c
    <3>1. CASE c = Conv(w)
      BY <2>2, <2>3, <3>1
    <3>2. CASE c # Conv(w)
      BY <1>4, <2>1, <2>2, <2>4, <3>2 DEF SessionsIn, RuntimesKept
    <3> QED BY <3>1, <3>2
  <2> QED BY <2>2, <2>4, Zenon DEF SessionsIn
<1>6. List(layers') /\ DOMAIN layers' = DOMAIN layers /\ SessionsTrue'
  BY <1>1, <1>2, <1>4, <1>5, LayerChanges
<1>7. Kept
  BY <1>1, <1>4, <1>6 DEF Kept
<1>8. DOMAIN new.turns = {} /\ TurnsIn(new)'
  <2>1. new.turns = << >> /\ {"conv", "turns"} \subseteq DOMAIN new
    OBVIOUS
  <2> QED BY <2>1, EmptyList DEF TurnsIn
<1>9. TurnsTrue' /\ TurnsOf(w)
  <2>1. TurnsOf(w)
    BY <1>3, <1>8 DEF TurnsOf
  <2>2. ASSUME NEW r \in DOMAIN runtimes
        PROVE  TurnsIn(runtimes[r])'
    BY <1>1, <1>3 DEF PublicInv, TurnsTrue, TurnsIn
  <2>3. TurnsTrue'
    BY <1>3, <1>8, <2>2 DEF TurnsTrue
  <2> QED BY <2>1, <2>3
<1>10. v.request = workers[w].request /\ WorkerOK(v)'
  <2>1. /\ {"pc", "request", "conv", "input", "layer"} \subseteq DOMAIN v /\ v.pc = "fetch"
        /\ v.request = workers[w].request /\ v.conv = workers[w].conv /\ v.layer = l
    BY <1>1, AtWork, OnLayer
  <2>2. NotYetRun(v)'
    BY <1>1, <1>3, <1>8, <2>1 DEF WorkerOK, NotYetRun, Shadowing
  <2> QED BY <1>1, <1>2, <1>6, <2>1, <2>2, AtWork DEF WorkerOK, HoldsRequest, HoldsLayer, HoldsRuntime
<1>11. cache' \in Nat /\ (cache' # 0 => cache' \in DOMAIN layers')
  BY <1>1, <1>6 DEF PublicInv, Shape
<1> QED BY <1>1, <1>3, <1>6, <1>7, <1>9, <1>10, <1>11, LayerStep

LEMMA RunKeeps ==
  ASSUME PublicInv, NEW w \in Workers, RunTurn(w)
  PROVE  PublicInv'
<1>r. PICK r : r = workers[w].runtime
  OBVIOUS
<1>q. PICK q : q = workers[w].request
  OBVIOUS
<1>m. PICK more : more = Append(runtimes[r].turns, q)
  OBVIOUS
<1>e. PICK e : e = [runtimes[r] EXCEPT !.turns = more]
  OBVIOUS
<1>1. PICK outcome : workers' = [workers EXCEPT ![w] =
                                   Extend(workers[w], [pc |-> "shadow", outcome |-> outcome])]
  BY DEF RunTurn
<1>v. PICK v : v = Extend(workers[w], [pc |-> "shadow", outcome |-> outcome])
  OBVIOUS
<1>2. /\ workers[w].pc = "turn" /\ WorkerOK(workers[w])
      /\ runtimes' = [runtimes EXCEPT ![r] = e] /\ workers' = [workers EXCEPT ![w] = v]
      /\ UNCHANGED <<setting, cache, layers, memories, received, answers>>
  BY <1>r, <1>q, <1>m, <1>e, <1>1, <1>v DEF RunTurn, PublicInv, WorkersOK
<1>3. /\ r \in DOMAIN runtimes /\ runtimes[r].conv = workers[w].conv
      /\ q \in DOMAIN answers /\ answers[q].conv = workers[w].conv
      /\ \A i \in DOMAIN runtimes[r].turns : runtimes[r].turns[i] # q
      /\ List(runtimes) /\ TurnsIn(runtimes[r])
  <2>1. /\ r \in DOMAIN runtimes /\ runtimes[r].conv = workers[w].conv
        /\ \A i \in DOMAIN runtimes[r].turns : runtimes[r].turns[i] # q
    BY <1>r, <1>q, <1>2 DEF WorkerOK, HoldsRuntime, NotYetRun, Shadowing
  <2>2. q \in DOMAIN answers /\ answers[q].conv = workers[w].conv
    BY <1>q, <1>2, AtWork
  <2> QED BY <2>1, <2>2 DEF PublicInv, Shape, TurnsTrue
<1>4. /\ List(runtimes') /\ DOMAIN runtimes' = DOMAIN runtimes
      /\ runtimes'[r] = e /\ \A k \in DOMAIN runtimes : k # r => runtimes'[k] = runtimes[k]
  BY <1>2, <1>3, ListExcept
<1>5. e.conv = runtimes[r].conv /\ e.turns = more /\ {"conv", "turns"} \subseteq DOMAIN e
  <2>1. {"conv", "turns"} \subseteq DOMAIN runtimes[r]
    BY <1>3 DEF TurnsIn
  <2> QED BY <1>e, <2>1
<1>6. PICK last :
        /\ List(more) /\ DOMAIN more = DOMAIN runtimes[r].turns \union {last}
        /\ last \notin DOMAIN runtimes[r].turns /\ more[last] = q
        /\ \A i \in DOMAIN runtimes[r].turns : more[i] = runtimes[r].turns[i]
  BY <1>3, <1>m, ListAppend DEF TurnsIn
<1>7. RuntimesKept
  BY <1>4, <1>5 DEF RuntimesKept
<1>8. TurnsOf(w)
  <2> SUFFICES ASSUME NEW k \in DOMAIN runtimes', NEW i \in DOMAIN runtimes'[k].turns
               PROVE  \/ /\ k \in DOMAIN runtimes /\ i \in DOMAIN runtimes[k].turns
                         /\ runtimes'[k].turns[i] = runtimes[k].turns[i]
                      \/ workers[w].pc # "idle" /\ runtimes'[k].turns[i] = workers[w].request
    BY DEF TurnsOf
  <2>1. CASE k = r
    BY <1>2, <1>3, <1>4, <1>5, <1>6, <1>q, <2>1
  <2>2. CASE k # r
    BY <1>4, <2>2
  <2> QED BY <2>1, <2>2
<1>9. TurnsTrue'
  <2>1. ASSUME NEW k \in DOMAIN runtimes, k # r
        PROVE  TurnsIn(runtimes[k])'
    BY <1>2, <1>4, <2>1 DEF PublicInv, TurnsTrue, TurnsIn
  <2>2. \A i \in DOMAIN more : more[i] \in DOMAIN answers /\ answers[more[i]].conv = e.conv
    BY <1>3, <1>5, <1>6 DEF TurnsIn
  <2>3. \A i, j \in DOMAIN more : more[i] = more[j] => i = j
    BY <1>3, <1>6 DEF TurnsIn
  <2>4. TurnsIn(e)'
    BY <1>2, <1>5, <1>6, <2>2, <2>3 DEF TurnsIn
  <2> QED BY <1>4, <2>1, <2>4 DEF TurnsTrue
<1>10. SessionsTrue'
  BY <1>2, <1>7 DEF PublicInv, SessionsTrue, SessionsIn, RuntimesKept
<1>11. v.request = workers[w].request /\ WorkerOK(v)'
  <2>1. /\ {"pc", "request", "conv", "input", "layer"} \subseteq DOMAIN v /\ v.pc = "shadow"
        /\ v.request = workers[w].request /\ v.conv = workers[w].conv /\ v.layer = workers[w].layer
    BY <1>v, <1>2, AtWork, OnLayer DEF Extend
  <2>2. workers[w].layer \in DOMAIN layers
    BY <1>2, OnLayer
  <2> QED BY <1>2, <2>1, <2>2, AtWork DEF WorkerOK, HoldsRequest, HoldsLayer, HoldsRuntime, NotYetRun, Shadowing
<1>12. Kept /\ List(layers') /\ cache' \in Nat /\ (cache' # 0 => cache' \in DOMAIN layers')
  BY <1>2, <1>7 DEF PublicInv, Shape, Kept
<1> QED BY <1>1, <1>2, <1>4, <1>8, <1>9, <1>10, <1>11, <1>12, LayerStep

LEMMA ReceiveKeeps ==
  ASSUME PublicInv, NEW w \in Workers, Receive(w)
  PROVE  PublicInv'
<1>1. PICK c \in setting.conversations, input \in setting.inputs :
        /\ workers' = [workers EXCEPT ![w] =
              [pc |-> "layer", request |-> received + 1, conv |-> c, input |-> input]]
        /\ answers' = Append(answers,
              [conv |-> c, kind |-> "pending", action |-> input.action, after |-> Answered])
  BY DEF Receive
<1>2. PICK v, new :
        /\ v = [pc |-> "layer", request |-> received + 1, conv |-> c, input |-> input]
        /\ new = [conv |-> c, kind |-> "pending", action |-> input.action, after |-> Answered]
  OBVIOUS
<1>3. /\ workers[w].pc = "idle" /\ received' = received + 1
      /\ UNCHANGED <<setting, cache, layers, memories, runtimes>>
      /\ workers' = [workers EXCEPT ![w] = v] /\ answers' = Append(answers, new)
  BY <1>1, <1>2 DEF Receive
<1>4. /\ {"pc", "request", "conv", "input"} \subseteq DOMAIN v
      /\ v.pc = "layer" /\ v.request = received + 1 /\ v.conv = c
      /\ "conv" \in DOMAIN new /\ new.conv = c
  BY <1>2
<1>5. c \in Conversations
  BY PublicAssumption DEF PublicInv, Shape
<1>6. List(answers) /\ received = Len(answers)
  BY DEF PublicInv, Shape
<1>7. /\ List(answers') /\ Len(answers') = received + 1
      /\ DOMAIN answers' = DOMAIN answers \union {received + 1} /\ received + 1 \notin DOMAIN answers
      /\ answers'[received + 1] = new /\ \A i \in DOMAIN answers : answers'[i] = answers[i]
  BY <1>3, <1>6, ListAppend
<1>8. Kept
  BY <1>3, <1>7 DEF Kept, RuntimesKept
<1>9. TurnsTrue' /\ TurnsOf(w)
  BY <1>3, <1>7, TurnsStay
<1>10. WorkerOK(v)'
  <2>1. \A r \in DOMAIN runtimes : \A i \in DOMAIN runtimes[r].turns : runtimes[r].turns[i] # v.request
    BY <1>4, <1>7 DEF PublicInv, TurnsTrue, TurnsIn
  <2> QED BY <1>3, <1>4, <1>5, <1>7, <2>1
          DEF WorkerOK, HoldsRequest, HoldsLayer, HoldsRuntime, NotYetRun, Shadowing
<1>11. WorkersOK' /\ RequestsApart'
  BY <1>3, <1>4, <1>7, <1>8, <1>9, <1>10, OneThread
<1>12. Shape'
  <2>1. DOMAIN workers' = Workers /\ workers' = [u \in Workers |-> workers'[u]]
    BY <1>3 DEF PublicInv, Shape
  <2> QED BY <1>3, <1>7, <2>1 DEF PublicInv, Shape
<1>13. SessionsTrue'
  BY <1>3 DEF PublicInv, SessionsTrue, SessionsIn
<1>14. AnswersKnow'
  BY <1>4, <1>7 DEF PublicInv, AnswersKnow
<1> QED BY <1>9, <1>11, <1>12, <1>13, <1>14 DEF PublicInv

-----------------------------------------------------------------------------
LEMMA PublicStart == Init => PublicInv
<1> SUFFICES ASSUME Init
             PROVE  PublicInv
  OBVIOUS
<1>1. /\ layers = << >> /\ runtimes = << >> /\ answers = << >> /\ received = 0 /\ cache = 0
      /\ setting \in Settings /\ workers = [w \in Workers |-> Idle]
  BY DEF Init
<1>2. /\ List(layers) /\ List(runtimes) /\ List(answers) /\ Len(answers) = 0
      /\ DOMAIN layers = {} /\ DOMAIN runtimes = {} /\ DOMAIN answers = {}
  BY <1>1, EmptyList
<1>3. Shape
  BY <1>1, <1>2 DEF Shape
<1>4. \A w \in Workers : workers[w] = Idle /\ workers[w].pc = "idle" /\ "pc" \in DOMAIN workers[w]
  BY <1>1 DEF Idle
<1>5. WorkersOK /\ RequestsApart
  BY <1>4 DEF WorkersOK, WorkerOK, HoldsRequest, HoldsLayer, HoldsRuntime, NotYetRun, Shadowing, RequestsApart
<1>6. SessionsTrue /\ TurnsTrue /\ AnswersKnow
  BY <1>2 DEF SessionsTrue, TurnsTrue, AnswersKnow
<1> QED BY <1>3, <1>5, <1>6 DEF PublicInv

LEMMA PublicStep == PublicInv /\ [Next]_vars => PublicInv'
<1> SUFFICES ASSUME PublicInv, [Next]_vars
             PROVE  PublicInv'
  OBVIOUS
<1>1. CASE UNCHANGED vars
  BY <1>1 DEF vars, PublicInv, Shape, SessionsTrue, SessionsIn, TurnsTrue, TurnsIn, AnswersKnow,
     WorkersOK, WorkerOK, HoldsRequest, HoldsLayer, HoldsRuntime, NotYetRun, Shadowing, RequestsApart
<1>2. ASSUME NEW w \in Workers, Receive(w) \/ Serve(w)
      PROVE  PublicInv'
  BY <1>2, ReceiveKeeps, LookupKeeps, BuildKeeps, StartKeeps, CheckKeeps, CreateKeeps, FetchKeeps,
     RunKeeps, ShadowKeeps, FinishKeeps, ForgetMemoryKeeps, ForgetSessionKeeps DEF Serve, ShadowSteps
<1> QED BY <1>1, <1>2 DEF Next, Rest

\* However the first requests of the conversations interleave with each other and with
\* resets, on however many threads and layers, a runtime only ever runs the turns of one
\* conversation, and each request at most once.
THEOREM RuntimesServeOne == Spec => []SessionsApart
<1>1. PublicInv => SessionsApart
  BY DEF PublicInv, TurnsTrue, TurnsIn, SessionsApart
<1> QED BY <1>1, PublicStart, PublicStep, PTL DEF Spec

-----------------------------------------------------------------------------
\* The second half: what a reset forgets. A runtime and a memory are only ever in the
\* layer they were made in, layers come one after the other, and a request works on the
\* layer that was the last when it came; so what was answered before a reset is in an
\* older layer than the reset's, or in the same and then gone from it.

\* The layers are numbered up to the cached one.
LayersCounted == DOMAIN layers = 1..cache /\ List(memories)

MemoriesIn(layer) ==
  /\ "memory" \in DOMAIN layer
  /\ DOMAIN layer.memory = Conversations
  /\ \A c \in Conversations : layer.memory[c] # 0 => layer.memory[c] \in DOMAIN memories

MemoriesTrue == \A l \in DOMAIN layers : MemoriesIn(layers[l])

\* An object is in no other layer than this.
RuntimeAt(x, here) ==
  /\ x \in DOMAIN runtimes
  /\ \A l \in DOMAIN layers, c \in Conversations : layers[l].session[c] = x => l = here

MemoryAt(x, here) ==
  /\ x \in DOMAIN memories
  /\ \A l \in DOMAIN layers, c \in Conversations : layers[l].memory[c] = x => l = here

PlacesTrue ==
  \A l \in DOMAIN layers, c \in Conversations :
    /\ layers[l].session[c] # 0 => RuntimeAt(layers[l].session[c], l)
    /\ layers[l].memory[c] # 0 => MemoryAt(layers[l].memory[c], l)

RecordOK(a) ==
  /\ {"conv", "kind", "after"} \subseteq DOMAIN a /\ a.conv \in Conversations
  /\ a.after \subseteq Answered
  /\ a.kind = "answered" =>
       /\ {"runtime", "mid", "layer"} \subseteq DOMAIN a
       /\ a.layer \in DOMAIN layers
       /\ RuntimeAt(a.runtime, a.layer) /\ MemoryAt(a.mid, a.layer)

RecordsOK == \A i \in DOMAIN answers : RecordOK(answers[i])

\* The turns and the resets of its conversation that were answered when a request came,
\* and the turns that one of these resets was to forget.
PriorTurns(q) ==
  {i \in answers[q].after : answers[i].kind = "answered" /\ answers[i].conv = answers[q].conv}
PriorResets(q) ==
  {k \in answers[q].after : answers[k].kind = "reset" /\ answers[k].conv = answers[q].conv}
Forgotten(q) == UNION {PriorTurns(k) : k \in PriorResets(q)}

WithoutLayer == {"idle", "layer", "build"}
WithRuntime == {"turn"} \union Shadowing
WithMemory == {"session", "create", "fetch"} \union WithRuntime

\* What a thread may hold, by its step.
IsPending(v) == v.pc # "idle" => answers[v.request].kind = "pending"

OnLaterLayer(v) ==
  v.pc \notin WithoutLayer => \A i \in PriorTurns(v.request) : answers[i].layer <= v.layer

HasForgotten(v) ==
  v.pc = "forget_session" =>
    \A i \in PriorTurns(v.request) : layers[v.layer].memory[v.conv] # answers[i].mid

MemoryFresh(v) ==
  v.pc \in WithMemory =>
    /\ "mid" \in DOMAIN v /\ MemoryAt(v.mid, v.layer)
    /\ \A i \in Forgotten(v.request) : v.mid # answers[i].mid

RuntimeFresh(v) ==
  v.pc \in WithRuntime =>
    /\ "runtime" \in DOMAIN v /\ RuntimeAt(v.runtime, v.layer)
    /\ \A i \in Forgotten(v.request) : v.runtime # answers[i].runtime

ThreadOK(v) ==
  IsPending(v) /\ OnLaterLayer(v) /\ HasForgotten(v) /\ MemoryFresh(v) /\ RuntimeFresh(v)

ThreadsOK == \A w \in Workers : ThreadOK(workers[w])

\* What a reset has forgotten is not in its layer, or its layer serves nobody who came
\* after the reset.
Gone(i) ==
  /\ layers[answers[i].layer].session[answers[i].conv] # answers[i].runtime
  /\ layers[answers[i].layer].memory[answers[i].conv] # answers[i].mid

PassedBy(i, k, v) ==
  v.pc \notin WithoutLayer /\ k \in answers[v.request].after => answers[i].layer < v.layer

LeftBehind(i, k) ==
  answers[i].layer < cache /\ \A u \in Workers : PassedBy(i, k, workers[u])

ResetsHeld ==
  \A k \in DOMAIN answers : answers[k].kind = "reset" =>
    \A i \in PriorTurns(k) : Gone(i) \/ LeftBehind(i, k)

AnswersFresh ==
  \A j \in DOMAIN answers : answers[j].kind = "answered" =>
    \A i \in Forgotten(j) : /\ answers[i].runtime # answers[j].runtime
                            /\ answers[i].mid # answers[j].mid

\* The inductive invariant of the second half.
HistoryInv ==
  /\ PublicInv /\ LayersCounted /\ MemoriesTrue /\ PlacesTrue
  /\ RecordsOK /\ ThreadsOK /\ ResetsHeld /\ AnswersFresh

-----------------------------------------------------------------------------
\* What every step does to the history: answers stay, slots are emptied or take objects
\* made in that step.
AnswersStay ==
  /\ DOMAIN answers \subseteq DOMAIN answers'
  /\ \A i \in Answered : answers'[i] = answers[i]
  /\ \A i \in DOMAIN answers : answers'[i].after = answers[i].after /\ answers'[i].conv = answers[i].conv

SlotsTakeNew ==
  \A l \in DOMAIN layers', c \in Conversations :
    /\ layers'[l].session[c] \in DOMAIN runtimes =>
         l \in DOMAIN layers /\ layers[l].session[c] = layers'[l].session[c]
    /\ layers'[l].memory[c] \in DOMAIN memories =>
         l \in DOMAIN layers /\ layers[l].memory[c] = layers'[l].memory[c]

ObjectsStay ==
  /\ DOMAIN layers \subseteq DOMAIN layers'
  /\ DOMAIN runtimes \subseteq DOMAIN runtimes'
  /\ DOMAIN memories \subseteq DOMAIN memories'

LEMMA PlacesStay ==
  ASSUME SlotsTakeNew, ObjectsStay
  PROVE  /\ \A x, l : RuntimeAt(x, l) => RuntimeAt(x, l)'
         /\ \A x, l : MemoryAt(x, l) => MemoryAt(x, l)'
BY DEF SlotsTakeNew, ObjectsStay, RuntimeAt, MemoryAt

\* The history of a request does not change.
LEMMA HistoryStays ==
  ASSUME RecordsOK, AnswersStay, NEW q \in DOMAIN answers
  PROVE  /\ answers[q].after \subseteq Answered
         /\ PriorTurns(q)' = PriorTurns(q)
         /\ PriorResets(q)' = PriorResets(q)
         /\ Forgotten(q)' = Forgotten(q)
         /\ \A i \in PriorTurns(q) \union Forgotten(q) : answers'[i] = answers[i] /\ i \in Answered
<1>1. \A k \in DOMAIN answers : answers[k].after \subseteq Answered
  BY DEF RecordsOK, RecordOK
<1>2. \A k \in DOMAIN answers :
        /\ PriorTurns(k)' = PriorTurns(k) /\ PriorTurns(k) \subseteq Answered
        /\ PriorResets(k)' = PriorResets(k) /\ PriorResets(k) \subseteq Answered
  <2> SUFFICES ASSUME NEW k \in DOMAIN answers
               PROVE  /\ PriorTurns(k)' = PriorTurns(k) /\ PriorTurns(k) \subseteq Answered
                      /\ PriorResets(k)' = PriorResets(k) /\ PriorResets(k) \subseteq Answered
    OBVIOUS
  <2>1. /\ answers'[k].after = answers[k].after /\ answers'[k].conv = answers[k].conv
        /\ \A i \in answers[k].after : answers'[i] = answers[i] /\ i \in Answered
    BY <1>1 DEF AnswersStay
  <2> QED BY <2>1 DEF PriorTurns, PriorResets
<1>3. Answered \subseteq DOMAIN answers
  BY DEF Answered
<1>4. Forgotten(q)' = Forgotten(q) /\ Forgotten(q) \subseteq Answered
  <2>1. \A k \in PriorResets(q) : PriorTurns(k)' = PriorTurns(k) /\ PriorTurns(k) \subseteq Answered
    BY <1>2, <1>3
  <2>2. PriorResets(q)' = PriorResets(q)
    BY <1>2
  <2> QED BY <2>1, <2>2 DEF Forgotten
<1> QED BY <1>1, <1>2, <1>4 DEF AnswersStay

\* What a step of one thread does to the answers and to itself.
AnswersOnly(w) ==
  \A i \in DOMAIN answers :
    (workers[w].pc = "idle" \/ i # workers[w].request) => answers'[i] = answers[i]

NewOnesPend ==
  \A i \in DOMAIN answers' :
    i \notin DOMAIN answers => answers'[i].kind = "pending" /\ RecordOK(answers[i])'

MovesOn(w, v) ==
  v.pc \notin WithoutLayer =>
    /\ workers[w].pc # "idle" /\ v.request = workers[w].request
    /\ \/ v.layer = cache'
       \/ workers[w].pc \notin WithoutLayer /\ v.layer = workers[w].layer

AnswerFits(q) ==
  /\ RecordOK(answers[q])'
  /\ answers'[q].kind = "reset" =>
       \A i \in PriorTurns(q) : Gone(i)' \/ answers'[i].layer < cache'
  /\ answers'[q].kind = "answered" =>
       \A i \in Forgotten(q) : /\ answers'[i].runtime # answers'[q].runtime
                               /\ answers'[i].mid # answers'[q].mid

LEMMA RecordsKeep ==
  ASSUME HistoryInv, NEW w \in Workers, AnswersStay, AnswersOnly(w), NewOnesPend,
         SlotsTakeNew, ObjectsStay,
         NEW q, q = workers[w].request, workers[w].pc # "idle" => AnswerFits(q)
  PROVE  RecordsOK'
<1> SUFFICES ASSUME NEW i \in DOMAIN answers'
             PROVE  RecordOK(answers[i])'
  BY DEF RecordsOK
<1>1. CASE i \notin DOMAIN answers
  BY <1>1 DEF NewOnesPend
<1>2. CASE workers[w].pc # "idle" /\ i = workers[w].request
  BY <1>2 DEF AnswerFits
<1>3. CASE i \in DOMAIN answers /\ ~ (workers[w].pc # "idle" /\ i = workers[w].request)
  <2>1. answers'[i] = answers[i] /\ RecordOK(answers[i])
    BY <1>3 DEF AnswersOnly, HistoryInv, RecordsOK
  <2>2. Answered \subseteq Answered'
    BY DEF AnswersStay, Answered
  <2>3. ASSUME answers[i].kind = "answered"
        PROVE  /\ answers[i].layer \in DOMAIN layers'
               /\ RuntimeAt(answers[i].runtime, answers[i].layer)'
               /\ MemoryAt(answers[i].mid, answers[i].layer)'
    <3> PICK a : a = answers[i]
      OBVIOUS
    <3>1. a.layer \in DOMAIN layers /\ RuntimeAt(a.runtime, a.layer) /\ MemoryAt(a.mid, a.layer)
      BY <2>1, <2>3 DEF RecordOK
    <3>2. RuntimeAt(a.runtime, a.layer)' /\ MemoryAt(a.mid, a.layer)'
      BY <3>1, PlacesStay
    <3>3. a = answers'[i]
      BY <2>1
    <3> QED BY <2>1, <3>1, <3>2, <3>3 DEF ObjectsStay, RuntimeAt, MemoryAt
  <2> QED BY <2>1, <2>2, <2>3 DEF RecordOK, RuntimeAt, MemoryAt
<1> QED BY <1>1, <1>2, <1>3

LEMMA ThreadsKeep ==
  ASSUME HistoryInv, NEW w \in Workers, NEW v, workers' = [workers EXCEPT ![w] = v],
         ThreadOK(v)', AnswersStay, AnswersOnly(w), SlotsTakeNew, ObjectsStay
  PROVE  ThreadsOK'
<1>1. DOMAIN workers = Workers /\ RecordsOK
  BY DEF HistoryInv, PublicInv, Shape
<1>2. workers'[w] = v /\ \A u \in Workers : u # w => workers'[u] = workers[u]
  BY <1>1
<1>3. ASSUME NEW u \in Workers, u # w
      PROVE  ThreadOK(workers[u])'
  <2> PICK x : x = workers[u]
    OBVIOUS
  <2>1. workers'[u] = x
    BY <1>2, <1>3
  <2>2. ThreadOK(x) /\ WorkerOK(x)
    BY DEF HistoryInv, ThreadsOK, PublicInv, WorkersOK
  <2>3. CASE x.pc = "idle"
    BY <2>1, <2>3 DEF ThreadOK, IsPending, OnLaterLayer, HasForgotten, MemoryFresh, RuntimeFresh,
       WithoutLayer, WithMemory, WithRuntime, Shadowing
  <2>4. CASE x.pc # "idle"
    <3> PICK q : q = x.request
      OBVIOUS
    <3>1. /\ q \in DOMAIN answers /\ x.conv \in Conversations
          /\ workers[w].pc # "idle" => q # workers[w].request
      BY <1>3, <2>2, <2>4 DEF WorkerOK, HoldsRequest, HistoryInv, PublicInv, RequestsApart
    <3>2. answers'[q] = answers[q]
      BY <3>1 DEF AnswersOnly
    <3>3. /\ PriorTurns(q)' = PriorTurns(q) /\ Forgotten(q)' = Forgotten(q)
          /\ \A i \in PriorTurns(q) \union Forgotten(q) : answers'[i] = answers[i]
      BY <1>1, <3>1, HistoryStays
    <3>4. IsPending(x)'
      BY <2>2, <3>2 DEF ThreadOK, IsPending
    <3>5. OnLaterLayer(x)'
      BY <2>2, <3>3 DEF ThreadOK, OnLaterLayer
    <3>6. MemoryFresh(x)'
      BY <2>2, <3>3, PlacesStay DEF ThreadOK, MemoryFresh
    <3>7. RuntimeFresh(x)'
      BY <2>2, <3>3, PlacesStay DEF ThreadOK, RuntimeFresh
    <3>8. HasForgotten(x)'
      <4> SUFFICES ASSUME x.pc = "forget_session", NEW i \in PriorTurns(q)
                   PROVE  layers'[x.layer].memory[x.conv] # answers[i].mid
        BY <3>3 DEF HasForgotten
      <4>1. layers[x.layer].memory[x.conv] # answers[i].mid /\ x.layer \in DOMAIN layers'
        BY <2>2 DEF ThreadOK, HasForgotten, WorkerOK, HoldsLayer, ObjectsStay
      <4>2. answers[i].mid \in DOMAIN memories
        BY <1>1, <3>1 DEF PriorTurns, RecordsOK, RecordOK, MemoryAt, Answered
      <4> QED BY <3>1, <4>1, <4>2 DEF SlotsTakeNew
    <3> QED BY <2>1, <3>4, <3>5, <3>6, <3>7, <3>8
            DEF ThreadOK, IsPending, OnLaterLayer, HasForgotten, MemoryFresh, RuntimeFresh
  <2> QED BY <2>3, <2>4
<1>4. ThreadOK(workers[w])'
  BY <1>2 DEF ThreadOK, IsPending, OnLaterLayer, HasForgotten, MemoryFresh, RuntimeFresh
<1> QED BY <1>3, <1>4 DEF ThreadsOK

LEMMA ResetsKeep ==
  ASSUME HistoryInv, NEW w \in Workers, NEW v, workers' = [workers EXCEPT ![w] = v],
         AnswersStay, AnswersOnly(w), NewOnesPend, SlotsTakeNew, ObjectsStay, MovesOn(w, v),
         cache <= cache', cache' \in Nat,
         NEW q, q = workers[w].request, workers[w].pc # "idle" => AnswerFits(q)
  PROVE  ResetsHeld'
<1>1. DOMAIN workers = Workers /\ RecordsOK /\ cache \in Nat
  BY DEF HistoryInv, PublicInv, Shape
<1>2. workers'[w] = v /\ \A u \in Workers : u # w => workers'[u] = workers[u]
  BY <1>1
<1>3. \A u \in Workers : workers[u].pc # "idle" =>
        workers[u].request \in DOMAIN answers /\ answers[workers[u].request].kind = "pending"
  BY DEF HistoryInv, PublicInv, WorkersOK, WorkerOK, HoldsRequest, ThreadsOK, ThreadOK, IsPending
<1> SUFFICES ASSUME NEW k \in DOMAIN answers', answers'[k].kind = "reset", NEW i \in PriorTurns(k)'
             PROVE  Gone(i)' \/ LeftBehind(i, k)'
  BY DEF ResetsHeld
<1>4. k \in DOMAIN answers
  BY DEF NewOnesPend
<1>5. i \in PriorTurns(k) /\ answers'[i] = answers[i] /\ i \in Answered
  BY <1>1, <1>4, HistoryStays
<1>6. RecordOK(answers[i]) /\ answers[i].kind = "answered"
  BY <1>1, <1>5 DEF RecordsOK, Answered, PriorTurns
<1>7. /\ answers[i].layer \in Nat /\ answers[i].layer \in DOMAIN layers
      /\ answers[i].conv \in Conversations
  BY <1>1, <1>6 DEF RecordOK, HistoryInv, LayersCounted
<1>8. Gone(i) => Gone(i)'
  <2>1. answers[i].runtime \in DOMAIN runtimes /\ answers[i].mid \in DOMAIN memories
    BY <1>6 DEF RecordOK, RuntimeAt, MemoryAt
  <2>2. answers[i].layer \in DOMAIN layers'
    BY <1>7 DEF ObjectsStay
  <2> QED BY <1>5, <1>7, <2>1, <2>2 DEF Gone, SlotsTakeNew
\* A thread on a layer after the step, and what its request came after.
<1>9. ASSUME NEW u \in Workers, workers'[u].pc \notin WithoutLayer
      PROVE  /\ workers[u].pc # "idle" /\ workers'[u].request = workers[u].request
             /\ answers'[workers'[u].request].after = answers[workers[u].request].after
             /\ answers[workers[u].request].after \subseteq Answered
             /\ \/ workers'[u].layer = cache'
                \/ workers[u].pc \notin WithoutLayer /\ workers'[u].layer = workers[u].layer
  <2>1. /\ workers[u].pc # "idle" /\ workers'[u].request = workers[u].request
        /\ \/ workers'[u].layer = cache'
           \/ workers[u].pc \notin WithoutLayer /\ workers'[u].layer = workers[u].layer
    BY <1>2, <1>9 DEF MovesOn, WithoutLayer
  <2>2. workers[u].request \in DOMAIN answers
    BY <1>3, <2>1
  <2> QED BY <1>1, <2>1, <2>2, HistoryStays DEF AnswersStay
<1>10. CASE workers[w].pc # "idle" /\ k = q
  <2>1. Gone(i)' \/ answers'[i].layer < cache'
    BY <1>5, <1>10 DEF AnswerFits
  <2>2. k \notin Answered
    BY <1>3, <1>10 DEF Answered
  <2>3. \A u \in Workers : PassedBy(i, k, workers[u])'
    BY <1>9, <2>2 DEF PassedBy
  <2> QED BY <2>1, <2>3 DEF LeftBehind
<1>11. CASE ~ (workers[w].pc # "idle" /\ k = q)
  <2>1. answers[k].kind = "reset"
    BY <1>4, <1>11 DEF AnswersOnly
  <2>2. Gone(i) \/ LeftBehind(i, k)
    BY <1>4, <1>5, <2>1 DEF HistoryInv, ResetsHeld
  <2>3. ASSUME LeftBehind(i, k)
        PROVE  LeftBehind(i, k)'
    <3>1. answers'[i].layer < cache'
      BY <1>1, <1>5, <1>7, <2>3 DEF LeftBehind
    <3>2. \A u \in Workers : PassedBy(i, k, workers[u])'
      BY <1>5, <1>9, <2>3, <3>1 DEF PassedBy, LeftBehind
    <3> QED BY <3>1, <3>2 DEF LeftBehind
  <2> QED BY <1>8, <2>2, <2>3
<1> QED BY <1>10, <1>11

LEMMA AnswersKeepFresh ==
  ASSUME HistoryInv, NEW w \in Workers, AnswersStay, AnswersOnly(w), NewOnesPend,
         NEW q, q = workers[w].request, workers[w].pc # "idle" => AnswerFits(q)
  PROVE  AnswersFresh'
<1> SUFFICES ASSUME NEW j \in DOMAIN answers', answers'[j].kind = "answered", NEW i \in Forgotten(j)'
             PROVE  /\ answers'[i].runtime # answers'[j].runtime
                    /\ answers'[i].mid # answers'[j].mid
  BY DEF AnswersFresh
<1>1. j \in DOMAIN answers
  BY DEF NewOnesPend
<1>2. i \in Forgotten(j) /\ answers'[i] = answers[i]
  BY <1>1, HistoryStays DEF HistoryInv
<1>3. CASE workers[w].pc # "idle" /\ j = q
  BY <1>2, <1>3 DEF AnswerFits
<1>4. CASE ~ (workers[w].pc # "idle" /\ j = q)
  <2>1. answers'[j] = answers[j]
    BY <1>1, <1>4 DEF AnswersOnly
  <2> QED BY <1>1, <1>2, <2>1 DEF HistoryInv, AnswersFresh
<1> QED BY <1>3, <1>4

\* The invariant after a step of one thread.
LEMMA HistoryStep ==
  ASSUME HistoryInv, PublicInv', NEW w \in Workers, NEW v, workers' = [workers EXCEPT ![w] = v],
         ThreadOK(v)', AnswersStay, AnswersOnly(w), NewOnesPend, SlotsTakeNew, ObjectsStay,
         MovesOn(w, v), cache <= cache', LayersCounted', MemoriesTrue', PlacesTrue',
         NEW q, q = workers[w].request, workers[w].pc # "idle" => AnswerFits(q)
  PROVE  HistoryInv'
<1>1. cache' \in Nat
  BY DEF PublicInv, Shape
<1>2. RecordsOK'
  BY RecordsKeep
<1>3. ThreadsOK'
  BY ThreadsKeep
<1>4. ResetsHeld'
  BY <1>1, ResetsKeep
<1>5. AnswersFresh'
  BY AnswersKeepFresh
<1> QED BY <1>2, <1>3, <1>4, <1>5 DEF HistoryInv

-----------------------------------------------------------------------------
\* A slot of an edited layer keeps its object, is emptied or takes a new one.
SlotFits(before, after, objects, more) == after \in {before, 0} \union (more \ objects)

EditFits(l, e) ==
  /\ {"session", "memory"} \subseteq DOMAIN e
  /\ DOMAIN e.memory = Conversations
  /\ \A c \in Conversations :
       /\ SlotFits(layers[l].session[c], e.session[c], DOMAIN runtimes, DOMAIN runtimes')
       /\ SlotFits(layers[l].memory[c], e.memory[c], DOMAIN memories, DOMAIN memories')

ObjectsGrow ==
  /\ DOMAIN runtimes \subseteq DOMAIN runtimes'
  /\ DOMAIN memories \subseteq DOMAIN memories' /\ List(memories')

LEMMA NoneIsZero ==
  ASSUME HistoryInv
  PROVE  0 \notin DOMAIN runtimes /\ 0 \notin DOMAIN memories
<1>1. List(runtimes) /\ List(memories)
  BY DEF HistoryInv, LayersCounted, PublicInv, Shape
<1>2. /\ DOMAIN runtimes = 1..Len(runtimes) /\ Len(runtimes) \in Nat
      /\ DOMAIN memories = 1..Len(memories) /\ Len(memories) \in Nat
  BY <1>1, ListIsSeq
<1> QED BY <1>2

LEMMA LayerEdit ==
  ASSUME HistoryInv, NEW l \in DOMAIN layers, NEW e, layers' = [layers EXCEPT ![l] = e],
         EditFits(l, e), ObjectsGrow, cache' = cache
  PROVE  SlotsTakeNew /\ ObjectsStay /\ LayersCounted' /\ MemoriesTrue' /\ PlacesTrue'
<1>1. List(layers) /\ DOMAIN layers = 1..cache
  BY DEF HistoryInv, PublicInv, Shape, LayersCounted
<1>2. /\ DOMAIN layers' = DOMAIN layers /\ layers'[l] = e
      /\ \A k \in DOMAIN layers : k # l => layers'[k] = layers[k]
  BY <1>1, ListExcept
<1>3. ObjectsStay
  BY <1>2 DEF ObjectsStay, ObjectsGrow
<1>4. \A c \in Conversations :
        /\ e.session[c] \in DOMAIN runtimes => layers[l].session[c] = e.session[c]
        /\ e.memory[c] \in DOMAIN memories => layers[l].memory[c] = e.memory[c]
  BY NoneIsZero DEF EditFits, SlotFits
<1>5. SlotsTakeNew
  BY <1>2, <1>4 DEF SlotsTakeNew
<1>6. LayersCounted'
  BY <1>1, <1>2 DEF LayersCounted, ObjectsGrow
<1>7. \A k \in DOMAIN layers, c \in Conversations :
        /\ layers[k].session[c] # 0 => layers[k].session[c] \in DOMAIN runtimes
        /\ layers[k].memory[c] # 0 => layers[k].memory[c] \in DOMAIN memories
  BY DEF HistoryInv, PlacesTrue, RuntimeAt, MemoryAt
<1>8. MemoriesTrue'
  <2>1. MemoriesIn(layers[l])'
    BY <1>2, <1>7 DEF MemoriesIn, EditFits, SlotFits, ObjectsGrow
  <2>2. ASSUME NEW k \in DOMAIN layers, k # l
        PROVE  MemoriesIn(layers[k])'
    BY <1>2, <2>2 DEF HistoryInv, MemoriesTrue, MemoriesIn, ObjectsGrow
  <2> QED BY <1>2, <2>1, <2>2 DEF MemoriesTrue
<1>9. ASSUME NEW k \in DOMAIN layers, NEW c \in Conversations
      PROVE  /\ layers'[k].session[c] \notin {0} \union DOMAIN runtimes =>
                  k = l /\ layers'[k].session[c] \in DOMAIN runtimes'
             /\ layers'[k].memory[c] \notin {0} \union DOMAIN memories =>
                  k = l /\ layers'[k].memory[c] \in DOMAIN memories'
  <2>1. CASE k = l
    BY <1>2, <1>7, <2>1 DEF EditFits, SlotFits
  <2>2. CASE k # l
    BY <1>2, <1>7, <2>2
  <2> QED BY <2>1, <2>2
<1>10. ASSUME NEW k \in DOMAIN layers, NEW c \in Conversations, NEW x,
              x = layers'[k].session[c], x # 0
       PROVE  RuntimeAt(x, k)'
  <2>1. CASE x \in DOMAIN runtimes
    <3>1. layers[k].session[c] = x
      BY <1>2, <1>5, <1>10, <2>1 DEF SlotsTakeNew
    <3>2. RuntimeAt(x, k)
      BY <1>10, <3>1 DEF HistoryInv, PlacesTrue
    <3> QED BY <1>3, <1>5, <3>2, PlacesStay
  <2>2. CASE x \notin DOMAIN runtimes
    BY <1>2, <1>9, <1>10, <2>2 DEF RuntimeAt
  <2> QED BY <2>1, <2>2
<1>11. ASSUME NEW k \in DOMAIN layers, NEW c \in Conversations, NEW x,
              x = layers'[k].memory[c], x # 0
       PROVE  MemoryAt(x, k)'
  <2>1. CASE x \in DOMAIN memories
    <3>1. layers[k].memory[c] = x
      BY <1>2, <1>5, <1>11, <2>1 DEF SlotsTakeNew
    <3>2. MemoryAt(x, k)
      BY <1>11, <3>1 DEF HistoryInv, PlacesTrue
    <3> QED BY <1>3, <1>5, <3>2, PlacesStay
  <2>2. CASE x \notin DOMAIN memories
    BY <1>2, <1>9, <1>11, <2>2 DEF MemoryAt
  <2> QED BY <2>1, <2>2
<1>12. PlacesTrue'
  BY <1>2, <1>10, <1>11 DEF PlacesTrue, RuntimeAt, MemoryAt
<1> QED BY <1>3, <1>5, <1>6, <1>8, <1>12

\* The steps that answer nobody.
LEMMA UnansweredStep ==
  ASSUME HistoryInv, PublicInv', NEW w \in Workers, NEW v, workers' = [workers EXCEPT ![w] = v],
         ThreadOK(v)', UNCHANGED answers, SlotsTakeNew, ObjectsStay,
         MovesOn(w, v), cache <= cache', LayersCounted', MemoriesTrue', PlacesTrue'
  PROVE  HistoryInv'
<1> PICK q : q = workers[w].request
  OBVIOUS
<1>1. AnswersStay /\ AnswersOnly(w) /\ NewOnesPend
  BY DEF AnswersStay, AnswersOnly, NewOnesPend, Answered
<1>2. workers[w].pc # "idle" => AnswerFits(q)
  <2> SUFFICES ASSUME workers[w].pc # "idle"
               PROVE  AnswerFits(q)
    OBVIOUS
  <2>1. q \in DOMAIN answers /\ answers[q].kind = "pending"
    BY DEF HistoryInv, PublicInv, WorkersOK, WorkerOK, HoldsRequest, ThreadsOK, ThreadOK, IsPending
  <2>2. RecordOK(answers[q])'
    BY <2>1 DEF HistoryInv, RecordsOK, RecordOK, Answered
  <2> QED BY <2>1, <2>2 DEF AnswerFits
<1> QED BY <1>1, <1>2, HistoryStep

\* The steps that move a thread and make or change no layer and no memory.
LEMMA QuietStep ==
  ASSUME HistoryInv, PublicInv', NEW w \in Workers, NEW v, workers' = [workers EXCEPT ![w] = v],
         ThreadOK(v), MovesOn(w, v), UNCHANGED <<cache, layers, memories, answers>>,
         DOMAIN runtimes' = DOMAIN runtimes
  PROVE  HistoryInv'
<1>1. SlotsTakeNew /\ ObjectsStay
  BY DEF SlotsTakeNew, ObjectsStay
<1>2. ThreadOK(v)'
  <2>1. \A q : PriorTurns(q)' = PriorTurns(q) /\ PriorResets(q)' = PriorResets(q)
    BY DEF PriorTurns, PriorResets
  <2>2. \A q : Forgotten(q)' = Forgotten(q)
    BY <2>1 DEF Forgotten
  <2>3. \A x, l : (RuntimeAt(x, l) => RuntimeAt(x, l)') /\ (MemoryAt(x, l) => MemoryAt(x, l)')
    BY <1>1, PlacesStay
  <2> QED BY <2>1, <2>2, <2>3
          DEF ThreadOK, IsPending, OnLaterLayer, HasForgotten, MemoryFresh, RuntimeFresh
<1>3. LayersCounted' /\ MemoriesTrue' /\ PlacesTrue' /\ cache <= cache'
  BY DEF HistoryInv, PublicInv, Shape, LayersCounted, MemoriesTrue, MemoriesIn, PlacesTrue, RuntimeAt,
     MemoryAt
<1> QED BY <1>1, <1>2, <1>3, UnansweredStep

\* The steps that answer.
LEMMA AnsweredStep ==
  ASSUME HistoryInv, PublicInv', NEW w \in Workers, workers[w].pc # "idle",
         NEW answer, Answer(w, answer), "kind" \in DOMAIN answer, answer.kind # "pending",
         "conv" \notin DOMAIN answer, "after" \notin DOMAIN answer,
         UNCHANGED cache, SlotsTakeNew, ObjectsStay, LayersCounted', MemoriesTrue', PlacesTrue',
         NEW q, q = workers[w].request,
         answer.kind = "reset" =>
           \A i \in PriorTurns(q) : Gone(i)' \/ answers[i].layer < cache,
         answer.kind = "answered" =>
           /\ {"runtime", "mid", "layer"} \subseteq DOMAIN answer
           /\ answer.layer \in DOMAIN layers
           /\ RuntimeAt(answer.runtime, answer.layer) /\ MemoryAt(answer.mid, answer.layer)
           /\ \A i \in Forgotten(q) : /\ answers[i].runtime # answer.runtime
                                      /\ answers[i].mid # answer.mid
  PROVE  HistoryInv'
<1> PICK a : a = Extend(answers[q], answer)
  OBVIOUS
<1>1. /\ q \in DOMAIN answers /\ answers[q].kind = "pending" /\ RecordOK(answers[q])
      /\ List(answers)
  BY DEF HistoryInv, PublicInv, Shape, WorkersOK, WorkerOK, HoldsRequest, ThreadsOK, ThreadOK,
     IsPending, RecordsOK
<1>2. answers' = [answers EXCEPT ![q] = a] /\ workers' = [workers EXCEPT ![w] = Idle]
  BY DEF Answer
<1>3. /\ DOMAIN answers' = DOMAIN answers /\ answers'[q] = a
      /\ \A i \in DOMAIN answers : i # q => answers'[i] = answers[i]
  BY <1>1, <1>2, ListExcept
<1>4. /\ {"conv", "kind", "after"} \subseteq DOMAIN a
      /\ a.conv = answers[q].conv /\ a.after = answers[q].after /\ a.kind = answer.kind
  BY <1>1 DEF Extend, RecordOK
<1>5. {"runtime", "mid", "layer"} \subseteq DOMAIN answer =>
        /\ {"runtime", "mid", "layer"} \subseteq DOMAIN a
        /\ a.runtime = answer.runtime /\ a.mid = answer.mid /\ a.layer = answer.layer
  BY DEF Extend
<1>6. q \notin Answered /\ Answered \subseteq DOMAIN answers /\ Answered \subseteq Answered'
  BY <1>1, <1>3 DEF Answered
<1>7. AnswersStay
  BY <1>3, <1>4, <1>6 DEF AnswersStay
<1>8. AnswersOnly(w) /\ NewOnesPend
  BY <1>3 DEF AnswersOnly, NewOnesPend
<1>9. \A i \in PriorTurns(q) \union Forgotten(q) : answers'[i] = answers[i]
  BY <1>1, <1>7, HistoryStays DEF HistoryInv
<1>10. AnswerFits(q)
  <2>1. a.after \subseteq Answered' /\ a.conv \in Conversations
    BY <1>1, <1>4, <1>6 DEF RecordOK
  <2>2. ASSUME a.kind = "answered"
        PROVE  /\ {"runtime", "mid", "layer"} \subseteq DOMAIN a /\ a.layer \in DOMAIN layers'
               /\ RuntimeAt(a.runtime, a.layer)' /\ MemoryAt(a.mid, a.layer)'
               /\ \A i \in Forgotten(q) : /\ answers'[i].runtime # a.runtime
                                          /\ answers'[i].mid # a.mid
    <3>1. /\ {"runtime", "mid", "layer"} \subseteq DOMAIN a
          /\ a.layer \in DOMAIN layers
          /\ RuntimeAt(a.runtime, a.layer) /\ MemoryAt(a.mid, a.layer)
      BY <1>4, <1>5, <2>2
    <3>2. RuntimeAt(a.runtime, a.layer)' /\ MemoryAt(a.mid, a.layer)'
      BY <3>1, PlacesStay
    <3> QED BY <1>4, <1>5, <1>9, <2>2, <3>1, <3>2 DEF ObjectsStay
  <2>3. RecordOK(a)'
    BY <1>4, <2>1, <2>2 DEF RecordOK
  <2>4. RecordOK(answers[q])'
    BY <1>3, <2>3 DEF RecordOK, RuntimeAt, MemoryAt
  <2> QED BY <1>3, <1>4, <1>9, <2>2, <2>4 DEF AnswerFits
<1>11. ThreadOK(Idle)' /\ MovesOn(w, Idle)
  BY DEF Idle, MovesOn, ThreadOK, IsPending, OnLaterLayer, HasForgotten, MemoryFresh, RuntimeFresh,
     WithoutLayer, WithMemory, WithRuntime, Shadowing
<1>12. cache <= cache'
  BY DEF HistoryInv, PublicInv, Shape
<1> QED BY <1>2, <1>7, <1>8, <1>10, <1>11, <1>12, HistoryStep

-----------------------------------------------------------------------------
LEMMA ReceiveHistory ==
  ASSUME HistoryInv, NEW w \in Workers, Receive(w)
  PROVE  HistoryInv'
<1>1. PICK c \in setting.conversations, input \in setting.inputs :
        /\ workers' = [workers EXCEPT ![w] =
              [pc |-> "layer", request |-> received + 1, conv |-> c, input |-> input]]
        /\ answers' = Append(answers,
              [conv |-> c, kind |-> "pending", action |-> input.action, after |-> Answered])
  BY DEF Receive
<1>2. PICK v, new, q :
        /\ v = [pc |-> "layer", request |-> received + 1, conv |-> c, input |-> input]
        /\ new = [conv |-> c, kind |-> "pending", action |-> input.action, after |-> Answered]
        /\ q = workers[w].request
  OBVIOUS
<1>3. /\ workers[w].pc = "idle" /\ UNCHANGED <<setting, cache, layers, memories, runtimes>>
      /\ workers' = [workers EXCEPT ![w] = v] /\ answers' = Append(answers, new)
  BY <1>1, <1>2 DEF Receive
<1>4. /\ v.pc = "layer" /\ v.request = received + 1
      /\ {"conv", "kind", "after"} \subseteq DOMAIN new
      /\ new.conv = c /\ new.kind = "pending" /\ new.after = Answered
  BY <1>2
<1>5. List(answers) /\ received = Len(answers) /\ c \in Conversations
  BY PublicAssumption DEF HistoryInv, PublicInv, Shape
<1>6. /\ DOMAIN answers' = DOMAIN answers \union {received + 1} /\ received + 1 \notin DOMAIN answers
      /\ answers'[received + 1] = new /\ \A i \in DOMAIN answers : answers'[i] = answers[i]
  BY <1>3, <1>5, ListAppend
<1>7. AnswersStay /\ AnswersOnly(w)
  BY <1>6 DEF AnswersStay, AnswersOnly, Answered
<1>8. NewOnesPend
  <2>1. Answered \subseteq Answered'
    BY <1>6 DEF Answered
  <2>2. RecordOK(new)'
    BY <1>4, <1>5, <2>1 DEF RecordOK
  <2> QED BY <1>4, <1>6, <2>2 DEF NewOnesPend, RecordOK
<1>9. ThreadOK(v)' /\ MovesOn(w, v)
  BY <1>4, <1>6 DEF MovesOn, ThreadOK, IsPending, OnLaterLayer, HasForgotten, MemoryFresh,
     RuntimeFresh, WithoutLayer, WithMemory, WithRuntime, Shadowing
<1>10. SlotsTakeNew /\ ObjectsStay
  BY <1>3 DEF SlotsTakeNew, ObjectsStay
<1>11. LayersCounted' /\ MemoriesTrue' /\ PlacesTrue' /\ cache <= cache'
  BY <1>3 DEF HistoryInv, PublicInv, Shape, LayersCounted, MemoriesTrue, MemoriesIn, PlacesTrue,
     RuntimeAt, MemoryAt
<1>12. PublicInv'
  BY ReceiveKeeps DEF HistoryInv
<1> QED BY <1>2, <1>3, <1>7, <1>8, <1>9, <1>10, <1>11, <1>12, HistoryStep

LEMMA LookupHistory ==
  ASSUME HistoryInv, NEW w \in Workers, LookupLayer(w)
  PROVE  HistoryInv'
<1>1. /\ PublicInv /\ PublicInv' /\ ThreadOK(workers[w]) /\ workers[w].pc = "layer"
      /\ UNCHANGED <<cache, layers, memories, runtimes, answers>>
  BY LookupKeeps DEF HistoryInv, ThreadsOK, LookupLayer
<1>2. /\ {"pc", "request", "conv", "input"} \subseteq DOMAIN workers[w]
      /\ workers[w].request \in DOMAIN answers
  BY <1>1, AtWork
<1>3. CASE cache = 0
  <2> PICK v : v = [workers[w] EXCEPT !.pc = "build"]
    OBVIOUS
  <2>1. workers' = [workers EXCEPT ![w] = v] /\ v.pc = "build" /\ v.request = workers[w].request
    BY <1>2, <1>3 DEF LookupLayer
  <2>2. ThreadOK(v) /\ MovesOn(w, v)
    BY <1>1, <2>1 DEF MovesOn, ThreadOK, IsPending, OnLaterLayer, HasForgotten, MemoryFresh,
       RuntimeFresh, WithoutLayer, WithMemory, WithRuntime, Shadowing
  <2> QED BY <1>1, <2>1, <2>2, QuietStep
<1>4. CASE cache # 0
  <2> PICK next : next = IF workers[w].input.action = "reset_conversation" THEN "forget" ELSE "start"
    OBVIOUS
  <2> PICK v : v = Extend(workers[w], [pc |-> next, layer |-> cache])
    OBVIOUS
  <2>1. workers' = [workers EXCEPT ![w] = v]
    BY <1>4 DEF LookupLayer
  <2>2. /\ v.pc \in {"forget", "start"} /\ v.layer = cache /\ v.request = workers[w].request
    BY <1>2 DEF Extend
  <2>3. \A i \in PriorTurns(v.request) : answers[i].layer <= cache
    <3> SUFFICES ASSUME NEW i \in PriorTurns(workers[w].request)
                 PROVE  answers[i].layer <= cache
      BY <2>2
    <3>1. answers[i].layer \in DOMAIN layers
      BY <1>2 DEF HistoryInv, RecordsOK, RecordOK, PriorTurns, Answered
    <3> QED BY <3>1 DEF HistoryInv, LayersCounted, PublicInv, Shape
  <2>4. ThreadOK(v) /\ MovesOn(w, v)
    BY <1>1, <2>2, <2>3 DEF MovesOn, ThreadOK, IsPending, OnLaterLayer, HasForgotten, MemoryFresh,
       RuntimeFresh, WithoutLayer, WithMemory, WithRuntime, Shadowing
  <2> QED BY <1>1, <2>1, <2>4, QuietStep
<1> QED BY <1>3, <1>4

LEMMA CheckHistory ==
  ASSUME HistoryInv, NEW w \in Workers, CheckSession(w)
  PROVE  HistoryInv'
<1> PICK next : next = IF LayerOf(w).session[Conv(w)] = 0 THEN "create" ELSE "fetch"
  OBVIOUS
<1> PICK v : v = [workers[w] EXCEPT !.pc = next]
  OBVIOUS
<1>1. /\ PublicInv /\ PublicInv' /\ ThreadOK(workers[w]) /\ workers[w].pc = "session"
      /\ UNCHANGED <<cache, layers, memories, runtimes, answers>>
      /\ workers' = [workers EXCEPT ![w] = v]
  BY CheckKeeps DEF HistoryInv, ThreadsOK, CheckSession
<1>2. /\ "pc" \in DOMAIN workers[w] /\ "layer" \in DOMAIN workers[w]
  BY <1>1, AtWork, OnLayer
<1>3. /\ v.pc \in {"create", "fetch"} /\ DOMAIN v = DOMAIN workers[w]
      /\ v.layer = workers[w].layer /\ v.request = workers[w].request /\ v.mid = workers[w].mid
  BY <1>2
<1>4. ThreadOK(v) /\ MovesOn(w, v)
  BY <1>1, <1>3 DEF MovesOn, ThreadOK, IsPending, OnLaterLayer, HasForgotten, MemoryFresh,
     RuntimeFresh, WithoutLayer, WithMemory, WithRuntime, Shadowing
<1> QED BY <1>1, <1>4, QuietStep

\* The turn adds its outcome to what its thread holds.
LEMMA TurnHistory ==
  ASSUME HistoryInv, NEW w \in Workers, RunTurn(w)
  PROVE  HistoryInv'
<1>1. /\ PublicInv /\ PublicInv' /\ ThreadOK(workers[w]) /\ workers[w].pc = "turn"
      /\ UNCHANGED <<cache, layers, memories, answers>>
  BY RunKeeps, Zenon DEF HistoryInv, ThreadsOK, RunTurn
<1>2. DOMAIN runtimes' = DOMAIN runtimes
  BY DEF RunTurn
<1>3. PICK outcome : workers' = [workers EXCEPT ![w] =
                                   Extend(workers[w], [pc |-> "shadow", outcome |-> outcome])]
  BY DEF RunTurn
<1> PICK v : v = Extend(workers[w], [pc |-> "shadow", outcome |-> outcome])
  OBVIOUS
<1>4. /\ workers[w].pc \in WithMemory /\ workers[w].pc \in WithRuntime /\ workers[w].pc \notin WithoutLayer
      /\ {"request", "layer", "mid", "runtime"} \subseteq DOMAIN workers[w]
  BY <1>1, AtWork, OnLayer
     DEF ThreadOK, MemoryFresh, RuntimeFresh, WithMemory, WithRuntime, WithoutLayer, Shadowing
<1>5. /\ v.pc = "shadow" /\ {"mid", "runtime"} \subseteq DOMAIN v
      /\ v.layer = workers[w].layer /\ v.request = workers[w].request
      /\ v.mid = workers[w].mid /\ v.runtime = workers[w].runtime
  BY <1>4 DEF Extend
<1>6. ThreadOK(v) /\ MovesOn(w, v)
  BY <1>1, <1>4, <1>5 DEF MovesOn, ThreadOK, IsPending, OnLaterLayer, HasForgotten, MemoryFresh,
     RuntimeFresh, WithoutLayer
<1>7. workers' = [workers EXCEPT ![w] = v]
  BY <1>3
<1> QED BY <1>1, <1>2, <1>6, <1>7, QuietStep, Zenon

-----------------------------------------------------------------------------
\* What is known of a turn that was answered before a request came.
LEMMA PriorKnown ==
  ASSUME HistoryInv, NEW q \in DOMAIN answers, NEW i \in PriorTurns(q) \union Forgotten(q)
  PROVE  /\ i \in Answered /\ i \in DOMAIN answers /\ answers[i].kind = "answered"
         /\ answers[i].conv = answers[q].conv
         /\ answers[i].layer \in DOMAIN layers
         /\ RuntimeAt(answers[i].runtime, answers[i].layer)
         /\ MemoryAt(answers[i].mid, answers[i].layer)
<1>1. \A k \in DOMAIN answers : answers[k].after \subseteq DOMAIN answers /\ answers[k].after \subseteq Answered
  BY DEF HistoryInv, RecordsOK, RecordOK, Answered
<1>2. i \in Answered /\ answers[i].kind = "answered" /\ answers[i].conv = answers[q].conv
  BY <1>1 DEF PriorTurns, PriorResets, Forgotten
<1>3. i \in DOMAIN answers
  BY <1>2 DEF Answered
<1> QED BY <1>2, <1>3 DEF HistoryInv, RecordsOK, RecordOK

\* A request never finds in its layer what its conversation has forgotten.
LEMMA CurrentFresh ==
  ASSUME HistoryInv, NEW w \in Workers, workers[w].pc \notin WithoutLayer,
         NEW i \in Forgotten(workers[w].request)
  PROVE  /\ layers[workers[w].layer].session[workers[w].conv] # answers[i].runtime
         /\ layers[workers[w].layer].memory[workers[w].conv] # answers[i].mid
<1> PICK q, l, c : q = workers[w].request /\ l = workers[w].layer /\ c = workers[w].conv
  OBVIOUS
<1>1. workers[w].pc # "idle" /\ workers[w].pc \notin {"idle", "layer", "build"} /\ PublicInv
  BY DEF WithoutLayer, HistoryInv
<1>2. q \in DOMAIN answers /\ c \in Conversations /\ answers[q].conv = c /\ l \in DOMAIN layers
  BY <1>1, AtWork, OnLayer
<1>3. PICK k \in PriorResets(q) : i \in PriorTurns(k)
  BY DEF Forgotten
<1>4. k \in DOMAIN answers /\ answers[k].kind = "reset" /\ k \in answers[q].after
  BY <1>2, <1>3 DEF PriorResets, HistoryInv, RecordsOK, RecordOK, Answered
<1>5. /\ answers[i].conv = c /\ answers[i].layer \in DOMAIN layers
      /\ RuntimeAt(answers[i].runtime, answers[i].layer) /\ MemoryAt(answers[i].mid, answers[i].layer)
  BY <1>2, PriorKnown
<1>6. Gone(i) \/ LeftBehind(i, k)
  BY <1>3, <1>4 DEF HistoryInv, ResetsHeld
<1>7. LeftBehind(i, k) => answers[i].layer < l
  BY <1>4 DEF LeftBehind, PassedBy
<1>8. l \in Nat
  BY <1>2 DEF HistoryInv, PublicInv, Shape, LayersCounted
<1>9. LeftBehind(i, k) => answers[i].layer # l
  BY <1>7, <1>8
<1> QED BY <1>2, <1>5, <1>6, <1>9 DEF Gone, RuntimeAt, MemoryAt

\* The record of a thread with a layer, and what its layer has of its conversation.
LEMMA LayerKnown ==
  ASSUME HistoryInv, NEW w \in Workers, workers[w].pc \notin WithoutLayer
  PROVE  /\ {"pc", "request", "conv", "input", "layer"} \subseteq DOMAIN workers[w]
         /\ workers[w].pc # "idle" /\ workers[w].request \in DOMAIN answers
         /\ workers[w].conv \in Conversations /\ workers[w].layer \in DOMAIN layers
         /\ answers[workers[w].request].conv = workers[w].conv
         /\ SessionsIn(layers[workers[w].layer]) /\ MemoriesIn(layers[workers[w].layer])
         /\ ThreadOK(workers[w])
<1>1. PublicInv /\ workers[w].pc \notin {"idle", "layer", "build"} /\ workers[w].pc # "idle"
  BY DEF HistoryInv, WithoutLayer
<1> QED BY <1>1, AtWork, OnLayer
        DEF HistoryInv, PublicInv, SessionsTrue, MemoriesTrue, ThreadsOK

LEMMA FetchHistory ==
  ASSUME HistoryInv, NEW w \in Workers, FetchSession(w)
  PROVE  HistoryInv'
<1> PICK r : r = LayerOf(w).session[Conv(w)]
  OBVIOUS
<1> PICK q : q = workers[w].request
  OBVIOUS
<1>1. /\ workers[w].pc = "fetch" /\ PublicInv'
      /\ UNCHANGED <<cache, layers, memories, runtimes>>
      /\ IF r = 0 THEN Answer(w, [kind |-> "key_error"])
         ELSE IF workers[w].action.id \in ObservabilityActions
         THEN Answer(w, [kind |-> "observed", runtime |-> r])
         ELSE /\ workers' = [workers EXCEPT ![w] = Extend(workers[w], [pc |-> "turn", runtime |-> r])]
              /\ UNCHANGED answers
  BY FetchKeeps DEF HistoryInv, FetchSession
<1>2. workers[w].pc \notin WithoutLayer
  BY <1>1 DEF WithoutLayer
<1>3. ASSUME NEW answer, "conv" \notin DOMAIN answer, "after" \notin DOMAIN answer,
             "kind" \in DOMAIN answer, answer.kind \notin {"pending", "reset", "answered"},
             Answer(w, answer)
      PROVE  HistoryInv'
  <2>1. SlotsTakeNew /\ ObjectsStay
    BY <1>1 DEF SlotsTakeNew, ObjectsStay
  <2>2. LayersCounted' /\ MemoriesTrue' /\ PlacesTrue'
    BY <1>1 DEF HistoryInv, LayersCounted, MemoriesTrue, MemoriesIn, PlacesTrue, RuntimeAt, MemoryAt
  <2> QED BY <1>1, <1>3, <2>1, <2>2, AnsweredStep
<1>4. CASE r = 0
  <2> PICK answer : answer = [kind |-> "key_error"]
    OBVIOUS
  <2> QED BY <1>1, <1>3, <1>4
<1>5. CASE r # 0 /\ workers[w].action.id \in ObservabilityActions
  <2> PICK answer : answer = [kind |-> "observed", runtime |-> r]
    OBVIOUS
  <2> QED BY <1>1, <1>3, <1>5
<1>6. CASE r # 0 /\ workers[w].action.id \notin ObservabilityActions
  <2> PICK v : v = Extend(workers[w], [pc |-> "turn", runtime |-> r])
    OBVIOUS
  <2>1. workers' = [workers EXCEPT ![w] = v] /\ UNCHANGED answers
    BY <1>1, <1>6
  <2>2. ThreadOK(workers[w]) /\ workers[w].pc \in WithMemory /\ "mid" \in DOMAIN workers[w]
    BY <1>1, <1>2, LayerKnown DEF ThreadOK, MemoryFresh, WithMemory
  <2>3. /\ v.pc = "turn" /\ v.runtime = r /\ {"mid", "runtime"} \subseteq DOMAIN v
        /\ v.layer = workers[w].layer /\ v.request = workers[w].request /\ v.mid = workers[w].mid
    BY <1>2, <2>2, LayerKnown DEF Extend
  <2>4. RuntimeAt(r, workers[w].layer)
    BY <1>2, <1>6, LayerKnown DEF HistoryInv, PlacesTrue, LayerOf, Conv
  <2>5. \A i \in Forgotten(workers[w].request) : r # answers[i].runtime
    BY <1>2, CurrentFresh DEF LayerOf, Conv
  <2>6. ThreadOK(v)
    BY <1>1, <1>2, <2>2, <2>3, <2>4, <2>5 DEF ThreadOK, IsPending, OnLaterLayer, HasForgotten,
       MemoryFresh, RuntimeFresh, WithoutLayer
  <2>7. MovesOn(w, v)
    BY <1>1, <1>2, <2>3 DEF MovesOn
  <2> QED BY <1>1, <2>1, <2>6, <2>7, QuietStep
<1> QED BY <1>4, <1>5, <1>6

LEMMA BuildHistory ==
  ASSUME HistoryInv, NEW w \in Workers, BuildLayer(w)
  PROVE  HistoryInv'
<1> PICK v : v = [workers[w] EXCEPT !.pc = "layer"]
  OBVIOUS
<1>1. /\ PublicInv /\ PublicInv' /\ workers[w].pc = "build" /\ ThreadOK(workers[w])
      /\ workers' = [workers EXCEPT ![w] = v] /\ layers' = Append(layers, NewLayer)
      /\ cache' = Len(layers) + 1 /\ UNCHANGED <<memories, runtimes, answers>>
  BY BuildKeeps DEF HistoryInv, ThreadsOK, BuildLayer
<1>2. List(layers) /\ DOMAIN layers = 1..cache /\ cache \in Nat /\ List(memories)
  BY <1>1 DEF PublicInv, Shape, HistoryInv, LayersCounted
<1>3. Len(layers) = cache
  BY <1>2, ListIsSeq
<1>4. /\ DOMAIN layers' = DOMAIN layers \union {cache'} /\ cache' \notin DOMAIN layers
      /\ layers'[cache'] = NewLayer /\ \A l \in DOMAIN layers : layers'[l] = layers[l]
  BY <1>1, <1>2, ListAppend
<1>5. /\ {"session", "memory"} \subseteq DOMAIN NewLayer /\ DOMAIN NewLayer.memory = Conversations
      /\ \A c \in Conversations : NewLayer.session[c] = 0 /\ NewLayer.memory[c] = 0
  BY DEF NewLayer
<1>6. SlotsTakeNew /\ ObjectsStay
  BY <1>1, <1>4, <1>5, NoneIsZero DEF SlotsTakeNew, ObjectsStay
<1>7. LayersCounted'
  BY <1>1, <1>2, <1>3, <1>4 DEF LayersCounted
<1>8. MemoriesTrue'
  BY <1>1, <1>4, <1>5 DEF HistoryInv, MemoriesTrue, MemoriesIn
<1>9. PlacesTrue'
  <2> SUFFICES ASSUME NEW l \in DOMAIN layers', NEW c \in Conversations
               PROVE  /\ layers'[l].session[c] # 0 => RuntimeAt(layers[l].session[c], l)'
                      /\ layers'[l].memory[c] # 0 => MemoryAt(layers[l].memory[c], l)'
    BY DEF PlacesTrue
  <2>1. CASE l = cache'
    BY <1>4, <1>5, <2>1
  <2>2. CASE l \in DOMAIN layers
    <3> PICK x, y : x = layers[l].session[c] /\ y = layers[l].memory[c]
      OBVIOUS
    <3>1. layers'[l].session[c] = x /\ layers'[l].memory[c] = y
      BY <1>4, <2>2
    <3>2. (x # 0 => RuntimeAt(x, l)') /\ (y # 0 => MemoryAt(y, l)')
      BY <1>6, <2>2, PlacesStay DEF HistoryInv, PlacesTrue
    <3> QED BY <3>1, <3>2 DEF RuntimeAt, MemoryAt
  <2> QED BY <1>4, <2>1, <2>2
<1>10. ThreadOK(v)' /\ MovesOn(w, v)
  <2>1. v.pc = "layer" /\ v.request = workers[w].request
    BY <1>1, AtWork
  <2> QED BY <1>1, <2>1 DEF MovesOn, ThreadOK, IsPending, OnLaterLayer, HasForgotten, MemoryFresh,
          RuntimeFresh, WithoutLayer, WithMemory, WithRuntime, Shadowing
<1>11. cache <= cache'
  BY <1>1, <1>2, <1>3
<1> QED BY <1>1, <1>6, <1>7, <1>8, <1>9, <1>10, <1>11, UnansweredStep

\* A step of a thread that edits its layer and answers nobody.
LEMMA EditStep ==
  ASSUME HistoryInv, PublicInv', NEW w \in Workers, workers[w].pc \notin WithoutLayer,
         NEW v, workers' = [workers EXCEPT ![w] = v],
         v.layer = workers[w].layer, v.request = workers[w].request,
         NEW l, l = workers[w].layer, NEW e, layers' = [layers EXCEPT ![l] = e], EditFits(l, e),
         ObjectsGrow, UNCHANGED <<cache, answers>>,
         HasForgotten(v)', MemoryFresh(v)', RuntimeFresh(v)'
  PROVE  HistoryInv'
<1>1. l \in DOMAIN layers /\ ThreadOK(workers[w]) /\ workers[w].request \in DOMAIN answers
      /\ workers[w].pc # "idle"
  BY LayerKnown
<1>2. SlotsTakeNew /\ ObjectsStay /\ LayersCounted' /\ MemoriesTrue' /\ PlacesTrue'
  BY <1>1, LayerEdit
<1>3. IsPending(v)' /\ OnLaterLayer(v)'
  BY <1>1 DEF ThreadOK, IsPending, OnLaterLayer, PriorTurns, WithoutLayer
<1>4. ThreadOK(v)'
  BY <1>3 DEF ThreadOK, IsPending, OnLaterLayer, HasForgotten, MemoryFresh, RuntimeFresh
<1>5. MovesOn(w, v) /\ cache <= cache'
  BY <1>1 DEF MovesOn, HistoryInv, PublicInv, Shape
<1> QED BY <1>2, <1>4, <1>5, UnansweredStep

LEMMA CreateHistory ==
  ASSUME HistoryInv, NEW w \in Workers, CreateSession(w)
  PROVE  HistoryInv'
<1> PICK l, c, n : l = workers[w].layer /\ c = workers[w].conv /\ n = Len(runtimes) + 1
  OBVIOUS
<1> PICK v, e : v = [workers[w] EXCEPT !.pc = "fetch"] /\ e = [layers[l] EXCEPT !.session[c] = n]
  OBVIOUS
<1>1. /\ PublicInv' /\ workers[w].pc = "create"
      /\ workers' = [workers EXCEPT ![w] = v] /\ layers' = [layers EXCEPT ![l] = e]
      /\ runtimes' = Append(runtimes, [conv |-> c, turns |-> << >>])
      /\ UNCHANGED <<cache, memories, answers>>
  BY CreateKeeps DEF HistoryInv, CreateSession, Conv
<1>2. workers[w].pc \notin WithoutLayer
  BY <1>1 DEF WithoutLayer
<1>3. /\ l \in DOMAIN layers /\ c \in Conversations /\ SessionsIn(layers[l]) /\ MemoriesIn(layers[l])
      /\ ThreadOK(workers[w]) /\ {"pc", "layer", "request"} \subseteq DOMAIN workers[w]
      /\ List(runtimes) /\ List(memories)
  BY <1>2, LayerKnown DEF HistoryInv, PublicInv, Shape, LayersCounted
<1>4. DOMAIN runtimes' = DOMAIN runtimes \union {n} /\ n \notin DOMAIN runtimes
  BY <1>1, <1>3, ListAppend
<1>5. EditFits(l, e)
  BY <1>1, <1>3, <1>4 DEF EditFits, SlotFits, SessionsIn, MemoriesIn
<1>6. ObjectsGrow
  BY <1>1, <1>3, <1>4 DEF ObjectsGrow
<1>7. /\ v.pc = "fetch" /\ v.layer = l /\ v.request = workers[w].request /\ v.mid = workers[w].mid
      /\ DOMAIN v = DOMAIN workers[w]
  BY <1>3
<1>8. SlotsTakeNew /\ ObjectsStay
  BY <1>1, <1>3, <1>5, <1>6, LayerEdit
<1>9. MemoryFresh(v)'
  <2>1. /\ "mid" \in DOMAIN workers[w] /\ MemoryAt(workers[w].mid, l)
        /\ \A i \in Forgotten(workers[w].request) : workers[w].mid # answers[i].mid
    BY <1>1, <1>3 DEF ThreadOK, MemoryFresh, WithMemory
  <2> PICK m, q : m = workers[w].mid /\ q = workers[w].request
    OBVIOUS
  <2>2. MemoryAt(m, l)'
    BY <1>8, <2>1, PlacesStay
  <2>3. Forgotten(q)' = Forgotten(q)
    BY <1>1 DEF Forgotten, PriorTurns, PriorResets
  <2> QED BY <1>1, <1>7, <2>1, <2>2, <2>3 DEF MemoryFresh
<1>10. HasForgotten(v)' /\ RuntimeFresh(v)'
  BY <1>7 DEF HasForgotten, RuntimeFresh, WithRuntime, Shadowing
<1> QED BY <1>1, <1>2, <1>5, <1>6, <1>7, <1>9, <1>10, EditStep

LEMMA ForgetMemoryHistory ==
  ASSUME HistoryInv, NEW w \in Workers, ForgetMemory(w)
  PROVE  HistoryInv'
<1> PICK l, c : l = workers[w].layer /\ c = workers[w].conv
  OBVIOUS
<1> PICK v, e : v = [workers[w] EXCEPT !.pc = "forget_session"] /\ e = [layers[l] EXCEPT !.memory[c] = 0]
  OBVIOUS
<1>1. /\ PublicInv' /\ workers[w].pc = "forget"
      /\ workers' = [workers EXCEPT ![w] = v] /\ layers' = [layers EXCEPT ![l] = e]
      /\ UNCHANGED <<cache, memories, runtimes, answers>>
  BY ForgetMemoryKeeps DEF HistoryInv, ForgetMemory, Conv
<1>2. workers[w].pc \notin WithoutLayer
  BY <1>1 DEF WithoutLayer
<1>3. /\ l \in DOMAIN layers /\ c \in Conversations /\ SessionsIn(layers[l]) /\ MemoriesIn(layers[l])
      /\ {"pc", "layer", "request", "conv"} \subseteq DOMAIN workers[w]
      /\ workers[w].request \in DOMAIN answers /\ List(layers) /\ List(memories)
  BY <1>2, LayerKnown DEF HistoryInv, PublicInv, Shape, LayersCounted
<1>4. EditFits(l, e)
  BY <1>1, <1>3 DEF EditFits, SlotFits, SessionsIn, MemoriesIn
<1>5. ObjectsGrow
  BY <1>1, <1>3 DEF ObjectsGrow
<1>6. v.pc = "forget_session" /\ v.layer = l /\ v.request = workers[w].request /\ v.conv = c
  BY <1>3
<1>7. HasForgotten(v)'
  <2>1. layers'[l].memory[c] = 0
    <3>1. layers'[l] = e
      BY <1>1, <1>3, ListExcept
    <3> QED BY <1>3, <3>1 DEF MemoriesIn
  <2>2. ASSUME NEW i \in PriorTurns(workers[w].request)
        PROVE  answers[i].mid # 0
    BY <1>3, <2>2, PriorKnown, NoneIsZero DEF MemoryAt
  <2> PICK q : q = workers[w].request
    OBVIOUS
  <2>3. PriorTurns(q)' = PriorTurns(q)
    BY <1>1 DEF PriorTurns
  <2> QED BY <1>1, <1>6, <2>1, <2>2, <2>3 DEF HasForgotten
<1>8. MemoryFresh(v)' /\ RuntimeFresh(v)'
  BY <1>6 DEF MemoryFresh, RuntimeFresh, WithMemory, WithRuntime, Shadowing
<1> QED BY <1>1, <1>2, <1>4, <1>5, <1>6, <1>7, <1>8, EditStep

LEMMA ForgetSessionHistory ==
  ASSUME HistoryInv, NEW w \in Workers, ForgetSession(w)
  PROVE  HistoryInv'
<1> PICK l, c, q : l = workers[w].layer /\ c = workers[w].conv /\ q = workers[w].request
  OBVIOUS
<1> PICK e, answer : e = [layers[l] EXCEPT !.session[c] = 0] /\ answer = [kind |-> "reset"]
  OBVIOUS
<1>1. /\ PublicInv' /\ workers[w].pc = "forget_session" /\ layers' = [layers EXCEPT ![l] = e]
      /\ Answer(w, answer) /\ UNCHANGED <<cache, memories, runtimes>>
  BY ForgetSessionKeeps DEF HistoryInv, ForgetSession, Conv
<1>2. workers[w].pc \notin WithoutLayer
  BY <1>1 DEF WithoutLayer
<1>3. /\ l \in DOMAIN layers /\ c \in Conversations /\ SessionsIn(layers[l]) /\ MemoriesIn(layers[l])
      /\ q \in DOMAIN answers /\ answers[q].conv = c /\ ThreadOK(workers[w]) /\ workers[w].pc # "idle"
      /\ List(layers) /\ List(memories) /\ DOMAIN layers = 1..cache /\ cache \in Nat
  BY <1>2, LayerKnown DEF HistoryInv, PublicInv, Shape, LayersCounted
<1>4. EditFits(l, e) /\ ObjectsGrow
  BY <1>1, <1>3, Zenon DEF EditFits, SlotFits, SessionsIn, MemoriesIn, ObjectsGrow
<1>5. SlotsTakeNew /\ ObjectsStay /\ LayersCounted' /\ MemoriesTrue' /\ PlacesTrue'
  BY <1>1, <1>3, <1>4, LayerEdit
<1>6. layers'[l] = e /\ e.session[c] = 0 /\ e.memory[c] = layers[l].memory[c]
  <2>1. layers'[l] = e
    BY <1>1, <1>3, ListExcept
  <2> QED BY <1>3, <2>1 DEF SessionsIn, MemoriesIn
<1>7. ASSUME NEW i \in PriorTurns(q)
      PROVE  Gone(i)' \/ answers[i].layer < cache
  <2>1. /\ answers[i].conv = c /\ answers[i].layer \in DOMAIN layers
        /\ answers[i].runtime # 0 /\ i # q /\ i \in DOMAIN answers
    BY <1>1, <1>3, <1>7, PriorKnown, NoneIsZero DEF RuntimeAt, Answered, ThreadOK, IsPending
  <2>2. answers[i].layer <= l /\ layers[l].memory[c] # answers[i].mid
    BY <1>1, <1>2, <1>3, <1>7 DEF ThreadOK, OnLaterLayer, HasForgotten
  <2>3. answers'[i] = answers[i]
    <3>1. answers' = [answers EXCEPT ![q] = Extend(answers[q], answer)]
      BY <1>1 DEF Answer
    <3> QED BY <2>1, <3>1
  <2>4. CASE answers[i].layer = l
    <3>1. /\ answers'[i].layer = l /\ answers'[i].conv = c
          /\ answers'[i].runtime # 0 /\ answers'[i].mid # e.memory[c]
      BY <1>6, <2>1, <2>2, <2>3, <2>4
    <3>2. /\ layers'[l].session[c] # answers'[i].runtime
          /\ layers'[l].memory[c] # answers'[i].mid
      BY <1>6, <3>1
    <3> QED BY <3>1, <3>2 DEF Gone
  <2>5. CASE answers[i].layer # l
    <3>1. answers[i].layer \in 1..cache /\ l \in 1..cache
      BY <1>3, <2>1
    <3> QED BY <1>3, <2>2, <2>5, <3>1
  <2> QED BY <2>4, <2>5
<1>8. /\ "kind" \in DOMAIN answer /\ answer.kind = "reset"
      /\ "conv" \notin DOMAIN answer /\ "after" \notin DOMAIN answer
  OBVIOUS
<1> QED BY <1>1, <1>3, <1>5, <1>7, <1>8, AnsweredStep

\* The shadow writes into memories that are there.
LEMMA ShadowMemories ==
  ASSUME NEW w \in Workers, ShadowSteps(w) \/ Finish(w)
  PROVE  memories' = memories \/ \E after : memories' = [memories EXCEPT ![workers[w].mid] = after]
BY Zenon DEF ShadowSteps, RouteShadow, StoreState, UpdateMemory, Decide, Apply, Finish

LEMMA MemoriesStay ==
  ASSUME HistoryInv, NEW w \in Workers, ShadowSteps(w) \/ Finish(w)
  PROVE  List(memories') /\ DOMAIN memories' = DOMAIN memories
<1>1. List(memories)
  BY DEF HistoryInv, LayersCounted
<1>2. CASE memories' = memories
  BY <1>1, <1>2
<1>3. ASSUME NEW after, memories' = [memories EXCEPT ![workers[w].mid] = after]
      PROVE  List(memories') /\ DOMAIN memories' = DOMAIN memories
  <2>1. CASE workers[w].mid \in DOMAIN memories
    BY <1>1, <1>3, <2>1, ListExcept
  <2>2. CASE workers[w].mid \notin DOMAIN memories
    BY <1>1, <1>3, <2>2 DEF List
  <2> QED BY <2>1, <2>2
<1> QED BY <1>2, <1>3, ShadowMemories

LEMMA ShadowHistory ==
  ASSUME HistoryInv, NEW w \in Workers, ShadowSteps(w)
  PROVE  HistoryInv'
<1> PICK l, c : l = workers[w].layer /\ c = workers[w].conv
  OBVIOUS
<1>1. PICK more : Adds(w, more)
  BY ShadowAdds
<1> PICK v : v = Extend(workers[w], more)
  OBVIOUS
<1>2. /\ PublicInv' /\ workers[w].pc \in Shadowing
      /\ UNCHANGED <<setting, cache, runtimes, received, answers>>
      /\ workers' = [workers EXCEPT ![w] = v]
  BY <1>1, ShadowAdds, ShadowKeeps DEF Adds, HistoryInv
<1>3. workers[w].pc \notin WithoutLayer /\ workers[w].pc \in WithMemory \intersect WithRuntime
  BY <1>2 DEF Shadowing, WithoutLayer, WithMemory, WithRuntime
<1>4. /\ l \in DOMAIN layers /\ c \in Conversations /\ SessionsIn(layers[l]) /\ MemoriesIn(layers[l])
      /\ ThreadOK(workers[w]) /\ {"pc", "layer", "request"} \subseteq DOMAIN workers[w]
      /\ List(layers)
  BY <1>3, LayerKnown DEF HistoryInv, PublicInv, Shape
<1>5. PICK e : /\ layers' = [layers EXCEPT ![l] = e] /\ {"session", "memory"} \subseteq DOMAIN e
               /\ e.session = layers[l].session /\ e.memory = layers[l].memory
  <2>1. CASE layers' = layers
    <3>1. layers' = [layers EXCEPT ![l] = layers[l]]
      BY <1>4, <2>1 DEF List
    <3> QED BY <1>4, <3>1 DEF SessionsIn, MemoriesIn
  <2>2. ASSUME NEW versions, layers' = [layers EXCEPT ![l].version[c] = versions]
        PROVE  \E e : /\ layers' = [layers EXCEPT ![l] = e] /\ {"session", "memory"} \subseteq DOMAIN e
                      /\ e.session = layers[l].session /\ e.memory = layers[l].memory
    <3> PICK e : e = [layers[l] EXCEPT !.version[c] = versions]
      OBVIOUS
    <3>1. /\ layers' = [layers EXCEPT ![l] = e] /\ {"session", "memory"} \subseteq DOMAIN e
          /\ e.session = layers[l].session /\ e.memory = layers[l].memory
      BY <1>4, <2>2 DEF SessionsIn, MemoriesIn
    <3> QED BY <3>1
  <2> QED BY <2>1, <2>2, ShadowLayers
<1>6. EditFits(l, e)
  BY <1>4, <1>5 DEF EditFits, SlotFits, MemoriesIn
<1>7. ObjectsGrow
  BY <1>2, MemoriesStay DEF ObjectsGrow
<1>8. SlotsTakeNew /\ ObjectsStay
  BY <1>2, <1>4, <1>5, <1>6, <1>7, LayerEdit
<1>9. /\ {"mid", "runtime"} \subseteq DOMAIN workers[w]
      /\ MemoryAt(workers[w].mid, l) /\ RuntimeAt(workers[w].runtime, l)
      /\ \A i \in Forgotten(workers[w].request) : /\ workers[w].mid # answers[i].mid
                                                  /\ workers[w].runtime # answers[i].runtime
  BY <1>3, <1>4 DEF ThreadOK, MemoryFresh, RuntimeFresh
<1>10. /\ v.pc \in Shadowing /\ v.layer = l /\ v.request = workers[w].request
       /\ {"mid", "runtime"} \subseteq DOMAIN v
       /\ v.mid = workers[w].mid /\ v.runtime = workers[w].runtime
  BY <1>1, <1>4, <1>9 DEF Adds, Extend
<1>11. MemoryFresh(v)' /\ RuntimeFresh(v)'
  <2> PICK m, r, q : m = workers[w].mid /\ r = workers[w].runtime /\ q = workers[w].request
    OBVIOUS
  <2>1. MemoryAt(m, l)' /\ RuntimeAt(r, l)'
    BY <1>8, <1>9, PlacesStay
  <2>2. Forgotten(q)' = Forgotten(q)
    BY <1>2 DEF Forgotten, PriorTurns, PriorResets
  <2>3. MemoryFresh(v)'
    BY <1>2, <1>9, <1>10, <2>1, <2>2 DEF MemoryFresh
  <2>4. RuntimeFresh(v)'
    BY <1>2, <1>9, <1>10, <2>1, <2>2 DEF RuntimeFresh
  <2> QED BY <2>3, <2>4
<1>12. HasForgotten(v)'
  BY <1>10 DEF HasForgotten, Shadowing
<1> QED BY <1>2, <1>3, <1>5, <1>6, <1>7, <1>10, <1>11, <1>12, EditStep

LEMMA FinishHistory ==
  ASSUME HistoryInv, NEW w \in Workers, Finish(w)
  PROVE  HistoryInv'
<1> PICK l, q : l = workers[w].layer /\ q = workers[w].request
  OBVIOUS
<1>1. workers[w].pc = "finish" /\ PublicInv' /\ UNCHANGED <<cache, layers, runtimes>>
  BY FinishKeeps, Zenon DEF HistoryInv, Finish
<1>2. workers[w].pc \notin WithoutLayer
  BY <1>1 DEF WithoutLayer
<1>3. l \in DOMAIN layers /\ workers[w].pc # "idle" /\ ThreadOK(workers[w])
  BY <1>2, LayerKnown
<1>4. List(memories') /\ DOMAIN memories' = DOMAIN memories
  BY MemoriesStay
<1>5. SlotsTakeNew /\ ObjectsStay /\ LayersCounted' /\ MemoriesTrue' /\ PlacesTrue'
  BY <1>1, <1>4 DEF SlotsTakeNew, ObjectsStay, HistoryInv, LayersCounted, MemoriesTrue, MemoriesIn,
     PlacesTrue, RuntimeAt, MemoryAt
<1>6. PICK answer :
        /\ Answer(w, answer) /\ {"kind", "runtime", "mid", "layer"} \subseteq DOMAIN answer
        /\ "conv" \notin DOMAIN answer /\ "after" \notin DOMAIN answer
        /\ answer.kind = "answered" /\ answer.runtime = workers[w].runtime
        /\ answer.mid = workers[w].mid /\ answer.layer = l
  BY FinishAnswers
<1>7. /\ RuntimeAt(workers[w].runtime, l) /\ MemoryAt(workers[w].mid, l)
      /\ \A i \in Forgotten(q) : /\ answers[i].runtime # workers[w].runtime
                                 /\ answers[i].mid # workers[w].mid
  BY <1>1, <1>3 DEF ThreadOK, MemoryFresh, RuntimeFresh, WithMemory, WithRuntime, Shadowing
<1> QED BY <1>1, <1>3, <1>5, <1>6, <1>7, AnsweredStep

LEMMA StartHistory ==
  ASSUME HistoryInv, NEW w \in Workers, Start(w)
  PROVE  HistoryInv'
<1> PICK l, c, q : l = workers[w].layer /\ c = workers[w].conv /\ q = workers[w].request
  OBVIOUS
<1>1. workers[w].pc = "start" /\ PublicInv' /\ UNCHANGED <<cache, runtimes>>
  BY StartKeeps DEF HistoryInv, Start
<1>2. workers[w].pc \notin WithoutLayer
  BY <1>1 DEF WithoutLayer
<1>3. /\ l \in DOMAIN layers /\ c \in Conversations /\ SessionsIn(layers[l]) /\ MemoriesIn(layers[l])
      /\ workers[w].pc # "idle" /\ ThreadOK(workers[w]) /\ q \in DOMAIN answers
      /\ {"pc", "layer", "request"} \subseteq DOMAIN workers[w]
      /\ List(memories) /\ List(layers)
  BY <1>2, LayerKnown DEF HistoryInv, LayersCounted, PublicInv, Shape
<1> DEFINE fresh == layers[l].memory[c] = 0
<1> PICK mid : mid = IF fresh THEN Len(memories) + 1 ELSE layers[l].memory[c]
  OBVIOUS
<1>4. PICK mem, act :
        /\ memories' = IF fresh THEN Append(memories, NewMemory) ELSE memories
        /\ layers' = [layers EXCEPT ![l].memory[c] = mid]
        /\ IF act.enabled
           THEN /\ workers' = [workers EXCEPT ![w] =
                      Extend(workers[w], [pc |-> "session", mid |-> mid, action |-> act])]
                /\ UNCHANGED answers
           ELSE Answer(w, [kind |-> "disabled", plugin |-> mem.plugin, capability |-> act.capability])
  <2> DEFINE mem_ == IF fresh THEN NewMemory ELSE memories[mid]
             act_ == FindAction(workers[w].input.action, mem_.plugin)
  <2>1. /\ memories' = IF fresh THEN Append(memories, NewMemory) ELSE memories
        /\ layers' = [layers EXCEPT ![l].memory[c] = mid]
        /\ IF act_.enabled
           THEN /\ workers' = [workers EXCEPT ![w] =
                      Extend(workers[w], [pc |-> "session", mid |-> mid, action |-> act_])]
                /\ UNCHANGED answers
           ELSE Answer(w, [kind |-> "disabled", plugin |-> mem_.plugin, capability |-> act_.capability])
    BY Zenon DEF Start, LayerOf, Conv
  <2> HIDE DEF mem_, act_
  <2> QED BY <2>1
<1>5. /\ List(memories') /\ DOMAIN memories \subseteq DOMAIN memories'
      /\ fresh => mid \in DOMAIN memories' /\ mid \notin DOMAIN memories
      /\ ~fresh => mid = layers[l].memory[c] /\ mid # 0
  <2>1. CASE fresh
    <3>1. memories' = Append(memories, NewMemory) /\ mid = Len(memories) + 1
      BY <1>4, <2>1
    <3>2. /\ List(memories') /\ DOMAIN memories' = DOMAIN memories \union {mid}
          /\ mid \notin DOMAIN memories
      BY <1>3, <3>1, ListAppend
    <3> QED BY <2>1, <3>2
  <2>2. CASE ~fresh
    <3>1. memories' = memories /\ mid = layers[l].memory[c]
      BY <1>4, <2>2
    <3> QED BY <1>3, <2>2, <3>1
  <2> QED BY <2>1, <2>2
<1> PICK e : e = [layers[l] EXCEPT !.memory[c] = mid]
  OBVIOUS
<1>6. /\ layers' = [layers EXCEPT ![l] = e] /\ {"session", "memory"} \subseteq DOMAIN e
      /\ e.session = layers[l].session /\ DOMAIN e.memory = Conversations /\ e.memory[c] = mid
      /\ \A d \in Conversations : d # c => e.memory[d] = layers[l].memory[d]
  BY <1>3, <1>4 DEF SessionsIn, MemoriesIn
<1>7. ObjectsGrow
  BY <1>1, <1>5 DEF ObjectsGrow
<1>8. EditFits(l, e)
  <2>1. SlotFits(layers[l].memory[c], mid, DOMAIN memories, DOMAIN memories')
    BY <1>5 DEF SlotFits
  <2> QED BY <1>6, <2>1, Zenon DEF EditFits, SlotFits
<1>9. SlotsTakeNew /\ ObjectsStay /\ LayersCounted' /\ MemoriesTrue' /\ PlacesTrue'
  BY <1>1, <1>3, <1>6, <1>7, <1>8, LayerEdit, Zenon
<1>10. CASE act.enabled
  <2> PICK v : v = Extend(workers[w], [pc |-> "session", mid |-> mid, action |-> act])
    OBVIOUS
  <2>1. workers' = [workers EXCEPT ![w] = v] /\ UNCHANGED answers
    BY <1>4, <1>10, Zenon
  <2>2. /\ v.pc = "session" /\ "mid" \in DOMAIN v /\ v.mid = mid
        /\ v.layer = l /\ v.request = q
    BY <1>3 DEF Extend
  <2>3. layers'[l].memory[c] = mid /\ mid # 0
    <3>1. layers'[l] = e
      BY <1>3, <1>6, ListExcept
    <3>2. 0 \notin DOMAIN memories'
      <4>1. DOMAIN memories' = 1..Len(memories') /\ Len(memories') \in Nat
        BY <1>5, ListIsSeq, Zenon
      <4> QED BY <4>1
    <3> QED BY <1>5, <1>6, <3>1, <3>2, Zenon
  <2>4. MemoryAt(mid, l)'
    <3>1. l \in DOMAIN layers'
      BY <1>3, <1>9 DEF ObjectsStay
    <3>2. /\ layers'[l].memory[c] \in DOMAIN memories'
          /\ \A k \in DOMAIN layers', d \in Conversations :
               layers'[k].memory[d] = layers'[l].memory[c] => k = l
      BY <1>3, <1>9, <2>3, <3>1 DEF PlacesTrue, MemoryAt
    <3> QED BY <2>3, <3>2, Zenon DEF MemoryAt
  <2>5. ASSUME NEW i \in Forgotten(q)
        PROVE  mid # answers[i].mid
    <3>1. CASE fresh
      BY <1>3, <1>5, <3>1, PriorKnown DEF MemoryAt
    <3>2. CASE ~fresh
      BY <1>2, <1>5, <3>2, CurrentFresh
    <3> QED BY <3>1, <3>2, Zenon
  <2>6. Forgotten(q)' = Forgotten(q)
    <3>1. \A k : PriorTurns(k)' = PriorTurns(k) /\ PriorResets(k)' = PriorResets(k)
      BY <2>1 DEF PriorTurns, PriorResets
    <3> QED BY <3>1 DEF Forgotten
  <2>7. MemoryFresh(v)'
    <3>1. \A i \in Forgotten(q)' : mid # answers'[i].mid
      BY <2>1, <2>5, <2>6, Zenon
    <3> QED BY <2>2, <2>4, <3>1, Zenon DEF MemoryFresh
  <2>8. HasForgotten(v)' /\ RuntimeFresh(v)'
    BY <2>2, Zenon DEF HasForgotten, RuntimeFresh, WithRuntime, Shadowing
  <2>9. /\ PublicInv' /\ workers' = [workers EXCEPT ![w] = v] /\ layers' = [layers EXCEPT ![l] = e]
        /\ v.layer = workers[w].layer /\ v.request = workers[w].request
        /\ UNCHANGED <<cache, answers>>
    BY <1>1, <1>6, <2>1, <2>2, Zenon
  <2> HIDE DEF fresh
  <2> QED BY <1>2, <1>7, <1>8, <2>7, <2>8, <2>9, EditStep, Zenon
<1>11. CASE ~act.enabled
  <2> PICK answer : answer = [kind |-> "disabled", plugin |-> mem.plugin, capability |-> act.capability]
    OBVIOUS
  <2>1. /\ Answer(w, answer) /\ "kind" \in DOMAIN answer /\ answer.kind = "disabled"
        /\ "conv" \notin DOMAIN answer /\ "after" \notin DOMAIN answer
    BY <1>4, <1>11
  <2> QED BY <1>1, <1>3, <1>9, <2>1, AnsweredStep
<1> QED BY <1>10, <1>11

-----------------------------------------------------------------------------
LEMMA HistoryStart == Init => HistoryInv
<1> SUFFICES ASSUME Init
             PROVE  HistoryInv
  OBVIOUS
<1>1. /\ DOMAIN layers = {} /\ DOMAIN answers = {} /\ List(memories) /\ cache = 0
      /\ \A w \in Workers : workers[w].pc = "idle"
  BY EmptyList DEF Init, Idle
<1>2. LayersCounted
  BY <1>1 DEF LayersCounted
<1>3. ThreadsOK
  BY <1>1 DEF ThreadsOK, ThreadOK, IsPending, OnLaterLayer, HasForgotten, MemoryFresh, RuntimeFresh,
     WithoutLayer, WithMemory, WithRuntime, Shadowing
<1>4. MemoriesTrue /\ PlacesTrue /\ RecordsOK /\ ResetsHeld /\ AnswersFresh
  BY <1>1 DEF MemoriesTrue, PlacesTrue, RecordsOK, ResetsHeld, AnswersFresh
<1> QED BY <1>2, <1>3, <1>4, PublicStart DEF HistoryInv

LEMMA HistoryNext == HistoryInv /\ [Next]_vars => HistoryInv'
<1> SUFFICES ASSUME HistoryInv, [Next]_vars
             PROVE  HistoryInv'
  OBVIOUS
<1>1. CASE UNCHANGED vars
  <2>1. PublicInv'
    BY PublicStep DEF HistoryInv
  <2>2. \A q : PriorTurns(q)' = PriorTurns(q) /\ PriorResets(q)' = PriorResets(q)
    BY <1>1 DEF vars, PriorTurns, PriorResets
  <2>3. \A q : Forgotten(q)' = Forgotten(q)
    BY <2>2 DEF Forgotten
  <2>4. LayersCounted' /\ MemoriesTrue' /\ PlacesTrue' /\ RecordsOK'
    BY <1>1 DEF vars, HistoryInv, LayersCounted, MemoriesTrue, MemoriesIn, PlacesTrue, RuntimeAt,
       MemoryAt, RecordsOK, RecordOK, Answered
  <2>5. ThreadsOK'
    BY <1>1, <2>2, <2>3 DEF vars, HistoryInv, ThreadsOK, ThreadOK, IsPending, OnLaterLayer,
       HasForgotten, MemoryFresh, RuntimeFresh, RuntimeAt, MemoryAt
  <2>6. ResetsHeld'
    BY <1>1, <2>2 DEF vars, HistoryInv, ResetsHeld, Gone, LeftBehind, PassedBy
  <2>7. AnswersFresh'
    BY <1>1, <2>3 DEF vars, HistoryInv, AnswersFresh
  <2> QED BY <2>1, <2>4, <2>5, <2>6, <2>7 DEF HistoryInv
<1>2. ASSUME NEW w \in Workers, Receive(w) \/ Serve(w)
      PROVE  HistoryInv'
  BY <1>2, ReceiveHistory, LookupHistory, BuildHistory, StartHistory, CheckHistory, CreateHistory,
     FetchHistory, TurnHistory, ShadowHistory, FinishHistory, ForgetMemoryHistory,
     ForgetSessionHistory DEF Serve, ShadowSteps
<1> QED BY <1>1, <1>2 DEF Next, Rest

\* Whatever other requests the threads serve meanwhile, and whichever of the layers they
\* built is the cached one, what was answered before a reset is in no runtime and in no
\* memory that answers a request of the conversation accepted after it.
THEOREM ResetsAreFinal == Spec => []ResetForgets
<1>1. HistoryInv => ResetForgets
  <2> SUFFICES ASSUME HistoryInv, NEW i \in DOMAIN answers, NEW k \in DOMAIN answers,
                      NEW j \in DOMAIN answers,
                      answers[k].kind = "reset", answers[k].conv = answers[j].conv,
                      answers[j].kind = "answered", answers[i].kind = "answered",
                      answers[i].conv = answers[j].conv, Before(i, k), Before(k, j)
               PROVE  answers[i].runtime # answers[j].runtime /\ answers[i].mid # answers[j].mid
    BY DEF ResetForgets
  <2>1. k \in PriorResets(j) /\ i \in PriorTurns(k)
    BY DEF Before, PriorResets, PriorTurns
  <2>2. i \in Forgotten(j)
    BY <2>1 DEF Forgotten
  <2> QED BY <2>2 DEF HistoryInv, AnswersFresh
<1> QED BY <1>1, HistoryStart, HistoryNext, PTL DEF Spec

-----------------------------------------------------------------------------
\* The demo endpoint. What is known of a request, whether it is answered or not.
EntryOK(a) ==
  /\ {"conv", "kind", "after", "category", "told", "facts"} \subseteq DOMAIN a
  /\ a.after \subseteq AnsweredTalk
  /\ a.kind \in {"pending", "not_found"} => a.facts = {} /\ a.category = None
  /\ a.kind \in {"pending", "not_found", "answered", "error"}

\* What a thread knows of the request it is at.
JobOK(v) ==
  /\ "pc" \in DOMAIN v
  /\ v.pc \in {"idle", "look", "create", "compose", "execute"}
  /\ v.pc # "idle" =>
       /\ {"request", "conv", "msg", "pack"} \subseteq DOMAIN v
       /\ v.request \in DOMAIN asked
       /\ asked[v.request].kind = "pending" /\ asked[v.request].conv = v.conv

DemoShape ==
  /\ List(asked) /\ \A i \in DOMAIN asked : EntryOK(asked[i])
  /\ DOMAIN jobs = Workers /\ \A w \in Workers : JobOK(jobs[w])
  /\ \A w, u \in Workers :
       (jobs[w].pc # "idle" /\ jobs[u].pc # "idle" /\ jobs[w].request = jobs[u].request) => w = u
  /\ talks = [c \in DOMAIN talks |-> talks[c]]

\* The turns the state of a conversation must have: those composed or answered while no
\* other request of it ran.
Composed(i) ==
  \/ asked[i].kind \in {"answered", "error"}
  \/ \E w \in Workers : jobs[w].pc = "execute" /\ jobs[w].request = i
Counted(c) == {i \in DOMAIN asked : asked[i].conv = c /\ Alone(i) /\ Composed(i)}

\* Those of them that were answered before a request came.
CountedBefore(r) ==
  {i \in asked[r].after : asked[i].conv = asked[r].conv /\ Alone(i)
                          /\ asked[i].kind \in {"answered", "error"}}

TalkOK(talk) == {"turns", "facts"} \subseteq DOMAIN talk /\ talk.turns \in Nat

\* A state holds some turns: it counts as many, and it knows their facts.
Holds(talk, turns) ==
  /\ TalkOK(talk) /\ Cardinality(turns) <= talk.turns
  /\ \A i \in turns : asked[i].facts \subseteq talk.facts

TalksHold ==
  /\ \A i \in DOMAIN asked : Composed(i) => asked[i].conv \in DOMAIN talks
  /\ \A c \in DOMAIN talks : Holds(talks[c], Counted(c))

\* What a thread read still holds what was answered before its request, and a summary
\* that it has composed tells it.
JobHolds(v) ==
  /\ v.pc = "create" => CountedBefore(v.request) = {}
  /\ v.pc = "compose" => v.conv \in DOMAIN talks /\ Holds(v.talk, CountedBefore(v.request))
  /\ v.pc = "execute" =>
       /\ v.out.reply.category = "handoff_summary" =>
            \A i \in CountedBefore(v.request) : asked[i].facts \subseteq v.out.reply.told
       /\ Alone(v.request) => v.out.parse.facts \subseteq talks[v.conv].facts

SummariesTell ==
  \A i \in DOMAIN asked : asked[i].category = "handoff_summary" =>
    \A j \in CountedBefore(i) : asked[j].facts \subseteq asked[i].told

DemoInv ==
  DemoShape /\ TalksHold /\ (\A w \in Workers : JobHolds(jobs[w])) /\ SummariesTell
-----------------------------------------------------------------------------
\* The turns that are counted are finitely many.
LEMMA CountedFinite ==
  ASSUME DemoShape
  PROVE  /\ \A c : IsFiniteSet(Counted(c))
         /\ \A r \in DOMAIN asked : IsFiniteSet(CountedBefore(r))
<1>1. Len(asked) \in Nat /\ DOMAIN asked = 1..Len(asked)
  BY ListIsSeq DEF DemoShape
<1>2. IsFiniteSet(DOMAIN asked)
  BY <1>1, FS_Interval
<1>3. \A c : Counted(c) \subseteq DOMAIN asked
  BY DEF Counted
<1>4. \A r \in DOMAIN asked : CountedBefore(r) \subseteq DOMAIN asked
  BY DEF DemoShape, EntryOK, AnsweredTalk, CountedBefore
<1> QED BY <1>2, <1>3, <1>4, FS_Subset

\* Fewer turns are held as well.
LEMMA HoldsFewer ==
  ASSUME NEW talk, NEW turns, IsFiniteSet(turns), NEW fewer \in SUBSET turns, Holds(talk, turns)
  PROVE  Holds(talk, fewer)
<1>1. IsFiniteSet(fewer) /\ Cardinality(fewer) <= Cardinality(turns)
  BY FS_Subset
<1>2. Cardinality(fewer) \in Nat /\ Cardinality(turns) \in Nat
  BY <1>1, FS_CardinalityType
<1> QED BY <1>1, <1>2 DEF Holds, TalkOK

\* A turn that is counted was answered before the request of the conversation that a
\* thread is about to compose.
LEMMA CountedCameBefore ==
  ASSUME DemoShape, NEW w \in Workers, jobs[w].pc \in {"create", "compose"},
         NEW i \in Counted(jobs[w].conv)
  PROVE  i \in CountedBefore(jobs[w].request)
<1> DEFINE r == jobs[w].request
<1>1. r \in DOMAIN asked /\ asked[r].kind = "pending" /\ asked[r].conv = jobs[w].conv
  BY DEF DemoShape, JobOK
<1>2. i \in DOMAIN asked /\ asked[i].conv = jobs[w].conv /\ Alone(i) /\ Composed(i)
  BY DEF Counted
<1>3. i # r
  BY <1>1, <1>2 DEF Composed, DemoShape
<1>4. r \notin asked[i].after
  BY <1>1, <1>2 DEF DemoShape, EntryOK, AnsweredTalk
<1>5. i \in asked[r].after
  BY <1>1, <1>2, <1>3, <1>4 DEF Alone, Overlap, Earlier
<1>6. asked[i].kind # "pending"
  BY <1>1, <1>5 DEF DemoShape, EntryOK, AnsweredTalk
<1>7. asked[i].kind \in {"answered", "error"}
  BY <1>2, <1>6 DEF Composed, DemoShape, JobOK
<1> QED BY <1>1, <1>2, <1>5, <1>7 DEF CountedBefore

\* At the start nobody has asked and there is no state.
LEMMA DemoStart == DemoInit => DemoInv
<1> SUFFICES ASSUME DemoInit PROVE DemoInv
  OBVIOUS
<1>1. List(asked) /\ DOMAIN asked = {} /\ DOMAIN talks = {} /\ talks = [c \in DOMAIN talks |-> talks[c]]
  BY EmptyList DEF DemoInit
<1>2. DOMAIN jobs = Workers /\ \A w \in Workers : jobs[w].pc = "idle" /\ "pc" \in DOMAIN jobs[w]
  BY DEF DemoInit, Idle
<1>3. DemoShape
  BY <1>1, <1>2 DEF DemoShape, JobOK
<1>4. TalksHold /\ SummariesTell
  BY <1>1 DEF TalksHold, SummariesTell
<1>5. \A w \in Workers : JobHolds(jobs[w])
  BY <1>2 DEF JobHolds
<1> QED BY <1>3, <1>4, <1>5 DEF DemoInv

-----------------------------------------------------------------------------
\* What a step leaves of the requests: one that has its answer stays as it is.
EntriesStay ==
  \A i \in DOMAIN asked :
    /\ i \in DOMAIN asked'
    /\ asked'[i].conv = asked[i].conv /\ asked'[i].after = asked[i].after
    /\ asked[i].kind # "pending" => asked'[i] = asked[i]

\* A request that came alone may be joined by another, and not the other way round.
LEMMA AloneBefore ==
  ASSUME EntriesStay, NEW i \in DOMAIN asked, Alone(i)'
  PROVE  Alone(i)
<1> SUFFICES ASSUME NEW j \in DOMAIN asked, Overlap(i, j) PROVE FALSE
  BY DEF Alone
<1>1. j \in DOMAIN asked' /\ Overlap(i, j)'
  BY DEF EntriesStay, Overlap, Earlier
<1> QED BY <1>1 DEF Alone

\* What is counted before a request only shrinks: requests that come later may overlap.
LEMMA BeforeShrinks ==
  ASSUME DemoShape, EntriesStay, NEW r \in DOMAIN asked
  PROVE  /\ CountedBefore(r)' \subseteq CountedBefore(r)
         /\ \A i \in CountedBefore(r)' : asked'[i] = asked[i]
<1> SUFFICES ASSUME NEW i \in CountedBefore(r)'
             PROVE  i \in CountedBefore(r) /\ asked'[i] = asked[i]
  OBVIOUS
<1>1. /\ asked'[r].after = asked[r].after /\ asked'[r].conv = asked[r].conv
      /\ i \in asked'[r].after /\ asked'[i].conv = asked'[r].conv /\ Alone(i)'
      /\ asked'[i].kind \in {"answered", "error"}
  BY DEF CountedBefore, EntriesStay
<1>2. i \in DOMAIN asked /\ asked[i].kind # "pending"
  BY <1>1 DEF DemoShape, EntryOK, AnsweredTalk
<1>3. asked'[i] = asked[i]
  BY <1>2 DEF EntriesStay
<1>4. Alone(i)
  BY <1>1, <1>2, AloneBefore
<1> QED BY <1>1, <1>3, <1>4 DEF CountedBefore

\* What held the turns before a request goes on holding them.
LEMMA BeforeHolds ==
  ASSUME DemoShape, EntriesStay, NEW r \in DOMAIN asked, NEW talk, Holds(talk, CountedBefore(r))
  PROVE  Holds(talk, CountedBefore(r))'
<1>1. CountedBefore(r)' \in SUBSET CountedBefore(r)
  BY BeforeShrinks
<1>2. IsFiniteSet(CountedBefore(r))
  BY CountedFinite
<1>3. Holds(talk, CountedBefore(r)')
  BY <1>1, <1>2, HoldsFewer
<1>4. \A i \in CountedBefore(r)' : asked'[i] = asked[i]
  BY BeforeShrinks
<1> QED BY <1>3, <1>4 DEF Holds, TalkOK

\* A thread that takes no step, while the state its turn went into is not made worse.
LEMMA OtherHolds ==
  ASSUME DemoShape, EntriesStay, NEW u \in Workers, JobHolds(jobs[u]), jobs'[u] = jobs[u],
         DOMAIN talks \subseteq DOMAIN talks',
         (jobs[u].pc = "execute" /\ Alone(jobs[u].request)) =>
            talks[jobs[u].conv].facts \subseteq talks'[jobs[u].conv].facts
  PROVE  JobHolds(jobs[u])'
<1> DEFINE r == jobs[u].request
<1>1. CASE jobs[u].pc \in {"create", "compose", "execute"}
  <2>1. r \in DOMAIN asked
    BY <1>1 DEF DemoShape, JobOK
  <2>2. /\ CountedBefore(r)' \subseteq CountedBefore(r)
        /\ \A i \in CountedBefore(r)' : asked'[i] = asked[i]
    BY <2>1, BeforeShrinks
  <2>3. Holds(jobs[u].talk, CountedBefore(r)) => Holds(jobs[u].talk, CountedBefore(r))'
    <3> DEFINE talk == jobs[u].talk
    <3>1. talk' = talk /\ r' = r
      OBVIOUS
    <3> HIDE DEF r
    <3>2. \A x : Holds(x, CountedBefore(r)) => (\A y : y = r => Holds(x, CountedBefore(y))')
      BY <2>1, BeforeHolds
    <3> QED BY <3>1, <3>2 DEF Holds, TalkOK
  <2>4. Alone(r)' => Alone(r)
    BY <2>1, AloneBefore
  <2> QED BY <1>1, <2>1, <2>2, <2>3, <2>4 DEF JobHolds
<1>2. CASE jobs[u].pc \notin {"create", "compose", "execute"}
  BY <1>2 DEF JobHolds
<1> QED BY <1>1, <1>2

\* Summaries that were given still tell; a step may give one more.
LEMMA SummariesStay ==
  ASSUME DemoShape, EntriesStay, SummariesTell,
         \A i \in DOMAIN asked' : (asked'[i].category = "handoff_summary"
                                   /\ ~(i \in DOMAIN asked /\ asked[i].kind # "pending")) =>
            \A j \in CountedBefore(i)' : asked'[j].facts \subseteq asked'[i].told
  PROVE  SummariesTell'
<1> SUFFICES ASSUME NEW i \in DOMAIN asked', asked'[i].category = "handoff_summary",
                    i \in DOMAIN asked, asked[i].kind # "pending",
                    NEW j \in CountedBefore(i)'
             PROVE  asked'[j].facts \subseteq asked'[i].told
  BY DEF SummariesTell
<1>1. asked'[i] = asked[i]
  BY DEF EntriesStay
<1>2. j \in CountedBefore(i) /\ asked'[j] = asked[j]
  BY BeforeShrinks
<1> QED BY <1>1, <1>2 DEF SummariesTell

\* The states hold as many turns as before when none is composed.
LEMMA TalksStay ==
  ASSUME DemoShape, EntriesStay, TalksHold, UNCHANGED talks,
         \A i \in DOMAIN asked' : Composed(i)' => i \in DOMAIN asked /\ Composed(i),
         \A c \in DOMAIN talks : \A i \in Counted(c)' : asked'[i].facts \subseteq talks[c].facts
  PROVE  TalksHold'
<1>1. \A c : Counted(c)' \subseteq Counted(c)
  <2> SUFFICES ASSUME NEW c, NEW i \in Counted(c)' PROVE i \in Counted(c)
    OBVIOUS
  <2>1. i \in DOMAIN asked' /\ asked'[i].conv = c /\ Alone(i)' /\ Composed(i)'
    BY DEF Counted
  <2>2. i \in DOMAIN asked /\ Composed(i)
    BY <2>1
  <2>3. asked[i].conv = c /\ Alone(i)
    BY <2>1, <2>2, AloneBefore DEF EntriesStay
  <2> QED BY <2>2, <2>3 DEF Counted
<1>2. \A c \in DOMAIN talks : Holds(talks[c], Counted(c)')
  BY <1>1, CountedFinite, HoldsFewer DEF TalksHold
<1>3. \A c \in DOMAIN talks' : Holds(talks[c], Counted(c))'
  BY <1>2 DEF Holds, TalkOK
<1>4. \A i \in DOMAIN asked' : Composed(i)' => asked'[i].conv \in DOMAIN talks'
  BY DEF TalksHold, EntriesStay
<1> QED BY <1>3, <1>4 DEF TalksHold

-----------------------------------------------------------------------------
\* A thread that goes on with its request.
LEMMA GoesOn ==
  ASSUME DemoShape, NEW w \in Workers, jobs[w].pc # "idle", NEW v,
         jobs' = [jobs EXCEPT ![w] = v],
         {"pc", "request", "conv", "msg", "pack"} \subseteq DOMAIN v,
         v.pc \in {"create", "compose", "execute"},
         v.request = jobs[w].request, v.conv = jobs[w].conv,
         UNCHANGED asked, talks' = [c \in DOMAIN talks' |-> talks'[c]]
  PROVE  /\ DemoShape' /\ EntriesStay
         /\ jobs'[w] = v /\ \A u \in Workers \ {w} : jobs'[u] = jobs[u]
<1>1. /\ DOMAIN jobs' = Workers /\ jobs'[w] = v
      /\ \A u \in Workers \ {w} : jobs'[u] = jobs[u]
  BY DEF DemoShape
<1>2. EntriesStay
  BY DEF EntriesStay
<1>3. /\ v.request \in DOMAIN asked
      /\ asked[v.request].kind = "pending" /\ asked[v.request].conv = v.conv
  BY DEF DemoShape, JobOK
<1>4. \A u \in Workers : JobOK(jobs[u])'
  <2> TAKE u \in Workers
  <2>1. CASE u = w
    BY <1>1, <1>3, <2>1 DEF JobOK
  <2>2. CASE u # w
    BY <1>1, <2>2 DEF JobOK, DemoShape
  <2> QED BY <2>1, <2>2
<1>5. \A u, t \in Workers :
        (jobs'[u].pc # "idle" /\ jobs'[t].pc # "idle" /\ jobs'[u].request = jobs'[t].request) => u = t
  BY <1>1 DEF DemoShape
<1>6. List(asked)' /\ \A i \in DOMAIN asked' : EntryOK(asked[i])'
  <2>1. asked' = asked
    OBVIOUS
  <2>2. AnsweredTalk' = AnsweredTalk
    BY <2>1 DEF AnsweredTalk
  <2>3. List(asked)'
    BY <2>1 DEF DemoShape, List
  <2> QED BY <2>1, <2>2, <2>3 DEF DemoShape, EntryOK
<1> QED BY <1>1, <1>2, <1>4, <1>5, <1>6 DEF DemoShape

\* A request that gets its answer.
LEMMA CloseDoes ==
  ASSUME DemoShape, NEW w \in Workers, jobs[w].pc # "idle", NEW answer, Close(w, answer),
         UNCHANGED talks, "kind" \in DOMAIN answer,
         {"conv", "after"} \cap DOMAIN answer = {},
         \/ DOMAIN answer = {"kind"} /\ answer.kind = "not_found"
         \/ /\ {"category", "told", "facts"} \subseteq DOMAIN answer
            /\ answer.kind \in {"answered", "error"}
  PROVE  /\ DemoShape' /\ EntriesStay /\ DOMAIN asked' = DOMAIN asked
         /\ jobs'[w].pc = "idle" /\ \A u \in Workers \ {w} : jobs'[u] = jobs[u]
         /\ \A i \in DOMAIN asked : i # jobs[w].request => asked'[i] = asked[i]
         /\ \A x \in DOMAIN answer : asked'[jobs[w].request][x] = answer[x]
         /\ "facts" \notin DOMAIN answer => /\ asked'[jobs[w].request].facts = {}
                                           /\ asked'[jobs[w].request].category = None
<1>r. PICK r : r = jobs[w].request
  OBVIOUS
<1>a. PICK a : a = Extend(asked[r], answer)
  OBVIOUS
<1>1. r \in DOMAIN asked /\ asked[r].kind = "pending" /\ EntryOK(asked[r])
  BY <1>r DEF DemoShape, JobOK
<1>2. asked' = [asked EXCEPT ![r] = a] /\ jobs' = [jobs EXCEPT ![w] = Idle]
  BY <1>r, <1>a DEF Close
<1>3. /\ DOMAIN a = DOMAIN asked[r] \union DOMAIN answer
      /\ \A x \in DOMAIN answer : a[x] = answer[x]
      /\ \A x \in DOMAIN asked[r] : x \notin DOMAIN answer => a[x] = asked[r][x]
  <2>1. /\ DOMAIN Extend(asked[r], answer) = DOMAIN asked[r] \union DOMAIN answer
        /\ \A x \in DOMAIN answer : Extend(asked[r], answer)[x] = answer[x]
        /\ \A x \in DOMAIN asked[r] :
             x \notin DOMAIN answer => Extend(asked[r], answer)[x] = asked[r][x]
    BY Extended
  <2> QED BY <1>a, <2>1
<1>4. List(asked)
  BY DEF DemoShape
<1>5. /\ List(asked') /\ DOMAIN asked' = DOMAIN asked /\ asked'[r] = a
      /\ \A i \in DOMAIN asked : i # r => asked'[i] = asked[i]
  BY <1>1, <1>2, <1>4, ListExcept
<1>6. /\ DOMAIN jobs' = Workers /\ jobs'[w].pc = "idle" /\ "pc" \in DOMAIN jobs'[w]
      /\ \A u \in Workers \ {w} : jobs'[u] = jobs[u]
  BY <1>2 DEF DemoShape, Idle
<1>7. a.conv = asked[r].conv /\ a.after = asked[r].after /\ a.kind = answer.kind /\ a.kind # "pending"
  BY <1>1, <1>3 DEF EntryOK
<1>8. EntriesStay
  BY <1>1, <1>5, <1>7 DEF EntriesStay
<1>9. AnsweredTalk \subseteq AnsweredTalk'
  BY <1>5, <1>7 DEF AnsweredTalk
<1>10. /\ EntryOK(a)'
       /\ "facts" \notin DOMAIN answer => a.facts = {} /\ a.category = None
  <2>1. CASE DOMAIN answer = {"kind"} /\ answer.kind = "not_found"
    <3>1. a.facts = {} /\ a.category = None
      BY <1>1, <1>3, <2>1 DEF EntryOK
    <3> QED BY <1>1, <1>3, <1>7, <1>9, <2>1, <3>1 DEF EntryOK
  <2>2. CASE /\ {"category", "told", "facts"} \subseteq DOMAIN answer
             /\ answer.kind \in {"answered", "error"}
    BY <1>1, <1>3, <1>7, <1>9, <2>2 DEF EntryOK
  <2> QED BY <2>1, <2>2
<1>12. \A i \in DOMAIN asked' : EntryOK(asked[i])'
  BY <1>5, <1>9, <1>10 DEF EntryOK, DemoShape
<1>13. \A u \in Workers : JobOK(jobs[u])'
  <2> TAKE u \in Workers
  <2>1. CASE u = w
    BY <1>6, <2>1 DEF JobOK
  <2>2. CASE u # w
    <3>1. jobs[u].pc # "idle" => jobs[u].request \in DOMAIN asked /\ jobs[u].request # r
      BY <1>r, <2>2 DEF DemoShape, JobOK
    <3> QED BY <1>5, <1>6, <2>2, <3>1 DEF JobOK, DemoShape
  <2> QED BY <2>1, <2>2
<1>14. DemoShape'
  BY <1>5, <1>6, <1>12, <1>13 DEF DemoShape
<1> QED BY <1>r, <1>3, <1>5, <1>6, <1>8, <1>10, <1>14

\* A request that comes.
LEMMA AskDoes ==
  ASSUME DemoShape, NEW w \in Workers, Ask(w)
  PROVE  /\ DemoShape' /\ EntriesStay /\ jobs[w].pc = "idle" /\ jobs'[w].pc = "look"
         /\ \A u \in Workers \ {w} : jobs'[u] = jobs[u]
         /\ UNCHANGED talks
         /\ \A i \in DOMAIN asked' : i \notin DOMAIN asked =>
              asked'[i].kind = "pending" /\ asked'[i].category = None /\ jobs'[w].request = i
         /\ \A i \in DOMAIN asked : asked'[i] = asked[i]
<1>n. PICK n : n = Len(asked) + 1
  OBVIOUS
<1>1. PICK c, ask :
        /\ jobs' = [jobs EXCEPT ![w] = [pc |-> "look", request |-> n, conv |-> c,
                                        msg |-> ask.msg, pack |-> ask.pack]]
        /\ asked' = Append(asked, [conv |-> c, kind |-> "pending", after |-> AnsweredTalk,
                                   category |-> None, text |-> Nothing, told |-> {}, facts |-> {}])
  BY <1>n DEF Ask
<1>a. PICK a : a = [conv |-> c, kind |-> "pending", after |-> AnsweredTalk,
                 category |-> None, text |-> Nothing, told |-> {}, facts |-> {}]
  OBVIOUS
<1>v. PICK v :
        v = [pc |-> "look", request |-> n, conv |-> c, msg |-> ask.msg, pack |-> ask.pack]
  OBVIOUS
<1>2. List(asked)
  BY DEF DemoShape
<1>3. /\ List(asked') /\ DOMAIN asked' = DOMAIN asked \union {n} /\ n \notin DOMAIN asked
      /\ asked'[n] = a /\ \A i \in DOMAIN asked : asked'[i] = asked[i]
  BY <1>n, <1>a, <1>1, <1>2, ListAppend
<1>4. /\ jobs[w].pc = "idle" /\ UNCHANGED talks
      /\ DOMAIN jobs' = Workers /\ jobs'[w] = v
      /\ \A u \in Workers \ {w} : jobs'[u] = jobs[u]
  BY <1>v, <1>1 DEF Ask, DemoShape
<1>5. EntriesStay
  BY <1>3 DEF EntriesStay
<1>6. AnsweredTalk \subseteq AnsweredTalk'
  BY <1>3 DEF AnsweredTalk
<1>7. \A i \in DOMAIN asked' : EntryOK(asked[i])'
  <2>1. EntryOK(a)'
    BY <1>a, <1>6 DEF EntryOK
  <2>2. \A i \in DOMAIN asked : EntryOK(asked[i])'
    BY <1>3, <1>6 DEF EntryOK, DemoShape
  <2> QED BY <1>3, <2>1, <2>2 DEF EntryOK
<1>8. \A u \in Workers : JobOK(jobs[u])'
  <2> TAKE u \in Workers
  <2>1. CASE u = w
    BY <1>a, <1>v, <1>3, <1>4, <2>1 DEF JobOK
  <2>2. CASE u # w
    BY <1>3, <1>4, <2>2 DEF JobOK, DemoShape
  <2> QED BY <2>1, <2>2
<1>9. \A u \in Workers \ {w} : jobs[u].pc # "idle" => jobs[u].request # n
  BY <1>3 DEF DemoShape, JobOK
<1>10. \A u, t \in Workers :
        (jobs'[u].pc # "idle" /\ jobs'[t].pc # "idle" /\ jobs'[u].request = jobs'[t].request) => u = t
  BY <1>v, <1>4, <1>9 DEF DemoShape
<1>11. DemoShape'
  BY <1>3, <1>4, <1>7, <1>8, <1>10 DEF DemoShape
<1> QED BY <1>a, <1>v, <1>3, <1>4, <1>5, <1>11

-----------------------------------------------------------------------------
\* A new state holds no turn.
LEMMA NewTalkHolds == Holds(NewTalk, {})
<1>1. Cardinality({}) = 0
  BY FS_EmptySet
<1> QED BY <1>1 DEF Holds, TalkOK, NewTalk

\* A state that a turn is added to counts it and knows its facts.
LEMMA UpdateAdds ==
  ASSUME NEW talk, TalkOK(talk), NEW msg, NEW number, NEW out
  PROVE  LET new == Update(msg, talk, number, out) IN
           /\ TalkOK(new) /\ new.turns = talk.turns + 1
           /\ new.facts = talk.facts \union out.parse.facts
<1> DEFINE new == Update(msg, talk, number, out)
<1>1. DOMAIN new = DOMAIN talk
  BY Zenon DEF Update
<1>2. new["turns"] = talk["turns"] + 1
  BY Zenon DEF Update, TalkOK
<1>3. new["facts"] = talk["facts"] \union out.parse.facts
  BY Zenon DEF Update, TalkOK
<1> HIDE DEF new
<1>4. new.turns = talk.turns + 1 /\ new.facts = talk.facts \union out.parse.facts
  BY <1>2, <1>3
<1>5. TalkOK(new)
  BY <1>1, <1>4 DEF TalkOK
<1> QED BY <1>4, <1>5 DEF new

\* A summary tells what the state knew.
LEMMA SummaryTells ==
  ASSUME NEW talk, NEW msg, NEW number,
         Workflow(msg, talk, number).reply.category = "handoff_summary"
  PROVE  talk.facts \subseteq Workflow(msg, talk, number).reply.told
<1> DEFINE p == Parse(msg, talk, number)
           plan == PlanFor(p, Authorize(p))
           reply == Generate(p, plan, msg, talk)
<1>1. Workflow(msg, talk, number).reply = Reviewed(reply, talk)
  BY DEF Workflow
<1> HIDE DEF p, plan
<1>2. \/ reply = Derivation(p, talk)
      \/ \E x, y : reply = Written(x, y) /\ x # "handoff_summary"
  <2> DEFINE OK(r) == \/ r = Derivation(p, talk)
                      \/ \E x, y : r = Written(x, y) /\ x # "handoff_summary"
  <2>1. OK(Derivation(p, talk)) /\ \A x, y : x # "handoff_summary" => OK(Written(x, y))
    OBVIOUS
  <2> HIDE DEF OK
  <2>2. \A c, x, y : c # "handoff_summary" => OK(OnCase(c, x, y))
    BY <2>1 DEF OnCase
  <2>3. \A c, x : c # "handoff_summary" => OK(Timeline(c, x))
    BY <2>1 DEF Timeline
  <2>4. \A q, c, x : OK(ClaimReply(q, c, x))
    BY <2>1, <2>3, Zenon DEF ClaimReply
  <2>5. \A c, x, y : OK(StatusReply(c, x, y))
    BY <2>1, <2>3 DEF StatusReply
  <2>6. OK(reply)
    BY <2>1, <2>2, <2>4, <2>5 DEF Generate
  <2> QED BY <2>6 DEF OK
<1> HIDE DEF reply
<1>3. {"category", "told"} \subseteq DOMAIN reply
  BY <1>2 DEF Derivation, Written
<1>4. reply.category = "handoff_summary" => talk.facts \subseteq reply.told
  BY <1>2 DEF Derivation, StateFacts, Written
<1>5. \A x : [reply EXCEPT !.text = x]["category"] = reply["category"]
  BY <1>3, Zenon
<1>6. \A x : [reply EXCEPT !.text = x]["told"] = reply["told"]
  BY <1>3, Zenon
<1>7. /\ Reviewed(reply, talk).category = reply.category
      /\ Reviewed(reply, talk).told = reply.told
  BY <1>5, <1>6, Zenon DEF Reviewed, Rewritten
<1> QED BY <1>1, <1>4, <1>7

-----------------------------------------------------------------------------
\* A step that composes nothing: only the thread's own job has to be shown to hold.
LEMMA QuietDemoStep ==
  ASSUME DemoInv, DemoShape', EntriesStay, NEW w \in Workers, UNCHANGED <<talks, asked>>,
         \A u \in Workers \ {w} : jobs'[u] = jobs[u],
         jobs[w].pc # "execute" /\ jobs'[w].pc # "execute",
         JobHolds(jobs[w])'
  PROVE  DemoInv'
<1>1. \A u \in Workers : JobHolds(jobs[u])'
  BY OtherHolds DEF DemoInv
<1>2. \A i \in DOMAIN asked' : Composed(i)' => i \in DOMAIN asked /\ Composed(i)
  <2> SUFFICES ASSUME NEW i \in DOMAIN asked', Composed(i)' PROVE i \in DOMAIN asked /\ Composed(i)
    OBVIOUS
  <2> QED BY DEF Composed
<1>3. \A c \in DOMAIN talks : \A i \in Counted(c)' : asked'[i].facts \subseteq talks[c].facts
  <2> SUFFICES ASSUME NEW c \in DOMAIN talks, NEW i \in Counted(c)'
               PROVE  asked[i].facts \subseteq talks[c].facts
    OBVIOUS
  <2>1. i \in DOMAIN asked /\ asked[i].conv = c /\ Composed(i) /\ Alone(i)'
    BY <1>2 DEF Counted
  <2>2. i \in Counted(c)
    BY <2>1, AloneBefore DEF Counted
  <2> QED BY <2>2 DEF DemoInv, TalksHold, Holds
<1>4. TalksHold'
  BY <1>2, <1>3, TalksStay DEF DemoInv
<1>5. SummariesTell'
  BY SummariesStay DEF DemoInv, DemoShape, EntryOK, None
<1> QED BY <1>1, <1>4, <1>5 DEF DemoInv

\* A request comes: nothing is composed and no answer changes.
LEMMA AskKeeps ==
  ASSUME DemoInv, NEW w \in Workers, Ask(w)
  PROVE  DemoInv'
<1>1. /\ DemoShape' /\ EntriesStay /\ jobs[w].pc = "idle" /\ jobs'[w].pc = "look"
      /\ \A u \in Workers \ {w} : jobs'[u] = jobs[u]
      /\ UNCHANGED talks
      /\ \A i \in DOMAIN asked' : i \notin DOMAIN asked =>
           asked'[i].kind = "pending" /\ asked'[i].category = None /\ jobs'[w].request = i
      /\ \A i \in DOMAIN asked : asked'[i] = asked[i]
  BY AskDoes DEF DemoInv
<1>2. \A u \in Workers : JobHolds(jobs[u])'
  <2>1. JobHolds(jobs[w])'
    BY <1>1 DEF JobHolds
  <2> QED BY <1>1, <2>1, OtherHolds DEF DemoInv
<1>3. \A i \in DOMAIN asked' : Composed(i)' => i \in DOMAIN asked /\ Composed(i)
  <2> SUFFICES ASSUME NEW i \in DOMAIN asked', Composed(i)' PROVE i \in DOMAIN asked /\ Composed(i)
    OBVIOUS
  <2>1. CASE asked'[i].kind \in {"answered", "error"}
    BY <1>1, <2>1 DEF Composed
  <2>2. CASE \E u \in Workers : jobs'[u].pc = "execute" /\ jobs'[u].request = i
    <3>1. PICK u \in Workers : jobs'[u].pc = "execute" /\ jobs'[u].request = i
      BY <2>2
    <3>2. jobs[u].pc = "execute" /\ jobs[u].request = i
      BY <1>1, <3>1
    <3>3. i \in DOMAIN asked
      BY <3>2 DEF DemoInv, DemoShape, JobOK
    <3> QED BY <3>2, <3>3 DEF Composed
  <2> QED BY <2>1, <2>2 DEF Composed
<1>4. \A c \in DOMAIN talks : \A i \in Counted(c)' : asked'[i].facts \subseteq talks[c].facts
  <2> SUFFICES ASSUME NEW c \in DOMAIN talks, NEW i \in Counted(c)'
               PROVE  asked'[i].facts \subseteq talks[c].facts
    OBVIOUS
  <2>1. i \in DOMAIN asked' /\ asked'[i].conv = c /\ Composed(i)' /\ Alone(i)'
    BY DEF Counted
  <2>2. i \in DOMAIN asked /\ Composed(i) /\ asked'[i] = asked[i]
    BY <1>1, <1>3, <2>1
  <2>3. i \in Counted(c)
    BY <1>1, <2>1, <2>2, AloneBefore DEF Counted
  <2> QED BY <2>2, <2>3 DEF DemoInv, TalksHold, Holds
<1>5. TalksHold'
  BY <1>1, <1>3, <1>4, TalksStay DEF DemoInv
<1>6. SummariesTell'
  <2>1. \A i \in DOMAIN asked : asked[i].kind = "pending" => asked[i].category # "handoff_summary"
    BY DEF DemoInv, DemoShape, EntryOK, None
  <2>2. \A i \in DOMAIN asked' : asked'[i].category = "handoff_summary" =>
          i \in DOMAIN asked /\ asked[i].kind # "pending"
    BY <1>1, <2>1 DEF None
  <2> QED BY <1>1, <2>2, SummariesStay DEF DemoInv
<1> QED BY <1>1, <1>2, <1>5, <1>6 DEF DemoInv

\* A state that is found holds the turns composed so far; where there is none, none was.
LEMMA LookKeeps ==
  ASSUME DemoInv, NEW w \in Workers, Look(w)
  PROVE  DemoInv'
<1> DEFINE c == jobs[w].conv
           r == jobs[w].request
<1>1. /\ jobs[w].pc = "look" /\ UNCHANGED <<talks, asked>>
      /\ {"pc", "request", "conv", "msg", "pack"} \subseteq DOMAIN jobs[w] /\ r \in DOMAIN asked
      /\ asked[r].conv = c
  BY DEF Look, DemoInv, DemoShape, JobOK
<1>2. talks' = [x \in DOMAIN talks' |-> talks'[x]]
  BY <1>1 DEF DemoInv, DemoShape
<1>3. CASE c \in DOMAIN talks
  <2>1. PICK v : v = Extend(jobs[w], [pc |-> "compose", talk |-> talks[c]])
    OBVIOUS
  <2>2. jobs' = [jobs EXCEPT ![w] = v]
    BY <1>3, <2>1 DEF Look
  <2>3. /\ {"pc", "request", "conv", "msg", "pack"} \subseteq DOMAIN v
        /\ v.pc = "compose" /\ v.request = r /\ v.conv = c /\ v.talk = talks[c]
    BY <1>1, <2>1 DEF Extend
  <2>4. /\ DemoShape' /\ EntriesStay /\ jobs'[w] = v
        /\ \A u \in Workers \ {w} : jobs'[u] = jobs[u]
    BY <1>1, <1>2, <2>2, <2>3, GoesOn DEF DemoInv
  <2>5. \A i \in CountedBefore(r) : i \in Counted(c)
    BY <1>1 DEF CountedBefore, Counted, Composed, DemoInv, DemoShape, EntryOK, AnsweredTalk
  <2>6. Holds(talks[c], CountedBefore(r))
    BY <1>1, <1>3, <2>5, CountedFinite, HoldsFewer DEF DemoInv, TalksHold
  <2>7. Holds(v.talk, CountedBefore(v.request))'
    <3>1. \A x, y : y \in DOMAIN asked /\ Holds(x, CountedBefore(y)) => Holds(x, CountedBefore(y))'
      BY <2>4, BeforeHolds DEF DemoInv
    <3> QED BY <1>1, <2>3, <2>6, <3>1
  <2>8. JobHolds(jobs[w])'
    BY <1>1, <1>3, <2>3, <2>4, <2>7 DEF JobHolds
  <2> QED BY <1>1, <2>3, <2>4, <2>8, QuietDemoStep
<1>4. CASE c \notin DOMAIN talks
  <2>1. PICK v : v = [jobs[w] EXCEPT !.pc = "create"]
    OBVIOUS
  <2>2. jobs' = [jobs EXCEPT ![w] = v]
    BY <1>4, <2>1 DEF Look
  <2>3. v = [x \in DOMAIN jobs[w] |-> IF x = "pc" THEN "create" ELSE jobs[w][x]]
    BY <2>1, Zenon
  <2>4. /\ {"pc", "request", "conv", "msg", "pack"} \subseteq DOMAIN v
        /\ v.pc = "create" /\ v.request = r /\ v.conv = c
    BY <1>1, <2>3
  <2>5. /\ DemoShape' /\ EntriesStay /\ jobs'[w] = v
        /\ \A u \in Workers \ {w} : jobs'[u] = jobs[u]
    BY <1>1, <1>2, <2>2, <2>4, GoesOn DEF DemoInv
  <2>6. CountedBefore(r) = {}
    BY <1>1, <1>4 DEF CountedBefore, Composed, DemoInv, DemoShape, EntryOK, AnsweredTalk, TalksHold
  <2>7. \A y \in DOMAIN asked : CountedBefore(y)' \subseteq CountedBefore(y)
    BY <2>5, BeforeShrinks DEF DemoInv
  <2>8. JobHolds(jobs[w])'
    BY <1>1, <2>4, <2>5, <2>6, <2>7 DEF JobHolds
  <2> QED BY <1>1, <2>4, <2>5, <2>8, QuietDemoStep
<1> QED BY <1>3, <1>4

-----------------------------------------------------------------------------
\* While a request of its conversation is about to be composed, no composed turn that is
\* alone waits for the runtime.
LEMMA NoneWaitsBeside ==
  ASSUME DemoShape, NEW w \in Workers, jobs[w].pc \in {"create", "compose"},
         NEW u \in Workers, jobs[u].pc = "execute", jobs[u].conv = jobs[w].conv
  PROVE  ~Alone(jobs[u].request)
<1> SUFFICES ASSUME Alone(jobs[u].request) PROVE FALSE
  OBVIOUS
<1>1. /\ jobs[u].request \in DOMAIN asked /\ asked[jobs[u].request].kind = "pending"
      /\ asked[jobs[u].request].conv = jobs[w].conv
  BY DEF DemoShape, JobOK
<1>2. jobs[u].request \in Counted(jobs[w].conv)
  BY <1>1 DEF Counted, Composed
<1>3. jobs[u].request \in CountedBefore(jobs[w].request)
  BY <1>2, CountedCameBefore
<1> QED BY <1>1, <1>3 DEF CountedBefore

\* A state that is stored, holding all that was read and perhaps one turn more.
LEMMA StoredHolds ==
  ASSUME DemoInv, DemoShape', EntriesStay, UNCHANGED asked,
         NEW w \in Workers, jobs[w].pc \in {"create", "compose"},
         \A u \in Workers \ {w} : jobs'[u] = jobs[u],
         jobs'[w].pc # "idle" => jobs'[w].request = jobs[w].request,
         NEW new,
         DOMAIN talks' = DOMAIN talks \union {jobs[w].conv},
         talks'[jobs[w].conv] = new,
         \A c \in DOMAIN talks : c # jobs[w].conv => talks'[c] = talks[c],
         \A x : x = jobs[w].conv => Holds(new, Counted(x)'),
         JobHolds(jobs[w])'
  PROVE  DemoInv'
<1>c. PICK c : c = jobs[w].conv
  OBVIOUS
<1>0. /\ jobs[w].request \in DOMAIN asked /\ asked[jobs[w].request].conv = c
  BY <1>c DEF DemoInv, DemoShape, JobOK
<1>1. \A u \in Workers : JobHolds(jobs[u])'
  <2> SUFFICES ASSUME NEW u \in Workers, u # w PROVE JobHolds(jobs[u])'
    OBVIOUS
  <2>1. jobs'[u] = jobs[u] /\ JobHolds(jobs[u]) /\ DemoShape
    BY DEF DemoInv
  <2>2. jobs[u].pc = "execute" =>
          jobs[u].conv \in DOMAIN talks
    BY DEF DemoInv, DemoShape, JobOK, TalksHold, Composed
  <2>3. (jobs[u].pc = "execute" /\ Alone(jobs[u].request)) =>
           talks[jobs[u].conv].facts \subseteq talks'[jobs[u].conv].facts
    BY <2>1, <2>2, NoneWaitsBeside
  <2> QED BY <2>1, <2>3, OtherHolds
<1>2. \A i \in DOMAIN asked' : Composed(i)' => i \in DOMAIN asked /\ (Composed(i) \/ i = jobs[w].request)
  <2> SUFFICES ASSUME NEW i \in DOMAIN asked', Composed(i)', i # jobs[w].request
               PROVE  Composed(i)
    OBVIOUS
  <2> QED BY DEF Composed
<1>3. \A x : x # c => Counted(x)' \subseteq Counted(x)
  <2> SUFFICES ASSUME NEW x, x # c, NEW i \in Counted(x)' PROVE i \in Counted(x)
    OBVIOUS
  <2>1. i \in DOMAIN asked /\ asked[i].conv = x /\ Composed(i)' /\ Alone(i)'
    BY DEF Counted
  <2>2. Composed(i)
    BY <1>0, <1>2, <2>1
  <2> QED BY <2>1, <2>2, AloneBefore DEF Counted
<1>4. \A x \in DOMAIN talks' : Holds(talks'[x], Counted(x)')
  <2>c. Holds(talks'[c], Counted(c)')
    BY <1>c
  <2> SUFFICES ASSUME NEW x \in DOMAIN talks', x # c PROVE Holds(talks'[x], Counted(x)')
    BY <2>c
  <2>1. x \in DOMAIN talks /\ talks'[x] = talks[x] /\ Holds(talks[x], Counted(x))
    BY <1>c DEF DemoInv, TalksHold
  <2>2. IsFiniteSet(Counted(x)) /\ Counted(x)' \in SUBSET Counted(x)
    BY <1>3, CountedFinite DEF DemoInv
  <2> QED BY <2>1, <2>2, HoldsFewer
<1>5. \A i \in DOMAIN asked' : Composed(i)' => asked'[i].conv \in DOMAIN talks'
  BY <1>c, <1>0, <1>2 DEF DemoInv, TalksHold
<1>6. TalksHold'
  BY <1>4, <1>5 DEF TalksHold, Holds, TalkOK
<1>7. SummariesTell'
  BY SummariesStay DEF DemoInv, DemoShape, EntryOK, None
<1> QED BY <1>1, <1>6, <1>7 DEF DemoInv

\* A new state is stored only where no turn had been counted.
LEMMA StateCreateKeeps ==
  ASSUME DemoInv, NEW w \in Workers, Create(w)
  PROVE  DemoInv'
<1>n. PICK new : new = NewTalk
  OBVIOUS
<1>c. PICK c, r : c = jobs[w].conv /\ r = jobs[w].request
  OBVIOUS
<1>1. /\ jobs[w].pc = "create" /\ UNCHANGED asked
      /\ {"pc", "request", "conv", "msg", "pack"} \subseteq DOMAIN jobs[w] /\ r \in DOMAIN asked
      /\ talks' = Extend(talks, [x \in {c} |-> new])
  BY <1>n, <1>c DEF Create, DemoInv, DemoShape, JobOK
<1>2. PICK v : v = Extend(jobs[w], [pc |-> "compose", talk |-> new])
  OBVIOUS
<1>3. jobs' = [jobs EXCEPT ![w] = v]
  BY <1>n, <1>2 DEF Create
<1>4. /\ {"pc", "request", "conv", "msg", "pack"} \subseteq DOMAIN v
      /\ v.pc = "compose" /\ v.request = r /\ v.conv = c /\ v.talk = new
  BY <1>c, <1>1, <1>2 DEF Extend
<1>5. /\ DOMAIN talks' = DOMAIN talks \union {c} /\ talks'[c] = new
      /\ \A x \in DOMAIN talks : x # c => talks'[x] = talks[x]
      /\ talks' = [x \in DOMAIN talks' |-> talks'[x]]
  BY <1>1 DEF Extend
<1>6. /\ DemoShape' /\ EntriesStay /\ jobs'[w] = v
      /\ \A u \in Workers \ {w} : jobs'[u] = jobs[u]
  BY <1>c, <1>1, <1>3, <1>4, <1>5, GoesOn DEF DemoInv
<1>7. CountedBefore(r) = {}
  BY <1>c, <1>1 DEF DemoInv, JobHolds
<1>8. Counted(c) = {}
  BY <1>c, <1>1, <1>7, CountedCameBefore DEF DemoInv
<1>9. Counted(c)' = {}
  <2> SUFFICES ASSUME NEW i \in Counted(c)' PROVE FALSE
    OBVIOUS
  <2>1. i \in DOMAIN asked /\ asked[i].conv = c /\ Composed(i)' /\ Alone(i)'
    BY <1>1 DEF Counted
  <2>2. Composed(i)
    BY <1>1, <1>4, <1>6, <2>1 DEF Composed
  <2> QED BY <1>6, <1>8, <2>1, <2>2, AloneBefore DEF Counted
<1>10. Holds(new, Counted(c)')
  BY <1>n, <1>9, NewTalkHolds
<1>11. CountedBefore(r)' = {}
  BY <1>1, <1>6, <1>7, BeforeShrinks DEF DemoInv
<1>12. Holds(v.talk, CountedBefore(r)')
  BY <1>n, <1>4, <1>11, NewTalkHolds
<1>13. JobHolds(jobs[w])'
  <2>1. Holds(v.talk, CountedBefore(r))'
    BY <1>12, <1>11 DEF Holds, TalkOK
  <2> QED BY <1>4, <1>5, <1>6, <2>1 DEF JobHolds
<1>14. /\ DOMAIN talks' = DOMAIN talks \union {jobs[w].conv} /\ talks'[jobs[w].conv] = new
       /\ \A x \in DOMAIN talks : x # jobs[w].conv => talks'[x] = talks[x]
       /\ \A x : x = jobs[w].conv => Holds(new, Counted(x)')
       /\ jobs'[w].request = jobs[w].request
  BY <1>c, <1>4, <1>5, <1>6, <1>10
<1>15. DemoInv'
  BY <1>1, <1>6, <1>13, <1>14, StoredHolds
<1> QED BY <1>15

\* The state that is stored holds the turns before the request, and the request's own.
LEMMA StateComposeKeeps ==
  ASSUME DemoInv, NEW w \in Workers, Compose(w)
  PROVE  DemoInv'
<1>c. PICK c, r, talk : c = jobs[w].conv /\ r = jobs[w].request /\ talk = jobs[w].talk
  OBVIOUS
<1>1. PICK msg, number, out :
        /\ out = Workflow(msg, talk, number)
        /\ talks' = [talks EXCEPT ![c] = Update(msg, talk, number, out)]
        /\ jobs' = [jobs EXCEPT ![w] = Extend(jobs[w], [pc |-> "execute", out |-> out])]
  BY <1>c DEF Compose
<1>2. /\ jobs[w].pc = "compose" /\ UNCHANGED asked
      /\ {"pc", "request", "conv", "msg", "pack"} \subseteq DOMAIN jobs[w] /\ r \in DOMAIN asked
      /\ asked[r].kind = "pending" /\ asked[r].conv = c /\ asked[r].facts = {}
  BY <1>c DEF Compose, DemoInv, DemoShape, JobOK, EntryOK
<1>3. c \in DOMAIN talks /\ Holds(talk, CountedBefore(r))
  BY <1>c, <1>2 DEF DemoInv, JobHolds
<1>4. PICK new : new = Update(msg, talk, number, out)
  OBVIOUS
<1>5. TalkOK(new) /\ new.turns = talk.turns + 1 /\ new.facts = talk.facts \union out.parse.facts
  BY <1>3, <1>4, UpdateAdds DEF Holds
<1>6. PICK v : v = Extend(jobs[w], [pc |-> "execute", out |-> out])
  OBVIOUS
<1>7. /\ {"pc", "request", "conv", "msg", "pack"} \subseteq DOMAIN v
      /\ v.pc = "execute" /\ v.request = r /\ v.conv = c /\ v.out = out
  BY <1>c, <1>2, <1>6 DEF Extend
<1>8. /\ DOMAIN talks' = DOMAIN talks /\ talks'[c] = new
      /\ \A x \in DOMAIN talks : x # c => talks'[x] = talks[x]
      /\ talks' = [x \in DOMAIN talks' |-> talks'[x]]
  BY <1>1, <1>3, <1>4 DEF DemoInv, DemoShape
<1>9. /\ DemoShape' /\ EntriesStay /\ jobs'[w] = v
      /\ \A u \in Workers \ {w} : jobs'[u] = jobs[u]
  <2>1. /\ jobs' = [jobs EXCEPT ![w] = v] /\ jobs[w].pc # "idle" /\ UNCHANGED asked
        /\ v.pc \in {"create", "compose", "execute"}
        /\ v.request = jobs[w].request /\ v.conv = jobs[w].conv
    BY <1>c, <1>1, <1>2, <1>6, <1>7
  <2> QED BY <1>7, <1>8, <2>1, GoesOn DEF DemoInv
<1>10. Counted(c)' \subseteq CountedBefore(r) \union {r}
  <2> SUFFICES ASSUME NEW i \in Counted(c)', i # r PROVE i \in CountedBefore(r)
    OBVIOUS
  <2>1. i \in DOMAIN asked /\ asked[i].conv = c /\ Composed(i)' /\ Alone(i)'
    BY <1>2 DEF Counted
  <2>2. Composed(i)
    BY <1>2, <1>7, <1>9, <2>1 DEF Composed
  <2>3. i \in Counted(c)
    BY <1>9, <2>1, <2>2, AloneBefore DEF Counted
  <2> QED BY <1>c, <1>2, <2>3, CountedCameBefore DEF DemoInv
<1>11. Holds(new, Counted(c)')
  <2>1. IsFiniteSet(CountedBefore(r))
    BY <1>2, CountedFinite DEF DemoInv
  <2>2. /\ IsFiniteSet(CountedBefore(r) \union {r})
        /\ Cardinality(CountedBefore(r) \union {r}) <= Cardinality(CountedBefore(r)) + 1
    BY <2>1, FS_AddElement, FS_CardinalityType
  <2>3. Cardinality(CountedBefore(r)) \in Nat /\ Cardinality(CountedBefore(r) \union {r}) \in Nat
    BY <2>1, <2>2, FS_CardinalityType
  <2>4. Cardinality(CountedBefore(r) \union {r}) <= new.turns
    BY <1>3, <1>5, <2>2, <2>3 DEF Holds, TalkOK
  <2>5. \A i \in CountedBefore(r) \union {r} : asked[i].facts \subseteq new.facts
    BY <1>2, <1>3, <1>5 DEF Holds
  <2>6. Holds(new, CountedBefore(r) \union {r})
    BY <1>5, <2>4, <2>5 DEF Holds
  <2> QED BY <1>10, <2>2, <2>6, HoldsFewer
<1>12. JobHolds(jobs[w])'
  <2>1. out.reply.category = "handoff_summary" => talk.facts \subseteq out.reply.told
    BY <1>1, SummaryTells
  <2>2. CountedBefore(r)' \subseteq CountedBefore(r)
    BY <1>2, <1>9, BeforeShrinks DEF DemoInv
  <2>3. \A i \in CountedBefore(r)' : asked'[i].facts \subseteq talk.facts
    BY <1>2, <1>3, <2>2 DEF Holds
  <2> QED BY <1>5, <1>7, <1>8, <1>9, <2>1, <2>3 DEF JobHolds
<1>13. /\ DOMAIN talks' = DOMAIN talks \union {jobs[w].conv} /\ talks'[jobs[w].conv] = new
       /\ \A x \in DOMAIN talks : x # jobs[w].conv => talks'[x] = talks[x]
       /\ \A x : x = jobs[w].conv => Holds(new, Counted(x)')
       /\ jobs'[w].request = jobs[w].request
  BY <1>c, <1>3, <1>7, <1>8, <1>9, <1>11
<1> QED BY <1>2, <1>9, <1>12, <1>13, StoredHolds

-----------------------------------------------------------------------------
\* The states and the threads' jobs when a request gets its answer: the turn that is
\* answered, if there is one, was composed and is in the state of its conversation.
LEMMA CloseKeepsStates ==
  ASSUME DemoInv, DemoShape', EntriesStay, NEW w \in Workers, UNCHANGED talks,
         DOMAIN asked' = DOMAIN asked,
         \A u \in Workers \ {w} : jobs'[u] = jobs[u], jobs'[w].pc = "idle",
         NEW r, r = jobs[w].request, r \in DOMAIN asked,
         \A i \in DOMAIN asked : i # r => asked'[i] = asked[i],
         asked'[r].kind \in {"answered", "error"} =>
           /\ jobs[w].pc = "execute"
           /\ Alone(r) => asked'[r].facts \subseteq talks[asked[r].conv].facts
  PROVE  TalksHold' /\ \A u \in Workers : JobHolds(jobs[u])'
<1>1. \A u \in Workers : JobHolds(jobs[u])'
  <2>1. JobHolds(jobs[w])'
    BY DEF JobHolds
  <2> QED BY <2>1, OtherHolds DEF DemoInv
<1>2. \A i \in DOMAIN asked' : Composed(i)' => i \in DOMAIN asked /\ Composed(i)
  <2> SUFFICES ASSUME NEW i \in DOMAIN asked', Composed(i)' PROVE Composed(i)
    OBVIOUS
  <2>1. CASE asked'[i].kind \in {"answered", "error"}
    BY <2>1 DEF Composed
  <2>2. CASE \E u \in Workers : jobs'[u].pc = "execute" /\ jobs'[u].request = i
    BY <2>2 DEF Composed
  <2> QED BY <2>1, <2>2 DEF Composed
<1>3. \A c \in DOMAIN talks : \A i \in Counted(c)' : asked'[i].facts \subseteq talks[c].facts
  <2> SUFFICES ASSUME NEW c \in DOMAIN talks, NEW i \in Counted(c)'
               PROVE  asked'[i].facts \subseteq talks[c].facts
    OBVIOUS
  <2>1. i \in DOMAIN asked /\ asked'[i].conv = c /\ Composed(i)' /\ Alone(i)'
    BY DEF Counted
  <2>2. Composed(i) /\ asked[i].conv = c /\ Alone(i)
    BY <1>2, <2>1, AloneBefore DEF EntriesStay
  <2>3. CASE i # r
    <3>1. i \in Counted(c)
      BY <2>1, <2>2 DEF Counted
    <3> QED BY <2>1, <2>3, <3>1 DEF DemoInv, TalksHold, Holds
  <2>4. CASE i = r
    <3>1. CASE asked'[r].kind \in {"answered", "error"}
      BY <2>2, <2>4, <3>1
    <3>2. CASE asked'[r].kind \notin {"answered", "error"}
      <4>1. asked'[r].facts = {}
        BY <2>1, <2>4, <3>2 DEF DemoShape, EntryOK
      <4> QED BY <2>4, <4>1
    <3> QED BY <3>1, <3>2
  <2> QED BY <2>3, <2>4
<1>4. TalksHold'
  BY <1>2, <1>3, TalksStay DEF DemoInv
<1> QED BY <1>1, <1>4

\* A request without a pack ends with no turn.
LEMMA PackMissingKeeps ==
  ASSUME DemoInv, NEW w \in Workers, PackMissing(w)
  PROVE  DemoInv'
<1>r. PICK r : r = jobs[w].request
  OBVIOUS
<1>a. PICK answer : answer = [kind |-> "not_found"]
  OBVIOUS
<1>1. /\ jobs[w].pc = "compose" /\ Close(w, answer) /\ UNCHANGED talks
      /\ DOMAIN answer = {"kind"} /\ answer.kind = "not_found"
      /\ r \in DOMAIN asked
  BY <1>r, <1>a DEF PackMissing, DemoInv, DemoShape, JobOK
<1>2. /\ DemoShape' /\ EntriesStay /\ DOMAIN asked' = DOMAIN asked
      /\ jobs'[w].pc = "idle" /\ \A u \in Workers \ {w} : jobs'[u] = jobs[u]
      /\ \A i \in DOMAIN asked : i # r => asked'[i] = asked[i]
      /\ asked'[r].kind = "not_found" /\ asked'[r].category = None
  <2>1. jobs[w].pc # "idle" /\ {"conv", "after"} \cap DOMAIN answer = {}
        /\ "kind" \in DOMAIN answer /\ "facts" \notin DOMAIN answer
    BY <1>1
  <2> QED BY <1>r, <1>1, <2>1, CloseDoes DEF DemoInv
<1>3. TalksHold' /\ \A u \in Workers : JobHolds(jobs[u])'
  BY <1>r, <1>1, <1>2, CloseKeepsStates
<1>4. SummariesTell'
  <2>1. \A i \in DOMAIN asked : asked[i].kind = "pending" => asked[i].category # "handoff_summary"
    BY DEF DemoInv, DemoShape, EntryOK, None
  <2>2. \A i \in DOMAIN asked' : asked'[i].category = "handoff_summary" =>
          i \in DOMAIN asked /\ asked[i].kind # "pending"
    BY <1>2, <2>1 DEF None
  <2> QED BY <1>2, <2>2, SummariesStay DEF DemoInv
<1> QED BY <1>2, <1>3, <1>4 DEF DemoInv

\* The answer is the turn that was composed.
LEMMA DemoExecuteKeeps ==
  ASSUME DemoInv, NEW w \in Workers, Execute(w)
  PROVE  DemoInv'
<1>r. PICK r : r = jobs[w].request
  OBVIOUS
<1>o. PICK out : out = jobs[w].out
  OBVIOUS
<1>a. PICK kind \in {"answered", "error"} :
        Close(w, [kind |-> kind, category |-> out.reply.category, text |-> out.reply.text,
                  told |-> out.reply.told, facts |-> out.parse.facts])
  BY <1>o DEF Execute
<1>b. PICK answer :
        answer = [kind |-> kind, category |-> out.reply.category, text |-> out.reply.text,
                  told |-> out.reply.told, facts |-> out.parse.facts]
  OBVIOUS
<1>1. /\ jobs[w].pc = "execute" /\ Close(w, answer) /\ UNCHANGED talks
      /\ answer.kind \in {"answered", "error"}
      /\ DOMAIN answer = {"kind", "category", "text", "told", "facts"}
      /\ answer.category = out.reply.category /\ answer.told = out.reply.told
      /\ answer.facts = out.parse.facts
  BY <1>a, <1>b DEF Execute
<1>2. r \in DOMAIN asked /\ asked[r].conv = jobs[w].conv /\ asked[r].kind = "pending"
  BY <1>r, <1>1 DEF DemoInv, DemoShape, JobOK
<1>3. /\ DemoShape' /\ EntriesStay /\ DOMAIN asked' = DOMAIN asked
      /\ jobs'[w].pc = "idle" /\ \A u \in Workers \ {w} : jobs'[u] = jobs[u]
      /\ \A i \in DOMAIN asked : i # r => asked'[i] = asked[i]
      /\ asked'[r].category = out.reply.category /\ asked'[r].told = out.reply.told
      /\ asked'[r].facts = out.parse.facts
  <2>1. jobs[w].pc # "idle" /\ {"conv", "after"} \cap DOMAIN answer = {}
        /\ "kind" \in DOMAIN answer /\ {"category", "told", "facts"} \subseteq DOMAIN answer
    BY <1>1
  <2>2. /\ DemoShape' /\ EntriesStay /\ DOMAIN asked' = DOMAIN asked
        /\ jobs'[w].pc = "idle" /\ \A u \in Workers \ {w} : jobs'[u] = jobs[u]
        /\ \A i \in DOMAIN asked : i # r => asked'[i] = asked[i]
        /\ \A x \in DOMAIN answer : asked'[r][x] = answer[x]
    BY <1>r, <1>1, <2>1, CloseDoes DEF DemoInv
  <2> QED BY <1>1, <2>1, <2>2
<1>4. JobHolds(jobs[w])
  BY DEF DemoInv
<1>5. TalksHold' /\ \A u \in Workers : JobHolds(jobs[u])'
  <2>1. Alone(r) => out.parse.facts \subseteq talks[asked[r].conv].facts
    BY <1>r, <1>o, <1>1, <1>2, <1>4 DEF JobHolds
  <2> QED BY <1>r, <1>1, <1>2, <1>3, <2>1, CloseKeepsStates
<1>6. SummariesTell'
  <2>1. \A i \in DOMAIN asked' : (asked'[i].category = "handoff_summary"
                                  /\ ~(i \in DOMAIN asked /\ asked[i].kind # "pending")) => i = r
    BY <1>3 DEF DemoInv, DemoShape, EntryOK, None
  <2>2. asked'[r].category = "handoff_summary" =>
          \A j \in CountedBefore(r) : asked[j].facts \subseteq asked'[r].told
    BY <1>r, <1>o, <1>1, <1>3, <1>4 DEF JobHolds
  <2>3. /\ CountedBefore(r)' \subseteq CountedBefore(r)
        /\ \A i \in CountedBefore(r)' : asked'[i] = asked[i]
    BY <1>2, <1>3, BeforeShrinks DEF DemoInv
  <2>4. \A i \in DOMAIN asked' : (asked'[i].category = "handoff_summary"
                                  /\ ~(i \in DOMAIN asked /\ asked[i].kind # "pending")) =>
          \A j \in CountedBefore(i)' : asked'[j].facts \subseteq asked'[i].told
    <3>1. \A i : i = r => \A j \in CountedBefore(i)' : j \in CountedBefore(r)'
      OBVIOUS
    <3> QED BY <2>1, <2>2, <2>3, <3>1
  <2> QED BY <1>3, <2>4, SummariesStay DEF DemoInv
<1> QED BY <1>3, <1>5, <1>6 DEF DemoInv

-----------------------------------------------------------------------------
\* Every step of the server keeps what the demo endpoint holds.
LEMMA ServerKeepsDemo == DemoInv /\ [ServerNext]_<<vars, demo>> => DemoInv'
<1> SUFFICES ASSUME DemoInv, [ServerNext]_<<vars, demo>> PROVE DemoInv'
  OBVIOUS
<1>1. CASE UNCHANGED demo
  <2>1. UNCHANGED <<talks, jobs, asked>>
    BY <1>1 DEF demo
  <2>2. /\ AnsweredTalk' = AnsweredTalk
        /\ \A i : Alone(i)' = Alone(i) /\ Composed(i)' = Composed(i)
    BY <2>1, Zenon DEF AnsweredTalk, Alone, Overlap, Earlier, Composed
  <2>3. /\ \A c : Counted(c)' = Counted(c)
        /\ \A r : CountedBefore(r)' = CountedBefore(r)
    BY <2>1, <2>2, Zenon DEF Counted, CountedBefore
  <2>4. DemoShape'
    BY <2>1, <2>2 DEF DemoInv, DemoShape, EntryOK, JobOK, List
  <2>5. TalksHold' /\ SummariesTell'
    BY <2>1, <2>2, <2>3 DEF DemoInv, TalksHold, Holds, TalkOK, SummariesTell
  <2>6. \A w \in Workers : JobHolds(jobs[w])'
    BY <2>1, <2>2, <2>3 DEF DemoInv, JobHolds, Holds, TalkOK
  <2> QED BY <2>4, <2>5, <2>6 DEF DemoInv
<1>2. CASE \E w \in Workers : DemoStep(w)
  BY <1>2, AskKeeps, LookKeeps, StateCreateKeeps, PackMissingKeeps, StateComposeKeeps,
     DemoExecuteKeeps DEF DemoStep
<1> QED BY <1>1, <1>2 DEF ServerNext, demo

\* The invariant says that the turns are counted.
LEMMA DemoInvCounts == DemoInv => TurnsCounted
<1> SUFFICES ASSUME DemoInv, NEW c \in DOMAIN talks
             PROVE  talks[c].turns >= Cardinality({i \in Turns(c) : Alone(i)})
  BY DEF TurnsCounted
<1>1. {i \in Turns(c) : Alone(i)} \in SUBSET Counted(c)
  BY DEF Turns, Counted, Composed
<1>2. IsFiniteSet(Counted(c)) /\ Holds(talks[c], Counted(c))
  BY CountedFinite DEF DemoInv, TalksHold
<1>3. Holds(talks[c], {i \in Turns(c) : Alone(i)})
  BY <1>1, <1>2, HoldsFewer
<1>4. IsFiniteSet({i \in Turns(c) : Alone(i)})
  BY <1>1, <1>2, FS_Subset
<1>5. Cardinality({i \in Turns(c) : Alone(i)}) \in Nat
  BY <1>4, FS_CardinalityType
<1> QED BY <1>3, <1>5 DEF Holds, TalkOK

\* The invariant says that summaries tell.
LEMMA DemoInvTells == DemoInv => HandoffTellsAll
<1> SUFFICES ASSUME DemoInv, NEW i \in DOMAIN asked, NEW j \in DOMAIN asked,
                    asked[i].category = "handoff_summary", asked[i].conv = asked[j].conv,
                    Earlier(j, i), \A k \in Turns(asked[i].conv) : Alone(k)
             PROVE  asked[j].facts \subseteq asked[i].told
  BY DEF HandoffTellsAll
<1>1. CASE asked[j].kind \in {"answered", "error"}
  <2>1. Alone(j)
    BY <1>1 DEF Turns
  <2>2. j \in CountedBefore(i)
    BY <1>1, <2>1 DEF CountedBefore, Earlier
  <2> QED BY <2>2 DEF DemoInv, SummariesTell
<1>2. CASE asked[j].kind \notin {"answered", "error"}
  BY <1>2 DEF DemoInv, DemoShape, EntryOK
<1> QED BY <1>1, <1>2

\* The invariant holds in every state of the server.
LEMMA DemoInvHolds == ServerSpec => []DemoInv
BY DemoStart, ServerKeepsDemo, PTL DEF ServerSpec

\* Every turn of a conversation that no other request of it overlapped is counted in the
\* state of the conversation, whatever the other threads, packs and runtimes did.
THEOREM TurnsAlwaysCounted == ServerSpec => []TurnsCounted
BY DemoInvHolds, DemoInvCounts, PTL

\* A summary of derivation tells what was understood in every earlier turn of its
\* conversation, when no two requests of it overlapped.
THEOREM SummariesAlwaysTell == ServerSpec => []HandoffTellsAll
BY DemoInvHolds, DemoInvTells, PTL

\* The server with both endpoints runs the public conversation layer as it is: what was
\* proved of the layer alone holds of the server.
LEMMA ServerRunsLayer == ServerSpec => Spec
<1>1. DemoInit => Init
  BY DEF DemoInit
<1>2. [ServerNext]_<<vars, demo>> => [Next]_vars
  BY DEF ServerNext
<1> QED BY <1>1, <1>2, PTL DEF ServerSpec, Spec

\* So a runtime of the server only ever runs the turns of one conversation, each of them
\* once, beside the demo endpoint's requests too.
THEOREM ServerSessionsApart == ServerSpec => []SessionsApart
BY ServerRunsLayer, RuntimesServeOne, PTL

\* And what was answered before a reset is in no runtime and no memory that serves the
\* conversation after it, with both endpoints running.
THEOREM ServerResetsAreFinal == ServerSpec => []ResetForgets
BY ServerRunsLayer, ResetsAreFinal, PTL

-----------------------------------------------------------------------------
\* What the product memory of a conversation may hold of a topic, whatever was said:
\* the cancellation is the only service topic, cristales the only claim type, and
\* neither takes the place of what a bill is about.
MemoryOK(mem) ==
  /\ {"topic", "domain", "issue_focus", "claim_type", "next_action"} \subseteq DOMAIN mem
  /\ mem.topic \in {None, "baja"}
  /\ mem.claim_type \in {None, "cristales"}
  /\ mem.issue_focus # "baja"

\* It says nothing of a cancellation.
Silent(mem) == MemoryOK(mem) /\ mem.topic = None /\ mem.domain # "service_request"

\* A message as the classifiers leave it.
MessageOK(msg) ==
  /\ ~(Is(msg, "rejects") /\ Is(msg, "baja"))
  /\ "baja" \notin {msg.option, msg.subject}

LEMMA ClearServiceSilences ==
  ASSUME NEW mem, MemoryOK(mem)
  PROVE  Silent(ClearService(mem))
<1> DEFINE after == ClearService(mem)
<1>1. /\ DOMAIN after = DOMAIN mem
      /\ after.issue_focus = mem.issue_focus /\ after.claim_type = mem.claim_type
  BY Zenon DEF ClearService, MemoryOK
<1>2. after.topic = IF mem.topic = "baja" THEN None ELSE mem.topic
  BY Zenon DEF ClearService, MemoryOK
<1>3. after.domain = IF mem.domain = "service_request" THEN None ELSE mem.domain
  BY Zenon DEF ClearService, MemoryOK
<1> HIDE DEF after
<1>4. Silent(after)
  BY <1>1, <1>2, <1>3 DEF Silent, MemoryOK, None
<1> QED
  BY <1>4 DEF after

\* What the update counts and notes does not concern the topic.
LEMMA HeardKeepsTopic ==
  ASSUME NEW msg, NEW mem, NEW plugin, NEW capability, MemoryOK(mem)
  PROVE  /\ MemoryOK(Heard(msg, mem, plugin, capability))
         /\ Is(msg, "rejects") => Silent(Heard(msg, mem, plugin, capability))
<1> DEFINE m == IF Is(msg, "rejects") THEN ClearService(mem) ELSE mem
           after == Heard(msg, mem, plugin, capability)
<1>1. MemoryOK(m) /\ (Is(msg, "rejects") => Silent(m))
  BY ClearServiceSilences DEF Silent
<1>2. after = [m EXCEPT !.turns = @ + 1,
                 !.frustration = @ + (IF Marked(msg, {"repetition", "frustration"}) THEN 1 ELSE 0),
                 !.evidence = @ \/ Is(msg, "evidence"),
                 !.reviewed = @ \/ Is(msg, "review"),
                 !.completed = IF Is(msg, "review") /\ @ = << >> THEN <<"revisar_factura">> ELSE @,
                 !.plugin = Or(plugin, @),
                 !.capability = Or(capability, @)]
  BY Zenon DEF Heard
<1> HIDE DEF m, after
<1>3. /\ DOMAIN after = DOMAIN m
      /\ after.topic = m.topic /\ after.domain = m.domain
      /\ after.issue_focus = m.issue_focus /\ after.claim_type = m.claim_type
  BY <1>1, <1>2, Zenon DEF MemoryOK
<1>4. MemoryOK(after) /\ (Is(msg, "rejects") => Silent(after))
  BY <1>1, <1>3 DEF MemoryOK, Silent
<1> QED
  BY <1>4 DEF after

LEMMA LocatedKeepsTopic ==
  ASSUME NEW msg, NEW mem, MessageOK(msg), MemoryOK(mem)
  PROVE  /\ MemoryOK(Located(msg, mem))
         /\ Is(msg, "rejects") /\ Silent(mem) => Silent(Located(msg, mem))
<1> DEFINE after == Located(msg, mem)
<1>1. CASE msg.insurance # None
  <2> DEFINE clear == ClearService(mem)
  <2>1. Silent(clear)
    BY ClearServiceSilences
  <2>2. after = [clear EXCEPT
            !.billing_issue = None, !.issue_focus = None, !.options = FALSE, !.prompt = None,
            !.domain = "insurance", !.plugin = Insurance, !.capability = msg.insurance,
            !.claim_type = IF msg.insurance = "insurance.glass" THEN "cristales"
                           ELSE IF @ = "cristales" THEN None ELSE @]
    BY <1>1, Zenon DEF Located
  <2> HIDE DEF clear, after
  <2>3. DOMAIN after = DOMAIN clear /\ after.topic = clear.topic /\ after.issue_focus = None
    BY <2>1, <2>2, Zenon DEF Silent, MemoryOK
  <2>4. after.domain = "insurance"
    BY <2>1, <2>2, Zenon DEF Silent, MemoryOK
  <2>5. after.claim_type = IF msg.insurance = "insurance.glass" THEN "cristales"
                           ELSE IF clear.claim_type = "cristales" THEN None ELSE clear.claim_type
    BY <2>1, <2>2, Zenon DEF Silent, MemoryOK
  <2>6. Silent(after)
    BY <2>1, <2>3, <2>4, <2>5 DEF Silent, MemoryOK, None
  <2> QED
    BY <2>6 DEF Silent, after
<1>2. CASE ~ (msg.insurance # None)
  <2> DEFINE billing == Is(msg, "billing") \/ BillingContinuation(msg, mem)
             m == IF billing
                  THEN [mem EXCEPT !.domain = "billing", !.plugin = Generic, !.capability = Generic]
                  ELSE mem
             asked_ == Is(msg, "baja") \/ ServiceContinuation(msg, m)
  <2>1. /\ DOMAIN m = DOMAIN mem /\ m.topic = mem.topic
        /\ m.issue_focus = mem.issue_focus /\ m.claim_type = mem.claim_type
    <3> HIDE DEF billing
    <3> QED
      BY Zenon DEF MemoryOK
  <2>2. m.domain \in {mem.domain, "billing"}
    <3> HIDE DEF billing
    <3> QED
      BY Zenon DEF MemoryOK
  <2>3. after = IF asked_
                THEN [m EXCEPT !.topic = IF Is(msg, "baja") THEN "baja" ELSE @,
                           !.domain = Or(@, "service_request"),
                           !.plugin = Generic, !.capability = Generic,
                           !.prompt = "service_request_scope"]
                ELSE m
    BY <1>2, Zenon DEF Located
  <2>4. asked_ => Is(msg, "baja") \/ m.topic # None
    BY DEF ServiceContinuation
  <2> HIDE DEF m, asked_, after
  <2>5. MemoryOK(m) /\ (Silent(mem) => Silent(m))
    BY <2>1, <2>2 DEF MemoryOK, Silent
  <2>6. /\ DOMAIN after = DOMAIN m
        /\ after.issue_focus = m.issue_focus /\ after.claim_type = m.claim_type
    BY <2>3, <2>5, Zenon DEF MemoryOK
  <2>7. asked_ => after.topic = IF Is(msg, "baja") THEN "baja" ELSE m.topic
    BY <2>3, <2>5, Zenon DEF MemoryOK
  <2>8. ~asked_ => after = m
    BY <2>3
  <2>9. MemoryOK(after)
    BY <2>5, <2>6, <2>7, <2>8 DEF MemoryOK
  <2>10. Is(msg, "rejects") /\ Silent(mem) => Silent(after)
    BY <2>4, <2>5, <2>8 DEF MessageOK, Silent
  <2> QED
    BY <2>9, <2>10 DEF after
<1> QED
  BY <1>1, <1>2

\* An option that is selected is about a bill.
LEMMA FocusedKeepsTopic ==
  ASSUME NEW msg, NEW mem, MessageOK(msg), MemoryOK(mem)
  PROVE  /\ MemoryOK(Focused(msg, mem))
         /\ Silent(mem) => Silent(Focused(msg, mem))
<1> DEFINE about(m) == m.domain = "billing" \/ Is(msg, "billing")
           m1 == IF msg.option # None /\ BillingContext(mem)
                 THEN [mem EXCEPT !.issue_focus = msg.option,
                                  !.billing_issue = IF msg.option \in {"reclamo", "reclamo_iniciado"}
                                                    THEN "reclamo_factura" ELSE @,
                                  !.prompt = "billing_option"]
                 ELSE mem
           m2 == IF (Is(msg, "amount") \/ msg.amounts # << >>) /\ about(m1)
                 THEN [m1 EXCEPT !.issue_focus = "importe",
                                 !.billing_issue = Or(@, "importe_incorrecto"),
                                 !.prompt = "billing_amount_followup"]
                 ELSE m1
           after == Focused(msg, mem)
<1>1. after = IF Is(msg, "higher") /\ about(m2)
              THEN [m2 EXCEPT !.billing_issue = "importe_mayor_al_esperado",
                              !.issue_focus = Or(@, "importe")]
              ELSE m2
  BY Zenon DEF Focused
<1>2. m2 = IF (Is(msg, "amount") \/ msg.amounts # << >>) /\ about(m1)
           THEN [m1 EXCEPT !.issue_focus = "importe",
                           !.billing_issue = Or(@, "importe_incorrecto"),
                           !.prompt = "billing_amount_followup"]
           ELSE m1
  OBVIOUS
<1>3. m1 = IF msg.option # None /\ BillingContext(mem)
           THEN [mem EXCEPT !.issue_focus = msg.option,
                            !.billing_issue = IF msg.option \in {"reclamo", "reclamo_iniciado"}
                                              THEN "reclamo_factura" ELSE @,
                            !.prompt = "billing_option"]
           ELSE mem
  OBVIOUS
<1> HIDE DEF m1, m2, after, about
<1>4. /\ DOMAIN m1 = DOMAIN mem /\ m1.topic = mem.topic /\ m1.domain = mem.domain
      /\ m1.claim_type = mem.claim_type /\ m1.issue_focus \in {mem.issue_focus, msg.option}
  BY <1>3, Zenon DEF MemoryOK
<1>5. MemoryOK(m1) /\ (Silent(mem) => Silent(m1))
  BY <1>4 DEF MemoryOK, Silent, MessageOK
<1>6. /\ DOMAIN m2 = DOMAIN m1 /\ m2.topic = m1.topic /\ m2.domain = m1.domain
      /\ m2.claim_type = m1.claim_type /\ m2.issue_focus \in {m1.issue_focus, "importe"}
  BY <1>2, <1>5, Zenon DEF MemoryOK
<1>7. MemoryOK(m2) /\ (Silent(m1) => Silent(m2))
  BY <1>5, <1>6 DEF MemoryOK, Silent
<1>8. /\ DOMAIN after = DOMAIN m2 /\ after.topic = m2.topic /\ after.domain = m2.domain
      /\ after.claim_type = m2.claim_type /\ after.issue_focus \in {m2.issue_focus, Or(m2.issue_focus, "importe")}
  BY <1>1, <1>7, Zenon DEF MemoryOK
<1>9. MemoryOK(after) /\ (Silent(m2) => Silent(after))
  BY <1>7, <1>8 DEF MemoryOK, Silent, Or
<1> QED
  BY <1>5, <1>7, <1>9 DEF after

LEMMA PricedKeepsTopic ==
  ASSUME NEW msg, NEW mem, MemoryOK(mem)
  PROVE  /\ MemoryOK(Priced(msg, mem))
         /\ Silent(mem) => Silent(Priced(msg, mem))
<1> DEFINE said == msg.amounts
           list == Remembered(mem.amounts, said)
           m == [mem EXCEPT !.amounts = list]
           after == Priced(msg, mem)
           told == ~ (said = << >> \/ ~(mem.domain = "billing" \/ Marked(msg, {"billing", "told"})))
<1>1. after = IF ~ told THEN mem
              ELSE IF Len(said) >= 2
              THEN [m EXCEPT !.expected = Or(@, said[1]), !.received = Or(@, said[2]),
                             !.billing_issue = "importe_incorrecto", !.issue_focus = "importe",
                             !.domain = "billing", !.plugin = Generic, !.capability = Generic]
              ELSE [m EXCEPT !.expected = Or(@, said[1])]
  BY DEF Priced
<1>2. m = [mem EXCEPT !.amounts = list]
  OBVIOUS
<1> HIDE DEF list, m, after, told, said
<1>3. /\ DOMAIN m = DOMAIN mem /\ m.topic = mem.topic /\ m.domain = mem.domain
      /\ m.claim_type = mem.claim_type /\ m.issue_focus = mem.issue_focus
  BY <1>2, Zenon DEF MemoryOK
<1>4. MemoryOK(m) /\ (Silent(mem) => Silent(m))
  BY <1>3 DEF MemoryOK, Silent
<1>5. /\ DOMAIN after = DOMAIN m /\ after.topic = m.topic /\ after.domain \in {m.domain, "billing"}
      /\ after.claim_type = m.claim_type /\ after.issue_focus \in {m.issue_focus, "importe"}
  <2>1. CASE ~ told
    BY <1>1, <1>3, <2>1
  <2>2. CASE told /\ Len(said) >= 2
    <3>1. after = [m EXCEPT !.expected = Or(@, said[1]), !.received = Or(@, said[2]),
                     !.billing_issue = "importe_incorrecto", !.issue_focus = "importe",
                     !.domain = "billing", !.plugin = Generic, !.capability = Generic]
      BY <1>1, <2>2, Zenon
    <3> QED
      BY <1>4, <3>1, Zenon DEF MemoryOK
  <2>3. CASE told /\ ~ (Len(said) >= 2)
    <3>1. after = [m EXCEPT !.expected = Or(@, said[1])]
      BY <1>1, <2>3, Zenon
    <3> QED
      BY <1>4, <3>1, Zenon DEF MemoryOK
  <2> QED
    BY <2>1, <2>2, <2>3
<1>6. MemoryOK(after) /\ (Silent(m) => Silent(after))
  BY <1>4, <1>5 DEF MemoryOK, Silent
<1> QED
  BY <1>4, <1>6 DEF after

LEMMA ClosedKeepsTopic ==
  ASSUME NEW msg, NEW mem, NEW capability, NEW action, MemoryOK(mem)
  PROVE  /\ MemoryOK(Closed(msg, mem, capability, action))
         /\ Silent(mem) => Silent(Closed(msg, mem, capability, action))
<1> DEFINE m == IF Is(msg, "glass") \/ capability = "insurance.glass"
                THEN [mem EXCEPT !.claim_type = "cristales", !.plugin = Insurance,
                                 !.capability = "insurance.glass"]
                ELSE mem
           after == Closed(msg, mem, capability, action)
<1>1. after = [m EXCEPT !.handoff = @ \/ action = "prepare_handoff" \/ Is(msg, "person")]
  BY Zenon DEF Closed
<1>2. m = IF Is(msg, "glass") \/ capability = "insurance.glass"
          THEN [mem EXCEPT !.claim_type = "cristales", !.plugin = Insurance,
                           !.capability = "insurance.glass"]
          ELSE mem
  OBVIOUS
<1> HIDE DEF m, after
<1>3. /\ DOMAIN m = DOMAIN mem /\ m.topic = mem.topic /\ m.domain = mem.domain
      /\ m.claim_type \in {mem.claim_type, "cristales"} /\ m.issue_focus = mem.issue_focus
  BY <1>2, Zenon DEF MemoryOK
<1>4. MemoryOK(m) /\ (Silent(mem) => Silent(m))
  BY <1>3 DEF MemoryOK, Silent
<1>5. /\ DOMAIN after = DOMAIN m /\ after.topic = m.topic /\ after.domain = m.domain
      /\ after.claim_type = m.claim_type /\ after.issue_focus = m.issue_focus
  BY <1>1, <1>4, Zenon DEF MemoryOK
<1>6. MemoryOK(after) /\ (Silent(m) => Silent(after))
  BY <1>4, <1>5 DEF MemoryOK, Silent
<1> QED
  BY <1>4, <1>6 DEF after

\* A stage of the update: the first silences what a rejecting text finds, the others
\* leave it silent.
LEMMA UpdateKeepsTopic ==
  ASSUME NEW stage \in DOMAIN After, NEW msg, NEW mem, NEW job, MessageOK(msg), MemoryOK(mem)
  PROVE  /\ MemoryOK(Updated(stage, msg, mem, job))
         /\ Is(msg, "rejects") /\ (stage = "hear" \/ Silent(mem)) => Silent(Updated(stage, msg, mem, job))
<1>1. stage \in {"hear", "locate", "detail"}
  BY DEF After
<1>2. CASE stage = "hear"
  <2>1. Updated(stage, msg, mem, job) = Heard(msg, mem, job.plugin, job.capability)
    BY <1>2 DEF Updated
  <2> QED
    BY <2>1, HeardKeepsTopic
<1>3. CASE stage = "locate"
  <2>1. Updated(stage, msg, mem, job) = Located(msg, mem)
    BY <1>3 DEF Updated
  <2> QED
    BY <1>3, <2>1, LocatedKeepsTopic
<1>4. CASE stage = "detail"
  <2> DEFINE focused == Focused(msg, mem)
             priced == Priced(msg, focused)
             closed == Closed(msg, priced, job.capability, job.action.id)
  <2>1. Updated(stage, msg, mem, job) = closed
    BY <1>4 DEF Updated
  <2>2. MemoryOK(focused) /\ (Is(msg, "rejects") /\ Silent(mem) => Silent(focused))
    BY FocusedKeepsTopic
  <2>3. MemoryOK(priced) /\ (Is(msg, "rejects") /\ Silent(mem) => Silent(priced))
    <3> HIDE DEF focused
    <3> QED
      BY <2>2, PricedKeepsTopic
  <2>4. MemoryOK(closed) /\ (Is(msg, "rejects") /\ Silent(mem) => Silent(closed))
    <3> HIDE DEF priced
    <3> QED
      BY <2>3, ClosedKeepsTopic
  <2> QED
    BY <1>4, <2>1, <2>4
<1> QED
  BY <1>1, <1>2, <1>3, <1>4

\* A decision that brings no cancellation back.
TurnSilent(turn) ==
  turn.topic # "baja" /\ turn.domain # "service_request" /\ turn.next_action # "ask_service_request_scope"

\* The controller finds a cancellation only in what is remembered, or in what is said.
LEMMA ControllerIsSilent ==
  ASSUME NEW msg, NEW mem, MessageOK(msg), Is(msg, "rejects"), Silent(mem)
  PROVE  TurnSilent(Decided(msg, mem))
<1> DEFINE domain_ == InferDomain(msg, mem)
           topic_ == InferTopic(msg, mem)
           act_ == DialogueAct(msg)
           next_ == NextAction(act_, domain_, topic_, mem)
           goal_ == InferGoal(domain_, topic_, mem)
           turn == Decided(msg, mem)
<1>1. turn = [act |-> act_, domain |-> domain_, topic |-> topic_, goal |-> goal_, next_action |-> next_]
  BY Zenon DEF Decided
<1>2. domain_ # "service_request"
  BY DEF InferDomain, MessageOK, Silent
<1>3. topic_ # "baja"
  BY DEF InferTopic, MessageOK, Silent, MemoryOK, Or, None
<1>4. next_ = "ask_service_request_scope" => topic_ = "baja"
  BY DEF NextAction
<1> HIDE DEF domain_, topic_, act_, next_, goal_, turn
<1>5. turn.topic = topic_ /\ turn.domain = domain_ /\ turn.next_action = next_
  BY <1>1
<1>6. TurnSilent(turn)
  BY <1>2, <1>3, <1>4, <1>5 DEF TurnSilent
<1> QED
  BY <1>6 DEF turn

LEMMA AppliedKeepsTopic ==
  ASSUME NEW mem, NEW turn, MemoryOK(mem)
  PROVE  /\ MemoryOK(Applied(mem, turn))
         /\ Silent(mem) /\ TurnSilent(turn) =>
              Silent(Applied(mem, turn)) /\ Applied(mem, turn).next_action # "ask_service_request_scope"
<1> DEFINE after == Applied(mem, turn)
<1>1. after = [mem EXCEPT !.act = turn.act, !.goal = turn.goal, !.next_action = turn.next_action,
                 !.domain = Or(turn.domain, @), !.topic = IF turn.topic = "baja" THEN "baja" ELSE @,
                 !.suggested = IF turn.next_action = "offer_claim_draft" THEN Listed(@, "armar_reclamo")
                               ELSE IF turn.next_action = "prepare_handoff_summary"
                               THEN Listed(@, "preparar_resumen") ELSE @]
  BY Zenon DEF Applied
<1> HIDE DEF after
<1>2. DOMAIN after = DOMAIN mem /\ after.claim_type = mem.claim_type /\ after.issue_focus = mem.issue_focus
  BY <1>1, Zenon DEF MemoryOK
<1>3. after.next_action = turn.next_action /\ after.domain = Or(turn.domain, mem.domain)
  BY <1>1, Zenon DEF MemoryOK
<1>4. after.topic = IF turn.topic = "baja" THEN "baja" ELSE mem.topic
  BY <1>1, Zenon DEF MemoryOK
<1>5. MemoryOK(after)
  BY <1>2, <1>4 DEF MemoryOK
<1>6. Silent(mem) /\ TurnSilent(turn) =>
        Silent(after) /\ after.next_action # "ask_service_request_scope"
  BY <1>3, <1>4, <1>5 DEF Silent, TurnSilent, Or
<1> QED
  BY <1>5, <1>6 DEF after

\* The reply, wherever the message was routed, touches options and signatures only.
LEMMA RepliedKeepsTopic ==
  ASSUME NEW msg, NEW mem, NEW job, MemoryOK(mem)
  PROVE  /\ MemoryOK(Replied(msg, mem, job))
         /\ Silent(mem) => Silent(Replied(msg, mem, job))
         /\ Replied(msg, mem, job).next_action = mem.next_action
<1> DEFINE seen == [mem EXCEPT !.act = job.turn.act]
           reply == ProjectReply(msg, seen, job.route, job.action.id)
           said == Supervised(reply, mem)
           after == Replied(msg, mem, job)
<1>1. after = [mem EXCEPT !.options = @ \/ ListsOptions(reply),
                          !.signatures = LastThree(Append(@, said))]
  BY Zenon DEF Replied
<1> HIDE DEF reply, said, after
<1>2. /\ DOMAIN after = DOMAIN mem /\ after.topic = mem.topic /\ after.domain = mem.domain
      /\ after.claim_type = mem.claim_type /\ after.issue_focus = mem.issue_focus
      /\ after.next_action = mem.next_action
  BY <1>1, Zenon DEF MemoryOK
<1>3. MemoryOK(after) /\ (Silent(mem) => Silent(after))
  BY <1>2 DEF MemoryOK, Silent
<1> QED
  BY <1>2, <1>3 DEF after

-----------------------------------------------------------------------------
\* Every memory is such, what a thread serves is one of the inputs of the setting, and a
\* memory is only ever taken for one conversation.
MemoriesOK == \A m \in DOMAIN memories : MemoryOK(memories[m])

InputsKnown == \A w \in Workers : workers[w].pc # "idle" => workers[w].input \in setting.inputs

Owns(owner) ==
  /\ \A l \in DOMAIN layers, c \in Conversations :
       layers[l].memory[c] # 0 => owner[layers[l].memory[c]] = c
  /\ \A w \in Workers : workers[w].pc \in WithMemory => owner[workers[w].mid] = workers[w].conv

MemoriesOwned == \E owner : Owns(owner)

\* What holds of a thread that has heard a rejection nobody disturbs.
Heeding == {"locate", "detail", "decide", "apply", "finish"}

Heeds(v) ==
  v.pc \in Heeding /\ Is(v.input.msg, "rejects") /\ Undisturbed(v.request) =>
    /\ Silent(memories[v.mid])
    /\ v.pc = "apply" => TurnSilent(v.turn)
    /\ v.pc = "finish" => memories[v.mid].next_action # "ask_service_request_scope"

RejectionsHeld == \A w \in Workers : Heeds(workers[w])

\* The inductive invariant.
RejectionInv == HistoryInv /\ MemoriesOK /\ InputsKnown /\ MemoriesOwned /\ RejectionsHeld

LEMMA InputKnown ==
  ASSUME RejectionInv, NEW w \in Workers, workers[w].pc # "idle"
  PROVE  workers[w].input \in setting.inputs /\ MessageOK(workers[w].input.msg)
<1>1. workers[w].input \in setting.inputs /\ setting \in Settings
  BY DEF RejectionInv, InputsKnown, HistoryInv, PublicInv, Shape
<1> QED
  BY <1>1, ClassifiersAssumption DEF MessageOK

\* The memory of a thread that has one.
LEMMA HasMemory ==
  ASSUME HistoryInv, NEW w \in Workers, workers[w].pc \in WithMemory
  PROVE  "mid" \in DOMAIN workers[w] /\ workers[w].mid \in DOMAIN memories
BY DEF HistoryInv, ThreadsOK, ThreadOK, MemoryFresh, MemoryAt

\* A thread keeps its request, its input and its memory until it answers.
Carries(w, v) ==
  \/ v.pc = "idle"
  \/ /\ v.input = workers[w].input /\ v.request = workers[w].request
     /\ v.conv = workers[w].conv
     /\ workers[w].pc \in WithMemory => v.mid = workers[w].mid

Carried(w, pcs) ==
  /\ setting' = setting
  /\ \E v : workers' = [workers EXCEPT ![w] = v] /\ v.pc \in pcs /\ Carries(w, v)

LEMMA AnswerCarries ==
  ASSUME NEW w \in Workers, NEW answer, Answer(w, answer), setting' = setting
  PROVE  Carried(w, {"idle"})
<1>1. workers' = [workers EXCEPT ![w] = Idle] /\ Idle.pc = "idle"
  BY DEF Answer, Idle
<1> QED
  BY <1>1 DEF Carried, Carries

LEMMA MoveCarries ==
  ASSUME HistoryInv, NEW w \in Workers, workers[w].pc # "idle", NEW pc, setting' = setting,
         workers' = [workers EXCEPT ![w].pc = pc]
  PROVE  Carried(w, {pc})
<1> PICK v : v = [workers[w] EXCEPT !.pc = pc]
  OBVIOUS
<1>1. {"pc", "request", "conv", "input"} \subseteq DOMAIN workers[w]
  BY AtWork DEF HistoryInv
<1>2. /\ v.pc = pc /\ v.input = workers[w].input /\ v.request = workers[w].request
      /\ v.conv = workers[w].conv
  BY <1>1
<1>3. workers[w].pc \in WithMemory => v.mid = workers[w].mid
  BY HasMemory
<1>4. workers' = [workers EXCEPT ![w] = v]
  OBVIOUS
<1> QED
  BY <1>2, <1>3, <1>4 DEF Carried, Carries

LEMMA ExtendCarries ==
  ASSUME HistoryInv, NEW w \in Workers, workers[w].pc # "idle", NEW more, "pc" \in DOMAIN more,
         {"input", "request", "conv"} \intersect DOMAIN more = {},
         "mid" \in DOMAIN more => workers[w].pc \notin WithMemory,
         setting' = setting, workers' = [workers EXCEPT ![w] = Extend(workers[w], more)]
  PROVE  Carried(w, {more.pc})
<1> PICK v : v = Extend(workers[w], more)
  OBVIOUS
<1>1. {"pc", "request", "conv", "input"} \subseteq DOMAIN workers[w]
  BY AtWork DEF HistoryInv
<1>2. /\ v.pc = more.pc /\ v.input = workers[w].input /\ v.request = workers[w].request
      /\ v.conv = workers[w].conv
  BY <1>1 DEF Extend
<1>3. workers[w].pc \in WithMemory => v.mid = workers[w].mid
  BY HasMemory DEF Extend
<1>4. workers' = [workers EXCEPT ![w] = v]
  OBVIOUS
<1> QED
  BY <1>2, <1>3, <1>4 DEF Carried, Carries

\* The steps that take no memory and write none.
Aside(w) ==
  \/ LookupLayer(w) \/ BuildLayer(w) \/ CheckSession(w) \/ CreateSession(w) \/ FetchSession(w)
  \/ RunTurn(w) \/ RouteShadow(w) \/ StoreState(w) \/ ForgetMemory(w) \/ ForgetSession(w)

\* Such a step leaves its thread with the memory it had, and short of hearing.
Short(w) ==
  {"idle", "build", "forget", "start", "layer", "forget_session"} \union
  (IF workers[w].pc \in WithMemory THEN {"create", "fetch", "turn", "shadow", "state", "hear"} ELSE {})

LEMMA CarriedWithin ==
  ASSUME NEW w \in Workers, NEW pcs, Carried(w, pcs), pcs \subseteq Short(w)
  PROVE  Carried(w, Short(w))
BY DEF Carried

LEMMA AsideCarries ==
  ASSUME HistoryInv, NEW w \in Workers, Aside(w)
  PROVE  workers[w].pc # "idle" /\ Carried(w, Short(w))
<1>1. workers[w].pc # "idle" /\ setting' = setting
  BY Zenon DEF Aside, LookupLayer, BuildLayer, CheckSession, CreateSession, FetchSession, RunTurn,
         RouteShadow, StoreState, ForgetMemory, ForgetSession
<1>2. CASE LookupLayer(w)
  <2>1. CASE cache = 0
    <3>1. workers' = [workers EXCEPT ![w].pc = "build"]
      BY <1>2, <2>1 DEF LookupLayer
    <3>2. Carried(w, {"build"})
      BY <1>1, <3>1, MoveCarries
    <3> QED
      BY <1>1, <3>2, CarriedWithin DEF Short
  <2>2. CASE cache # 0
    <3> PICK more : more = [pc    |-> IF workers[w].input.action = "reset_conversation"
                                      THEN "forget" ELSE "start",
                            layer |-> cache]
      OBVIOUS
    <3>1. /\ workers' = [workers EXCEPT ![w] = Extend(workers[w], more)]
          /\ DOMAIN more = {"pc", "layer"} /\ more.pc \in {"forget", "start"}
      BY <1>2, <2>2 DEF LookupLayer
    <3>2. Carried(w, {more.pc})
      BY <1>1, <3>1, ExtendCarries
    <3> QED
      BY <1>1, <3>1, <3>2, CarriedWithin DEF Short
  <2> QED
    BY <2>1, <2>2
<1>3. CASE BuildLayer(w)
  <2>1. Carried(w, {"layer"})
    BY <1>1, <1>3, MoveCarries DEF BuildLayer
  <2> QED
    BY <1>1, <2>1, CarriedWithin DEF Short
<1>4. CASE CheckSession(w)
  <2> PICK pc : pc = IF LayerOf(w).session[Conv(w)] = 0 THEN "create" ELSE "fetch"
    OBVIOUS
  <2>1. workers' = [workers EXCEPT ![w].pc = pc] /\ workers[w].pc = "session"
    BY <1>4 DEF CheckSession
  <2>2. Carried(w, {pc})
    BY <1>1, <2>1, MoveCarries
  <2> QED
    BY <1>1, <2>1, <2>2, CarriedWithin DEF Short, WithMemory
<1>5. CASE CreateSession(w)
  <2>1. Carried(w, {"fetch"})
    BY <1>1, <1>5, MoveCarries DEF CreateSession
  <2>2. workers[w].pc = "create"
    BY <1>5 DEF CreateSession
  <2> QED
    BY <1>1, <2>1, <2>2, CarriedWithin DEF Short, WithMemory
<1>6. CASE FetchSession(w)
  <2> PICK r : r = LayerOf(w).session[Conv(w)]
    OBVIOUS
  <2>1. /\ workers[w].pc = "fetch"
        /\ \/ Answer(w, [kind |-> "key_error"])
           \/ Answer(w, [kind |-> "observed", runtime |-> r])
           \/ workers' = [workers EXCEPT ![w] = Extend(workers[w], [pc |-> "turn", runtime |-> r])]
    BY <1>6 DEF FetchSession
  <2> PICK more : more = [pc |-> "turn", runtime |-> r]
    OBVIOUS
  <2>2. DOMAIN more = {"pc", "runtime"} /\ more.pc = "turn"
    OBVIOUS
  <2>3. CASE workers' = [workers EXCEPT ![w] = Extend(workers[w], more)]
    <3>1. Carried(w, {"turn"})
      BY <1>1, <2>2, <2>3, ExtendCarries
    <3> QED
      BY <1>1, <2>1, <3>1, CarriedWithin DEF Short, WithMemory
  <2>4. CASE \E answer : Answer(w, answer)
    <3>1. Carried(w, {"idle"})
      BY <1>1, <2>4, AnswerCarries
    <3> QED
      BY <1>1, <3>1, CarriedWithin DEF Short
  <2> QED
    BY <2>1, <2>3, <2>4
<1>7. CASE RunTurn(w)
  <2>1. PICK outcome : workers' = [workers EXCEPT ![w] =
                                     Extend(workers[w], [pc |-> "shadow", outcome |-> outcome])]
    BY <1>7 DEF RunTurn
  <2> PICK more : more = [pc |-> "shadow", outcome |-> outcome]
    OBVIOUS
  <2>2. DOMAIN more = {"pc", "outcome"} /\ more.pc = "shadow" /\ workers[w].pc = "turn"
    BY <1>7 DEF RunTurn
  <2>3. Carried(w, {"shadow"})
    BY <1>1, <2>1, <2>2, ExtendCarries
  <2> QED
    BY <1>1, <2>2, <2>3, CarriedWithin DEF Short, WithMemory, WithRuntime
<1>8. CASE RouteShadow(w)
  <2>1. PICK requested, route, version : workers' = [workers EXCEPT ![w] =
          Extend(workers[w], [pc |-> "state", requested |-> requested, route |-> route,
                              version |-> version])]
    BY <1>8, Zenon DEF RouteShadow
  <2> PICK more : more = [pc |-> "state", requested |-> requested, route |-> route, version |-> version]
    OBVIOUS
  <2>2. /\ DOMAIN more = {"pc", "requested", "route", "version"} /\ more.pc = "state"
        /\ workers[w].pc = "shadow"
    BY <1>8 DEF RouteShadow
  <2>3. Carried(w, {"state"})
    BY <1>1, <2>1, <2>2, ExtendCarries
  <2> QED
    BY <1>1, <2>2, <2>3, CarriedWithin DEF Short, WithMemory, WithRuntime, Shadowing
<1>9. CASE StoreState(w)
  <2>1. PICK plugin, capability : workers' = [workers EXCEPT ![w] =
          Extend(workers[w], [pc |-> "hear", plugin |-> plugin, capability |-> capability])]
    BY <1>9, Zenon DEF StoreState
  <2> PICK more : more = [pc |-> "hear", plugin |-> plugin, capability |-> capability]
    OBVIOUS
  <2>2. /\ DOMAIN more = {"pc", "plugin", "capability"} /\ more.pc = "hear"
        /\ workers[w].pc = "state"
    BY <1>9 DEF StoreState
  <2>3. Carried(w, {"hear"})
    BY <1>1, <2>1, <2>2, ExtendCarries
  <2> QED
    BY <1>1, <2>2, <2>3, CarriedWithin DEF Short, WithMemory, WithRuntime, Shadowing
<1>10. CASE ForgetMemory(w)
  <2>1. Carried(w, {"forget_session"})
    BY <1>1, <1>10, MoveCarries DEF ForgetMemory
  <2> QED
    BY <1>1, <2>1, CarriedWithin DEF Short
<1>11. CASE ForgetSession(w)
  <2>1. Carried(w, {"idle"})
    BY <1>1, <1>11, AnswerCarries DEF ForgetSession
  <2> QED
    BY <1>1, <2>1, CarriedWithin DEF Short
<1> QED
  BY <1>1, <1>2, <1>3, <1>4, <1>5, <1>6, <1>7, <1>8, <1>9, <1>10, <1>11 DEF Aside

\* Such a step empties slots of the layers, at most.
LEMMA AsideSlots ==
  ASSUME HistoryInv, NEW w \in Workers, Aside(w)
  PROVE  /\ UNCHANGED memories
         /\ \A l \in DOMAIN layers', c \in Conversations :
              layers'[l].memory[c] # 0 =>
                l \in DOMAIN layers /\ layers'[l].memory[c] = layers[l].memory[c]
<1> PICK k, d : k = workers[w].layer /\ d = workers[w].conv
  OBVIOUS
<1>1. memories' = memories
  BY Zenon DEF Aside, LookupLayer, BuildLayer, CheckSession, CreateSession, FetchSession, RunTurn,
         RouteShadow, StoreState, ForgetMemory, ForgetSession
<1>2. List(layers) /\ (workers[w].pc \notin WithoutLayer => k \in DOMAIN layers /\ d \in Conversations)
  BY LayerKnown DEF HistoryInv, PublicInv, Shape
<1>3. CASE layers' = layers
  BY <1>1, <1>3
<1>4. CASE BuildLayer(w)
  <2>1. layers' = Append(layers, NewLayer)
    BY <1>4 DEF BuildLayer
  <2>2. /\ DOMAIN layers' = DOMAIN layers \union {Len(layers) + 1}
        /\ layers'[Len(layers) + 1] = NewLayer /\ \A l \in DOMAIN layers : layers'[l] = layers[l]
    BY <1>2, <2>1, ListAppend
  <2>3. \A c \in Conversations : NewLayer.memory[c] = 0
    BY DEF NewLayer
  <2> QED
    BY <1>1, <2>2, <2>3
<1>5. ASSUME NEW e, k \in DOMAIN layers, layers' = [layers EXCEPT ![k] = e],
             \A c \in Conversations : e.memory[c] \in {0, layers[k].memory[c]}
      PROVE  \A l \in DOMAIN layers', c \in Conversations :
               layers'[l].memory[c] # 0 =>
                 l \in DOMAIN layers /\ layers'[l].memory[c] = layers[l].memory[c]
  <2>1. /\ DOMAIN layers' = DOMAIN layers /\ layers'[k] = e
        /\ \A l \in DOMAIN layers : l # k => layers'[l] = layers[l]
    BY <1>2, <1>5, ListExcept
  <2> QED
    BY <1>5, <2>1
<1>6. k \in DOMAIN layers => /\ {"session", "memory"} \subseteq DOMAIN layers[k]
                             /\ DOMAIN layers[k].memory = Conversations
  BY DEF HistoryInv, PublicInv, SessionsTrue, SessionsIn, MemoriesTrue, MemoriesIn
<1>7. CASE CreateSession(w) \/ ForgetSession(w)
  <2>1. /\ workers[w].pc \notin WithoutLayer
        /\ \E r : layers' = [layers EXCEPT ![k].session[d] = r]
    BY <1>7, Zenon DEF CreateSession, ForgetSession, Conv, WithoutLayer
  <2>2. PICK r : layers' = [layers EXCEPT ![k].session[d] = r]
    BY <2>1
  <2> PICK e : e = [layers[k] EXCEPT !.session[d] = r]
    OBVIOUS
  <2>3. e.memory = layers[k].memory /\ layers' = [layers EXCEPT ![k] = e]
    BY <1>2, <1>6, <2>1, <2>2
  <2> QED
    BY <1>1, <1>2, <1>5, <2>1, <2>3
<1>8. CASE StoreState(w)
  <2>1. /\ workers[w].pc \notin WithoutLayer
        /\ \E versions : layers' = [layers EXCEPT ![k].version[d] = versions]
    BY <1>8, Zenon DEF StoreState, WithoutLayer
  <2>2. PICK versions : layers' = [layers EXCEPT ![k].version[d] = versions]
    BY <2>1
  <2> PICK e : e = [layers[k] EXCEPT !.version[d] = versions]
    OBVIOUS
  <2>3. e.memory = layers[k].memory /\ layers' = [layers EXCEPT ![k] = e]
    BY <1>2, <1>6, <2>1, <2>2
  <2> QED
    BY <1>1, <1>2, <1>5, <2>1, <2>3
<1>9. CASE ForgetMemory(w)
  <2>1. workers[w].pc \notin WithoutLayer /\ layers' = [layers EXCEPT ![k].memory[d] = 0]
    BY <1>9, Zenon DEF ForgetMemory, Conv, WithoutLayer
  <2> PICK e : e = [layers[k] EXCEPT !.memory[d] = 0]
    OBVIOUS
  <2>2. layers' = [layers EXCEPT ![k] = e]
    BY <2>1
  <2>3. \A c \in Conversations : e.memory[c] \in {0, layers[k].memory[c]}
    BY <1>2, <1>6, <2>1
  <2> QED
    BY <1>1, <1>2, <1>5, <2>1, <2>2, <2>3
<1>10. LookupLayer(w) \/ CheckSession(w) \/ FetchSession(w) \/ RunTurn(w) \/ RouteShadow(w) => layers' = layers
  BY Zenon DEF LookupLayer, CheckSession, FetchSession, RunTurn, RouteShadow
<1> QED
  BY <1>3, <1>4, <1>7, <1>8, <1>9, <1>10 DEF Aside

\* A thread that has taken its memory, or has answered at once.
Takes(w, v, c, mid) ==
  \/ v.pc = "idle"
  \/ /\ v.pc = "session" /\ v.mid = mid /\ v.conv = c
     /\ v.input = workers[w].input /\ v.request = workers[w].request

\* What it does to the memories and to its layer.
Started(w, l, c, mid, v) ==
  /\ workers[w].pc = "start" /\ l \in DOMAIN layers /\ c \in Conversations
  /\ setting' = setting /\ workers' = [workers EXCEPT ![w] = v]
  /\ Takes(w, v, c, mid)
  /\ \/ memories' = Append(memories, NewMemory) /\ mid = Len(memories) + 1
     \/ memories' = memories /\ mid = layers[l].memory[c] /\ mid # 0
  /\ DOMAIN layers' = DOMAIN layers
  /\ \A k \in DOMAIN layers, d \in Conversations :
       layers'[k].memory[d] = IF k = l /\ d = c THEN mid ELSE layers[k].memory[d]

\* A request that finds or creates its memory.
LEMMA StartTakes ==
  ASSUME HistoryInv, NEW w \in Workers, Start(w), NEW l, l = workers[w].layer,
         NEW c, c = workers[w].conv
  PROVE  \E mid, v : Started(w, l, c, mid, v)
<1>1. workers[w].pc = "start" /\ workers[w].pc \notin WithoutLayer /\ setting' = setting
  BY Zenon DEF Start, WithoutLayer
<1>2. /\ l \in DOMAIN layers /\ c \in Conversations /\ SessionsIn(layers[l]) /\ MemoriesIn(layers[l])
      /\ {"pc", "request", "conv", "input"} \subseteq DOMAIN workers[w] /\ List(layers)
  BY <1>1, LayerKnown, AtWork DEF HistoryInv, PublicInv, Shape
<1>3. PICK mid, mem, act :
        /\ \/ memories' = Append(memories, NewMemory) /\ mid = Len(memories) + 1
           \/ memories' = memories /\ mid = layers[l].memory[c] /\ mid # 0
        /\ layers' = [layers EXCEPT ![l].memory[c] = mid]
        /\ IF act.enabled
           THEN workers' = [workers EXCEPT ![w] =
                      Extend(workers[w], [pc |-> "session", mid |-> mid, action |-> act])]
           ELSE Answer(w, [kind |-> "disabled", plugin |-> mem.plugin, capability |-> act.capability])
  <2> DEFINE fresh == layers[l].memory[c] = 0
             mid_ == IF fresh THEN Len(memories) + 1 ELSE layers[l].memory[c]
             mem_ == IF fresh THEN NewMemory ELSE memories[mid_]
             act_ == FindAction(workers[w].input.action, mem_.plugin)
  <2>1. /\ memories' = IF fresh THEN Append(memories, NewMemory) ELSE memories
        /\ layers' = [layers EXCEPT ![l].memory[c] = mid_]
        /\ IF act_.enabled
           THEN workers' = [workers EXCEPT ![w] =
                      Extend(workers[w], [pc |-> "session", mid |-> mid_, action |-> act_])]
           ELSE Answer(w, [kind |-> "disabled", plugin |-> mem_.plugin, capability |-> act_.capability])
    BY Zenon DEF Start, LayerOf, Conv
  <2>2. \/ memories' = Append(memories, NewMemory) /\ mid_ = Len(memories) + 1
        \/ memories' = memories /\ mid_ = layers[l].memory[c] /\ mid_ # 0
    BY <2>1
  <2> HIDE DEF mid_, mem_, act_
  <2> QED BY <2>1, <2>2
<1>4. PICK v : /\ workers' = [workers EXCEPT ![w] = v]
               /\ Takes(w, v, c, mid)
  <2>1. CASE act.enabled
    <3> PICK v : v = Extend(workers[w], [pc |-> "session", mid |-> mid, action |-> act])
      OBVIOUS
    <3>1. /\ v.pc = "session" /\ v.mid = mid /\ v.conv = c
          /\ v.input = workers[w].input /\ v.request = workers[w].request
      BY <1>2 DEF Extend
    <3> QED BY <1>3, <2>1, <3>1 DEF Takes
  <2>2. CASE ~ act.enabled
    <3>1. workers' = [workers EXCEPT ![w] = Idle] /\ Idle.pc = "idle"
      BY <1>3, <2>2 DEF Answer, Idle
    <3> QED BY <3>1 DEF Takes
  <2> QED BY <2>1, <2>2
<1>5. /\ DOMAIN layers' = DOMAIN layers
      /\ \A k \in DOMAIN layers, d \in Conversations :
           layers'[k].memory[d] = IF k = l /\ d = c THEN mid ELSE layers[k].memory[d]
  <2> PICK e : e = [layers[l] EXCEPT !.memory[c] = mid]
    OBVIOUS
  <2>1. layers' = [layers EXCEPT ![l] = e]
    BY <1>3
  <2>2. /\ DOMAIN layers' = DOMAIN layers /\ layers'[l] = e
        /\ \A k \in DOMAIN layers : k # l => layers'[k] = layers[k]
    BY <1>2, <2>1, ListExcept
  <2>3. \A d \in Conversations : e.memory[d] = IF d = c THEN mid ELSE layers[l].memory[d]
    BY <1>2 DEF MemoriesIn
  <2> QED BY <2>2, <2>3
<1>6. Started(w, l, c, mid, v)
  BY <1>1, <1>2, <1>3, <1>4, <1>5 DEF Started
<1> QED BY <1>6, Zenon

-----------------------------------------------------------------------------
\* What every step keeps of the requests.
RequestsStay ==
  /\ DOMAIN answers \subseteq DOMAIN answers'
  /\ \A i \in DOMAIN answers : answers'[i].conv = answers[i].conv /\ answers'[i].after = answers[i].after

LEMMA AnswerStays ==
  ASSUME HistoryInv, NEW w \in Workers, workers[w].pc # "idle",
         NEW answer, Answer(w, answer), "conv" \notin DOMAIN answer, "after" \notin DOMAIN answer
  PROVE  RequestsStay
<1> PICK q, a : q = workers[w].request /\ a = Extend(answers[q], answer)
  OBVIOUS
<1>1. q \in DOMAIN answers /\ RecordOK(answers[q]) /\ List(answers)
  BY AtWork DEF HistoryInv, PublicInv, Shape, RecordsOK
<1>2. answers' = [answers EXCEPT ![q] = a]
  BY DEF Answer
<1>3. /\ DOMAIN answers' = DOMAIN answers /\ answers'[q] = a
      /\ \A i \in DOMAIN answers : i # q => answers'[i] = answers[i]
  BY <1>1, <1>2, ListExcept
<1>4. a.conv = answers[q].conv /\ a.after = answers[q].after
  BY <1>1 DEF Extend, RecordOK
<1> QED
  BY <1>3, <1>4 DEF RequestsStay

LEMMA RequestsKept ==
  ASSUME HistoryInv, NEW w \in Workers, Receive(w) \/ Serve(w)
  PROVE  RequestsStay
<1>1. CASE answers' = answers
  BY <1>1 DEF RequestsStay
<1>2. CASE Receive(w)
  <2>1. List(answers) /\ \E new : answers' = Append(answers, new)
    BY <1>2 DEF Receive, HistoryInv, PublicInv, Shape
  <2> QED
    BY <2>1, ListAppend DEF RequestsStay
<1>3. CASE Start(w)
  <2>1. \/ answers' = answers
        \/ \E plugin, capability :
             Answer(w, [kind |-> "disabled", plugin |-> plugin, capability |-> capability])
    BY <1>3, Zenon DEF Start
  <2>2. ASSUME NEW plugin, NEW capability,
               Answer(w, [kind |-> "disabled", plugin |-> plugin, capability |-> capability])
        PROVE  RequestsStay
    <3>1. workers[w].pc # "idle"
      BY <1>3, Zenon DEF Start
    <3> PICK answer : answer = [kind |-> "disabled", plugin |-> plugin, capability |-> capability]
      OBVIOUS
    <3>2. Answer(w, answer) /\ "conv" \notin DOMAIN answer /\ "after" \notin DOMAIN answer
      BY <2>2
    <3> QED
      BY <3>1, <3>2, AnswerStays
  <2> QED
    BY <1>1, <2>1, <2>2
<1>4. CASE FetchSession(w)
  <2> PICK a1, a2 : /\ a1 = [kind |-> "key_error"]
                    /\ a2 = [kind |-> "observed", runtime |-> LayerOf(w).session[Conv(w)]]
    OBVIOUS
  <2>1. workers[w].pc # "idle" /\ (answers' = answers \/ Answer(w, a1) \/ Answer(w, a2))
    BY <1>4 DEF FetchSession
  <2>2. {"conv", "after"} \intersect (DOMAIN a1 \union DOMAIN a2) = {}
    OBVIOUS
  <2> QED
    BY <1>1, <2>1, <2>2, AnswerStays
<1>5. CASE Finish(w)
  <2>1. workers[w].pc # "idle"
    BY <1>5, Zenon DEF Finish
  <2> QED
    BY <1>5, <2>1, FinishAnswers, AnswerStays
<1>6. CASE ForgetSession(w)
  <2> PICK a : a = [kind |-> "reset"]
    OBVIOUS
  <2>1. /\ workers[w].pc # "idle" /\ Answer(w, a)
        /\ "conv" \notin DOMAIN a /\ "after" \notin DOMAIN a
    BY <1>6 DEF ForgetSession
  <2> QED
    BY <2>1, AnswerStays
<1>7. CASE Serve(w) /\ ~ Start(w) /\ ~ FetchSession(w) /\ ~ Finish(w) /\ ~ ForgetSession(w)
  <2>1. answers' = answers
    BY <1>7, Zenon DEF Serve, LookupLayer, BuildLayer, CheckSession, CreateSession, RunTurn, RouteShadow,
       StoreState, UpdateMemory, Decide, Apply, ForgetMemory
  <2> QED
    BY <1>1, <2>1
<1> QED
  BY <1>2, <1>3, <1>4, <1>5, <1>6, <1>7

\* A request that is undisturbed after a step was so before.
LEMMA UndisturbedBefore ==
  ASSUME RequestsStay, NEW i \in DOMAIN answers, Undisturbed(i)'
  PROVE  Undisturbed(i)
BY DEF RequestsStay, Undisturbed, Before

\* Nobody else works on the memory of an undisturbed request.
LEMMA OthersElsewhere ==
  ASSUME RejectionInv, NEW w \in Workers, NEW u \in Workers, u # w,
         workers[w].pc \in WithMemory, workers[u].pc \in WithMemory,
         Undisturbed(workers[w].request)
  PROVE  workers[u].mid # workers[w].mid
<1> SUFFICES ASSUME workers[u].mid = workers[w].mid PROVE FALSE
  OBVIOUS
<1> PICK i, j : i = workers[w].request /\ j = workers[u].request
  OBVIOUS
<1>1. workers[w].pc # "idle" /\ workers[u].pc # "idle"
  BY DEF WithMemory, WithRuntime, Shadowing
<1>2. /\ i \in DOMAIN answers /\ j \in DOMAIN answers /\ i # j
      /\ answers[i].conv = workers[w].conv /\ answers[j].conv = workers[u].conv
  BY <1>1, AtWork DEF RejectionInv, HistoryInv, PublicInv, RequestsApart
<1>3. workers[u].conv = workers[w].conv
  BY DEF RejectionInv, MemoriesOwned, Owns
<1>4. j \in answers[i].after /\ answers[i].after \subseteq Answered
  BY <1>2, <1>3 DEF Undisturbed, Before, RejectionInv, HistoryInv, RecordsOK, RecordOK
<1>5. answers[j].kind = "pending"
  BY <1>1 DEF RejectionInv, HistoryInv, ThreadsOK, ThreadOK, IsPending
<1> QED
  BY <1>4, <1>5 DEF Answered

\* A step of one thread writes no memory but its own.
OnlyOwn(w) ==
  \A m \in DOMAIN memories :
    memories'[m] = memories[m] \/ (workers[w].pc \in WithMemory /\ m = workers[w].mid)

\* So what the others have heard holds through a step of one thread.
LEMMA OthersHeed ==
  ASSUME RejectionInv, RequestsStay, NEW w \in Workers, NEW v, workers' = [workers EXCEPT ![w] = v],
         OnlyOwn(w), NEW u \in Workers, u # w
  PROVE  Heeds(workers[u])'
<1>1. workers'[u] = workers[u]
  BY DEF RejectionInv, HistoryInv, PublicInv, Shape
<1> PICK x : x = workers[u]
  OBVIOUS
<1> SUFFICES ASSUME x.pc \in Heeding, Is(x.input.msg, "rejects"), Undisturbed(x.request)'
             PROVE  /\ Silent(memories'[x.mid])
                    /\ x.pc = "apply" => TurnSilent(x.turn)
                    /\ x.pc = "finish" => memories'[x.mid].next_action # "ask_service_request_scope"
  BY <1>1 DEF Heeds
<1>2. x.pc \in WithMemory /\ x.pc # "idle"
  BY DEF Heeding, WithMemory, WithRuntime, Shadowing
<1>3. x.request \in DOMAIN answers /\ x.mid \in DOMAIN memories
  BY <1>2, AtWork, HasMemory DEF RejectionInv, HistoryInv
<1>4. Undisturbed(x.request)
  BY <1>3, UndisturbedBefore
<1>5. memories'[x.mid] = memories[x.mid]
  BY <1>2, <1>3, <1>4, OthersElsewhere DEF OnlyOwn
<1>6. Heeds(x)
  BY DEF RejectionInv, RejectionsHeld
<1> QED
  BY <1>4, <1>5, <1>6 DEF Heeds

\* The steps that write the memory, or the decision on it.
Writes(w) == UpdateMemory(w) \/ Decide(w) \/ Apply(w) \/ Finish(w)

HearsWell(v, mem) ==
  \/ v.pc = "hear"
  \/ /\ Silent(mem)
     /\ v.pc = "apply" => TurnSilent(v.turn)
     /\ v.pc = "finish" => mem.next_action # "ask_service_request_scope"

LEMMA WriteHears ==
  ASSUME RejectionInv, NEW w \in Workers, Writes(w),
         NEW msg, msg = workers[w].input.msg, NEW mem, mem = memories[workers[w].mid]
  PROVE  \E v, after :
           /\ workers[w].pc \in WithMemory /\ UNCHANGED <<setting, layers>>
           /\ workers' = [workers EXCEPT ![w] = v] /\ Carries(w, v) /\ v.pc \in Heeding \union {"idle"}
           /\ memories' = [memories EXCEPT ![workers[w].mid] = after] /\ MemoryOK(after)
           /\ Is(msg, "rejects") /\ HearsWell(workers[w], mem) =>
                /\ Silent(after)
                /\ v.pc = "apply" => TurnSilent(v.turn)
                /\ v.pc = "finish" \/ workers[w].pc = "finish" =>
                     after.next_action # "ask_service_request_scope"
<1> PICK x : x = workers[w]
  OBVIOUS
<1>1. /\ x.pc \in {"hear", "locate", "detail", "decide", "apply", "finish"}
      /\ UNCHANGED <<setting, layers>>
  BY DEF Writes, UpdateMemory, Decide, Apply, Finish, After
<1>2. x.pc \in WithMemory /\ x.pc # "idle"
  BY <1>1 DEF WithMemory, WithRuntime, Shadowing
<1>3. x.mid \in DOMAIN memories /\ {"mid", "request", "conv", "input"} \subseteq DOMAIN x
  BY <1>2, HasMemory, AtWork DEF RejectionInv, HistoryInv
<1>4. MessageOK(msg) /\ MemoryOK(mem)
  BY <1>2, <1>3, InputKnown DEF RejectionInv, MemoriesOK
<1>5. CASE UpdateMemory(w)
  <2> PICK v, after : v = Extend(x, [pc |-> After[x.pc]]) /\ after = Updated(x.pc, msg, mem, x)
    OBVIOUS
  <2>1. /\ x.pc \in DOMAIN After /\ workers' = [workers EXCEPT ![w] = v]
        /\ memories' = [memories EXCEPT ![x.mid] = after]
    BY <1>5 DEF UpdateMemory
  <2>2. v.pc \in {"locate", "detail", "decide"} /\ Carries(w, v) /\ x.pc \in {"hear", "locate", "detail"}
    BY <1>3, <2>1 DEF Extend, Carries, After
  <2>3. /\ MemoryOK(after)
        /\ Is(msg, "rejects") /\ (x.pc = "hear" \/ Silent(mem)) => Silent(after)
    BY <1>4, <2>1, UpdateKeepsTopic
  <2> QED
    BY <1>1, <1>2, <2>1, <2>2, <2>3, Zenon DEF Heeding, HearsWell
<1>6. CASE Decide(w)
  <2> PICK turn : turn = Decided(msg, mem)
    OBVIOUS
  <2> PICK v : v = Extend(x, [pc |-> "apply", turn |-> turn])
    OBVIOUS
  <2>1. workers' = [workers EXCEPT ![w] = v] /\ memories' = memories /\ x.pc = "decide"
    BY <1>6 DEF Decide
  <2>2. v.pc = "apply" /\ v.turn = turn /\ Carries(w, v)
    BY <1>3 DEF Extend, Carries
  <2>3. memories' = [memories EXCEPT ![x.mid] = mem]
    BY <1>3, <2>1 DEF RejectionInv, HistoryInv, LayersCounted, List
  <2>4. Is(msg, "rejects") /\ Silent(mem) => TurnSilent(turn)
    BY <1>4, ControllerIsSilent
  <2> QED
    BY <1>1, <1>2, <1>4, <2>1, <2>2, <2>3, <2>4, Zenon DEF Heeding, HearsWell
<1>7. CASE Apply(w)
  <2> PICK v, after : v = Extend(x, [pc |-> "finish"]) /\ after = Applied(mem, x.turn)
    OBVIOUS
  <2>1. /\ workers' = [workers EXCEPT ![w] = v] /\ memories' = [memories EXCEPT ![x.mid] = after]
        /\ x.pc = "apply"
    BY <1>7 DEF Apply
  <2>2. v.pc = "finish" /\ Carries(w, v)
    BY <1>3 DEF Extend, Carries
  <2>3. /\ MemoryOK(after)
        /\ Silent(mem) /\ TurnSilent(x.turn) =>
             Silent(after) /\ after.next_action # "ask_service_request_scope"
    BY <1>4, AppliedKeepsTopic
  <2> QED
    BY <1>1, <1>2, <2>1, <2>2, <2>3, Zenon DEF Heeding, HearsWell
<1>8. CASE Finish(w)
  <2> PICK v, after : v = Idle /\ after = Replied(msg, mem, x)
    OBVIOUS
  <2>1. /\ workers' = [workers EXCEPT ![w] = v] /\ memories' = [memories EXCEPT ![x.mid] = after]
        /\ x.pc = "finish"
    BY <1>8, Zenon DEF Finish, Answer
  <2>2. v.pc = "idle" /\ Carries(w, v)
    BY DEF Carries, Idle
  <2>3. /\ MemoryOK(after) /\ (Silent(mem) => Silent(after)) /\ after.next_action = mem.next_action
    BY <1>4, RepliedKeepsTopic
  <2> QED
    BY <1>1, <1>2, <2>1, <2>2, <2>3, Zenon DEF Heeding, HearsWell
<1> QED
  BY <1>5, <1>6, <1>7, <1>8 DEF Writes

LEMMA RejectionStart == Init => RejectionInv
<1> SUFFICES ASSUME Init
             PROVE  RejectionInv
  OBVIOUS
<1>1. /\ DOMAIN memories = {} /\ DOMAIN layers = {}
      /\ \A w \in Workers : workers[w].pc = "idle"
  BY EmptyList DEF Init, Idle
<1>2. MemoriesOwned
  BY <1>1 DEF MemoriesOwned, Owns, WithMemory, WithRuntime, Shadowing
<1>3. RejectionsHeld
  BY <1>1 DEF RejectionsHeld, Heeds, Heeding
<1> QED
  BY <1>1, <1>2, <1>3, HistoryStart DEF RejectionInv, MemoriesOK, InputsKnown

\* A step of one thread, from what it does to that thread and to the memories.
LEMMA RejectionStep ==
  ASSUME RejectionInv, HistoryInv', RequestsStay, setting' = setting,
         NEW w \in Workers, NEW v, workers' = [workers EXCEPT ![w] = v],
         v.pc = "idle" \/ v.input \in setting.inputs,
         MemoriesOK', MemoriesOwned', Heeds(v)', OnlyOwn(w)
  PROVE  RejectionInv'
<1>1. DOMAIN workers = Workers
  BY DEF RejectionInv, HistoryInv, PublicInv, Shape
<1>2. workers'[w] = v /\ \A u \in Workers : u # w => workers'[u] = workers[u]
  BY <1>1
<1>3. InputsKnown'
  BY <1>2 DEF RejectionInv, InputsKnown
<1>4. Heeds(workers[w])'
  BY <1>2 DEF Heeds
<1>5. RejectionsHeld'
  BY <1>4, OthersHeed DEF RejectionsHeld
<1> QED
  BY <1>3, <1>5 DEF RejectionInv

\* The owners of the memories through such a step.
LEMMA OwnersStay ==
  ASSUME RejectionInv, NEW owner, Owns(owner), NEW w \in Workers, NEW v,
         workers' = [workers EXCEPT ![w] = v],
         v.pc \in WithMemory => workers[w].pc \in WithMemory /\ Carries(w, v) /\ v.pc # "idle",
         \A l \in DOMAIN layers', c \in Conversations :
           layers'[l].memory[c] # 0 => l \in DOMAIN layers /\ layers'[l].memory[c] = layers[l].memory[c]
  PROVE  Owns(owner)'
<1>1. DOMAIN workers = Workers
  BY DEF RejectionInv, HistoryInv, PublicInv, Shape
<1>2. workers'[w] = v /\ \A u \in Workers : u # w => workers'[u] = workers[u]
  BY <1>1
<1>3. v.pc \in WithMemory => owner[v.mid] = v.conv
  BY DEF Owns, Carries
<1> QED
  BY <1>2, <1>3 DEF Owns

LEMMA ReceiveRejection ==
  ASSUME RejectionInv, NEW w \in Workers, Receive(w)
  PROVE  RejectionInv'
<1>1. PICK c \in setting.conversations, input \in setting.inputs :
        workers' = [workers EXCEPT ![w] =
              [pc |-> "layer", request |-> received + 1, conv |-> c, input |-> input]]
  BY DEF Receive
<1> PICK v : v = [pc |-> "layer", request |-> received + 1, conv |-> c, input |-> input]
  OBVIOUS
<1>2. /\ workers' = [workers EXCEPT ![w] = v] /\ v.pc = "layer" /\ v.input \in setting.inputs
      /\ UNCHANGED <<setting, layers, memories>>
  BY <1>1 DEF Receive
<1>3. HistoryInv' /\ RequestsStay
  BY ReceiveHistory, RequestsKept DEF RejectionInv
<1>4. MemoriesOK'
  BY <1>2 DEF RejectionInv, MemoriesOK
<1>5. v.pc \notin WithMemory /\ v.pc \notin Heeding
  BY <1>2 DEF WithMemory, WithRuntime, Shadowing, Heeding
<1>6. MemoriesOwned'
  <2> PICK owner : Owns(owner)
    BY DEF RejectionInv, MemoriesOwned
  <2>1. Owns(owner)'
    BY <1>2, <1>5, OwnersStay
  <2> QED
    BY <2>1 DEF MemoriesOwned
<1>7. Heeds(v)'
  BY <1>5 DEF Heeds
<1>8. OnlyOwn(w) /\ setting' = setting /\ v.input \in setting.inputs
  BY <1>2 DEF OnlyOwn
<1> QED
  BY <1>2, <1>3, <1>4, <1>6, <1>7, <1>8, RejectionStep, Zenon

LEMMA AsideRejection ==
  ASSUME RejectionInv, HistoryInv', NEW w \in Workers, Aside(w)
  PROVE  RejectionInv'
<1>1. workers[w].pc # "idle" /\ Carried(w, Short(w))
  BY AsideCarries DEF RejectionInv
<1>2. PICK v : workers' = [workers EXCEPT ![w] = v] /\ v.pc \in Short(w) /\ Carries(w, v)
  BY <1>1 DEF Carried
<1>3. /\ memories' = memories
      /\ \A l \in DOMAIN layers', c \in Conversations :
           layers'[l].memory[c] # 0 =>
             l \in DOMAIN layers /\ layers'[l].memory[c] = layers[l].memory[c]
  BY AsideSlots DEF RejectionInv
<1>4. RequestsStay
  BY RequestsKept DEF RejectionInv, Aside, Serve
<1>5. MemoriesOK'
  BY <1>3 DEF RejectionInv, MemoriesOK
<1>6. v.pc \notin Heeding
  BY <1>2 DEF Short, Heeding
<1>7. v.pc \in WithMemory => workers[w].pc \in WithMemory /\ v.pc # "idle"
  BY <1>2 DEF Short, WithMemory, WithRuntime, Shadowing
<1>8. MemoriesOwned'
  <2> PICK owner : Owns(owner)
    BY DEF RejectionInv, MemoriesOwned
  <2>1. Owns(owner)'
    BY <1>2, <1>3, <1>7, OwnersStay
  <2> QED
    BY <2>1 DEF MemoriesOwned
<1>9. Heeds(v)'
  BY <1>6 DEF Heeds
<1>10. v.pc = "idle" \/ v.input \in setting.inputs
  BY <1>1, <1>2, InputKnown DEF Carries
<1>11. setting' = setting /\ OnlyOwn(w)
  BY <1>1, <1>3 DEF Carried, OnlyOwn
<1> QED
  BY <1>2, <1>4, <1>5, <1>8, <1>9, <1>10, <1>11, RejectionStep, Zenon

LEMMA WriteRejection ==
  ASSUME RejectionInv, HistoryInv', NEW w \in Workers, Writes(w)
  PROVE  RejectionInv'
<1> PICK x, msg, mem : x = workers[w] /\ msg = x.input.msg /\ mem = memories[x.mid]
  OBVIOUS
<1>1. PICK v, after :
        /\ x.pc \in WithMemory /\ UNCHANGED <<setting, layers>>
        /\ workers' = [workers EXCEPT ![w] = v] /\ Carries(w, v) /\ v.pc \in Heeding \union {"idle"}
        /\ memories' = [memories EXCEPT ![x.mid] = after] /\ MemoryOK(after)
        /\ Is(msg, "rejects") /\ HearsWell(x, mem) =>
             /\ Silent(after)
             /\ v.pc = "apply" => TurnSilent(v.turn)
             /\ v.pc = "finish" \/ x.pc = "finish" => after.next_action # "ask_service_request_scope"
  BY WriteHears
<1>2. x.mid \in DOMAIN memories /\ x.pc # "idle" /\ x.request \in DOMAIN answers
  BY <1>1, HasMemory, AtWork DEF RejectionInv, HistoryInv, WithMemory, WithRuntime, Shadowing
<1>3. RequestsStay
  BY RequestsKept DEF RejectionInv, Writes, Serve
<1>4. /\ DOMAIN memories' = DOMAIN memories /\ memories'[x.mid] = after
      /\ \A m \in DOMAIN memories : memories'[m] = memories[m] \/ m = x.mid
  BY <1>1, <1>2
<1>5. MemoriesOK'
  BY <1>1, <1>4 DEF RejectionInv, MemoriesOK
<1>6. MemoriesOwned'
  <2> PICK owner : Owns(owner)
    BY DEF RejectionInv, MemoriesOwned
  <2>1. v.pc \in WithMemory => v.pc # "idle"
    BY DEF WithMemory, WithRuntime, Shadowing
  <2>2. Owns(owner)'
    BY <1>1, <2>1, OwnersStay
  <2> QED
    BY <2>2 DEF MemoriesOwned
<1>7. Heeds(v)'
  <2> SUFFICES ASSUME v.pc \in Heeding, Is(v.input.msg, "rejects"), Undisturbed(v.request)'
               PROVE  /\ Silent(memories'[v.mid])
                      /\ v.pc = "apply" => TurnSilent(v.turn)
                      /\ v.pc = "finish" => memories'[v.mid].next_action # "ask_service_request_scope"
    BY DEF Heeds
  <2>1. v.input = x.input /\ v.request = x.request /\ v.mid = x.mid
    BY <1>1 DEF Carries, Heeding
  <2>2. Undisturbed(x.request)
    BY <1>2, <1>3, <2>1, UndisturbedBefore
  <2>3. x.pc \in Heeding \union {"hear"} /\ Heeds(x)
    BY DEF Writes, UpdateMemory, Decide, Apply, Finish, After, Heeding, RejectionInv, RejectionsHeld
  <2>4. HearsWell(x, mem)
    BY <2>1, <2>2, <2>3 DEF HearsWell, Heeds
  <2> QED
    BY <1>1, <1>4, <2>1, <2>4
<1>8. v.pc = "idle" \/ v.input \in setting.inputs
  BY <1>1, <1>2, InputKnown DEF Carries
<1>9. setting' = setting /\ OnlyOwn(w)
  BY <1>1, <1>4 DEF OnlyOwn
<1> QED
  BY <1>1, <1>3, <1>5, <1>6, <1>7, <1>8, <1>9, RejectionStep, Zenon

LEMMA StartRejection ==
  ASSUME RejectionInv, HistoryInv', NEW w \in Workers, Start(w)
  PROVE  RejectionInv'
<1> PICK l, c : l = workers[w].layer /\ c = workers[w].conv
  OBVIOUS
<1> PICK mid, v : Started(w, l, c, mid, v)
  BY StartTakes DEF RejectionInv
<1>1. /\ workers[w].pc = "start" /\ l \in DOMAIN layers /\ c \in Conversations
      /\ setting' = setting /\ workers' = [workers EXCEPT ![w] = v]
      /\ Takes(w, v, c, mid)
      /\ \/ memories' = Append(memories, NewMemory) /\ mid = Len(memories) + 1
         \/ memories' = memories /\ mid = layers[l].memory[c] /\ mid # 0
      /\ DOMAIN layers' = DOMAIN layers
      /\ \A k \in DOMAIN layers, d \in Conversations :
           layers'[k].memory[d] = IF k = l /\ d = c THEN mid ELSE layers[k].memory[d]
  BY DEF Started
<1>2. List(memories) /\ DOMAIN workers = Workers
  BY DEF RejectionInv, HistoryInv, LayersCounted, PublicInv, Shape
<1>3. \A m \in DOMAIN memories : m \in DOMAIN memories' /\ memories'[m] = memories[m]
  BY <1>1, <1>2, ListAppend
<1>4. MemoriesOK'
  <2>1. MemoryOK(NewMemory)
    BY DEF MemoryOK, NewMemory, None
  <2>2. CASE memories' = Append(memories, NewMemory)
    BY <1>2, <2>1, <2>2, ListAppend DEF RejectionInv, MemoriesOK
  <2>3. CASE memories' = memories
    BY <2>3 DEF RejectionInv, MemoriesOK
  <2> QED
    BY <1>1, <2>2, <2>3
<1>5. workers'[w] = v /\ \A u \in Workers : u # w => workers'[u] = workers[u]
  BY <1>1, <1>2
<1>6. PICK owner : Owns(owner)
  BY DEF RejectionInv, MemoriesOwned
<1>7. MemoriesOwned'
  <2>1. CASE memories' = memories /\ mid = layers[l].memory[c] /\ mid # 0
    <3>1. owner[mid] = c
      BY <1>1, <1>6, <2>1 DEF Owns
    <3>2. v.pc \in WithMemory => owner[v.mid] = v.conv
      BY <1>1, <3>1 DEF Takes, WithMemory, WithRuntime, Shadowing
    <3>3. Owns(owner)'
      BY <1>1, <1>5, <1>6, <2>1, <3>2 DEF Owns
    <3> QED
      BY <3>3 DEF MemoriesOwned
  <2>2. CASE memories' = Append(memories, NewMemory) /\ mid = Len(memories) + 1
    <3>1. mid \notin DOMAIN memories
      BY <1>2, <2>2, ListAppend
    <3> PICK later : later = [m \in DOMAIN memories \union {mid} |-> IF m = mid THEN c ELSE owner[m]]
      OBVIOUS
    <3>2. later[mid] = c /\ \A m \in DOMAIN memories : later[m] = owner[m]
      BY <3>1
    <3>3. \A k \in DOMAIN layers', d \in Conversations :
            layers'[k].memory[d] # 0 => later[layers'[k].memory[d]] = d
      <4> SUFFICES ASSUME NEW k \in DOMAIN layers', NEW d \in Conversations, layers'[k].memory[d] # 0
                   PROVE  later[layers'[k].memory[d]] = d
        OBVIOUS
      <4>1. CASE k = l /\ d = c
        BY <1>1, <3>2, <4>1
      <4>2. CASE ~ (k = l /\ d = c)
        <5>1. k \in DOMAIN layers /\ layers'[k].memory[d] = layers[k].memory[d]
          BY <1>1, <4>2
        <5>2. layers[k].memory[d] \in DOMAIN memories /\ owner[layers[k].memory[d]] = d
          BY <1>6, <5>1 DEF Owns, RejectionInv, HistoryInv, PlacesTrue, MemoryAt
        <5> QED
          BY <3>2, <5>1, <5>2
      <4> QED
        BY <4>1, <4>2
    <3>4. \A u \in Workers : workers'[u].pc \in WithMemory => later[workers'[u].mid] = workers'[u].conv
      <4>1. \A u \in Workers : workers[u].pc \in WithMemory =>
              workers[u].mid \in DOMAIN memories /\ owner[workers[u].mid] = workers[u].conv
        BY <1>6, HasMemory DEF Owns, RejectionInv
      <4>2. v.pc \in WithMemory => later[v.mid] = v.conv
        BY <1>1, <3>2 DEF Takes, WithMemory, WithRuntime, Shadowing
      <4> QED
        BY <1>5, <3>2, <4>1, <4>2
    <3>5. Owns(later)'
      BY <3>3, <3>4 DEF Owns
    <3> QED
      BY <3>5 DEF MemoriesOwned
  <2> QED
    BY <1>1, <2>1, <2>2
<1>8. Heeds(v)'
  BY <1>1 DEF Takes, Heeds, Heeding
<1>9. v.pc = "idle" \/ v.input \in setting.inputs
  BY <1>1, InputKnown DEF Takes
<1>10. RequestsStay
  BY RequestsKept DEF RejectionInv, Serve
<1>11. setting' = setting /\ OnlyOwn(w)
  BY <1>1, <1>3 DEF OnlyOwn
<1> QED
  BY <1>1, <1>4, <1>7, <1>8, <1>9, <1>10, <1>11, RejectionStep, Zenon

LEMMA RejectionNext == RejectionInv /\ [Next]_vars => RejectionInv'
<1> SUFFICES ASSUME RejectionInv, [Next]_vars
             PROVE  RejectionInv'
  OBVIOUS
<1>1. HistoryInv'
  BY HistoryNext DEF RejectionInv
<1>2. CASE UNCHANGED vars
  <2>1. MemoriesOK' /\ InputsKnown'
    BY <1>2 DEF vars, RejectionInv, MemoriesOK, InputsKnown
  <2>2. MemoriesOwned'
    BY <1>2 DEF vars, RejectionInv, MemoriesOwned, Owns
  <2>3. RejectionsHeld'
    BY <1>2 DEF vars, RejectionInv, RejectionsHeld, Heeds, Undisturbed, Before
  <2> QED
    BY <1>1, <2>1, <2>2, <2>3 DEF RejectionInv
<1>3. ASSUME NEW w \in Workers, Receive(w) \/ Serve(w)
      PROVE  RejectionInv'
  BY <1>1, <1>3, ReceiveRejection, StartRejection, AsideRejection, WriteRejection DEF Serve, Aside, Writes
<1> QED
  BY <1>2, <1>3 DEF Next, Rest

\* However the steps of other requests interleave, a turn that hears a cancellation
\* rejected, and that no other request of its conversation overlaps, leaves no trace of one.
THEOREM RejectionsAreHeard == Spec => RejectionHeard
<1> DEFINE Rejects(w) == /\ workers[w].pc = "finish" /\ workers'[w].pc = "idle"
                         /\ Is(workers[w].input.msg, "rejects") /\ Undisturbed(workers[w].request)
           Unasked(mem) == /\ mem.topic # "baja" /\ mem.domain # "service_request"
                           /\ mem.next_action # "ask_service_request_scope"
<1>1. ASSUME RejectionInv, Next, NEW w \in Workers, Rejects(w)
      PROVE  Unasked(memories'[workers[w].mid])
  <2>1. DOMAIN workers = Workers
    BY <1>1 DEF RejectionInv, HistoryInv, PublicInv, Shape
  <2>2. PICK u \in Workers : Receive(u) \/ Serve(u)
    BY <1>1 DEF Next, Rest, vars
  <2>3. u = w
    <3> SUFFICES ASSUME u # w PROVE FALSE
      OBVIOUS
    <3>1. \E v : workers' = [workers EXCEPT ![u] = v]
      <4>1. CASE Receive(u)
        BY <4>1 DEF Receive
      <4>2. CASE Start(u)
        BY <1>1, <4>2, StartTakes DEF Started, RejectionInv
      <4>3. CASE Aside(u)
        BY <1>1, <4>3, AsideCarries DEF Carried, RejectionInv
      <4>4. CASE Writes(u)
        BY <1>1, <4>4, WriteHears
      <4> QED
        BY <2>2, <4>1, <4>2, <4>3, <4>4 DEF Serve, Aside, Writes
    <3> QED
      BY <1>1, <2>1, <3>1
  <2>4. Finish(w)
    BY <1>1, <2>2, <2>3, Zenon DEF Receive, Serve, LookupLayer, BuildLayer, Start, CheckSession,
       CreateSession, FetchSession, RunTurn, RouteShadow, StoreState, UpdateMemory, Decide, Apply,
       ForgetMemory, ForgetSession, After
  <2>5. workers[w].mid \in DOMAIN memories /\ Heeds(workers[w])
    BY <1>1, HasMemory DEF RejectionInv, RejectionsHeld, WithMemory, WithRuntime, Shadowing
  <2>6. HearsWell(workers[w], memories[workers[w].mid])
    BY <1>1, <2>5 DEF HearsWell, Heeds, Heeding
  <2>7. PICK after : /\ memories' = [memories EXCEPT ![workers[w].mid] = after]
                     /\ Silent(after) /\ after.next_action # "ask_service_request_scope"
    BY <1>1, <2>4, <2>6, WriteHears DEF Writes
  <2>8. memories'[workers[w].mid] = after
    BY <2>5, <2>7
  <2> QED
    BY <2>7, <2>8 DEF Silent, None
<1>2. RejectionInv /\ [Next]_vars => [\A w \in Workers : Rejects(w) => Unasked(memories'[workers[w].mid])]_vars
  BY <1>1
<1> QED
  BY <1>2, RejectionStart, RejectionNext, PTL DEF Spec, RejectionHeard

\* So it does with both endpoints under the same threads.
THEOREM ServerHearsRejections == ServerSpec => RejectionHeard
BY ServerRunsLayer, RejectionsAreHeard, PTL

-----------------------------------------------------------------------------
\* Induction up to n, for the numbers of a set.
LEMMA UpTo ==
  ASSUME NEW n \in Nat, NEW P, 0 \in P, \A k \in 0..n : k \in P /\ k # n => k + 1 \in P
  PROVE  \A k \in 0..n : k \in P
<1> DEFINE Bad == {k \in 0..n : k \notin P}
<1> SUFFICES ASSUME Bad # {} PROVE FALSE
  OBVIOUS
<1>1. Bad \subseteq Nat
  OBVIOUS
<1>2. PICK k \in Bad : \A j \in Bad : <<j, k>> \notin OpToRel(<, Nat)
  <2> HIDE DEF Bad
  <2> QED
    BY <1>1, NatLessThanWellFounded, WFMin
<1>3. \A j \in Bad : ~ (j < k)
  BY <1>1, <1>2 DEF OpToRel
<1>4. k \in 0..n /\ k # 0 /\ k - 1 \in 0..n /\ k - 1 # n /\ (k - 1) + 1 = k
  OBVIOUS
<1>5. k - 1 \in P
  BY <1>3, <1>4
<1> QED
  BY <1>4, <1>5

\* The last index of a set of them.
LEMMA LargestIndex ==
  ASSUME NEW n \in Nat, NEW s \in SUBSET (1..n), s # {}
  PROVE  /\ Max(s) \in s
         /\ \A i \in s : i <= Max(s)
<1>1. \E x \in s : \A i \in s : i <= x
  <2> DEFINE Above(k) == k \in Nat /\ \A i \in s : i <= n - k
             Bounds == {k \in Nat : \A i \in s : i <= k}
  <2>1. n \in Bounds
    OBVIOUS
  <2>2. PICK k \in Bounds : \A j \in Bounds : <<j, k>> \notin OpToRel(<, Nat)
    <3>1. Bounds \subseteq Nat /\ Bounds # {}
      BY <2>1
    <3> HIDE DEF Bounds
    <3> QED
      BY <3>1, NatLessThanWellFounded, WFMin
  <2>3. \A j \in Bounds : ~ (j < k)
    BY <2>2 DEF OpToRel
  <2>4. k \in s
    <3> SUFFICES ASSUME k \notin s PROVE FALSE
      OBVIOUS
    <3>1. \A i \in s : i <= k - 1 /\ i >= 1
      OBVIOUS
    <3>2. k >= 1
      <4>1. PICK i \in s : i >= 1 /\ i <= k /\ i \in Nat
        <5>1. PICK i : i \in s
          OBVIOUS
        <5>2. i \in 1..n /\ i <= k
          BY <5>1
        <5> QED
          BY <5>1, <5>2
      <4> QED
        BY <4>1
    <3>3. k - 1 \in Bounds
      BY <3>1, <3>2
    <3> QED
      BY <2>3, <3>3
  <2> QED
    BY <2>4
<1> QED
  BY <1>1 DEF Max

\* FoldLeft recurs over the sets of indices; on the sets up to n its recursion has a solution
\* when it has one up to n - 1.
Recursion(g, seen, said, S) ==
  \A s \in SUBSET S :
    g[s] = IF s = {} THEN seen ELSE Listed(g[s \ {Max(s)}], said[Max(s)])

LEMMA RecursionSolved ==
  ASSUME NEW seen, NEW said, NEW n \in Nat
  PROVE  \E g : g = [s \in SUBSET (1..n) |-> g[s]] /\ Recursion(g, seen, said, 1..n)
<1> DEFINE D == 1..n
           Solved(k) == \E g : g = [s \in SUBSET D |-> g[s]] /\ Recursion(g, seen, said, 1..k)
           P == {k \in 0..n : Solved(k)}
<1>1. Solved(0)
  <2> DEFINE g == [s \in SUBSET D |-> seen]
  <2>1. g = [s \in SUBSET D |-> g[s]]
    OBVIOUS
  <2>2. Recursion(g, seen, said, 1..0)
    <3>1. 1..0 = {} /\ {} \in SUBSET D
      OBVIOUS
    <3>2. \A s \in SUBSET {} : s = {}
      OBVIOUS
    <3> QED
      BY <3>1, <3>2, Zenon DEF Recursion
  <2> QED
    BY <2>1, <2>2
<1>2. ASSUME NEW k \in 0..n, k # n, Solved(k)
      PROVE  Solved(k + 1)
  <2>1. PICK g : g = [s \in SUBSET D |-> g[s]] /\ Recursion(g, seen, said, 1..k)
    BY <1>2
  <2> DEFINE Then(f, s) == IF s = {} THEN seen ELSE Listed(f[s \ {Max(s)}], said[Max(s)])
             h == [s \in SUBSET D |-> Then(g, s)]
  <2>2. \A s \in SUBSET (1..k) : g[s] = Then(g, s)
    BY <2>1, Zenon DEF Recursion
  <2>3. \A s \in SUBSET (1..(k + 1)) : s \in SUBSET D
    BY <1>2
  <2>4. \A s \in SUBSET (1..(k + 1)) : s # {} => s \ {Max(s)} \in SUBSET (1..k)
    <3> SUFFICES ASSUME NEW s \in SUBSET (1..(k + 1)), s # {}, NEW i \in s \ {Max(s)}
                 PROVE  i \in 1..k
      OBVIOUS
    <3>1. Max(s) \in s /\ \A j \in s : j <= Max(s)
      BY LargestIndex, k + 1 \in Nat
    <3>2. i \in 1..(k + 1) /\ i # Max(s) /\ Max(s) \in 1..(k + 1) /\ i <= Max(s)
      BY <3>1
    <3> HIDE DEF Solved
    <3> QED
      BY <1>2, <3>2
  <2>5. \A s \in SUBSET D : h[s] = Then(g, s)
    BY Zenon
  <2> HIDE DEF h
  <2>6. \A s \in SUBSET (1..(k + 1)) : h[s] = Then(h, s)
    <3> SUFFICES ASSUME NEW s \in SUBSET (1..(k + 1)) PROVE h[s] = Then(h, s)
      OBVIOUS
    <3>1. h[s] = Then(g, s)
      BY <2>3, <2>5
    <3>2. CASE s = {}
      BY <3>1, <3>2
    <3>3. CASE s # {}
      <4> DEFINE r == s \ {Max(s)}
      <4>1. r \in SUBSET (1..k)
        BY <2>4, <3>3
      <4>2. r \in SUBSET D
        BY <1>2, <4>1
      <4>3. h[r] = g[r]
        BY <2>2, <2>5, <4>1, <4>2, Zenon
      <4> QED
        BY <3>1, <3>3, <4>3, Zenon
    <3> QED
      BY <3>2, <3>3
  <2>7. h = [s \in SUBSET D |-> h[s]]
    BY Zenon DEF h
  <2> QED
    BY <2>6, <2>7, Zenon DEF Recursion
<1> HIDE DEF Solved
<1>3. 0 \in P /\ \A k \in 0..n : k \in P /\ k # n => k + 1 \in P
  BY <1>1, <1>2
<1>4. n \in P
  <2> HIDE DEF P
  <2> QED
    BY <1>3, UpTo, n \in 0..n
<1> QED
  BY <1>4 DEF Solved

\* The fold goes from the start of the list to its end, one element after the other.
LEMMA RememberedSteps ==
  ASSUME NEW seen, NEW said, List(said)
  PROVE  \E h : /\ h[0] = seen
                /\ \A k \in 1..Len(said) : h[k] = Listed(h[k - 1], said[k])
                /\ Remembered(seen, said) = h[Len(said)]
<1> DEFINE n == Len(said)
           Rec(it) == it = [s \in SUBSET DOMAIN said |-> IF s = {} THEN seen ELSE Listed(it[s \ {Max(s)}], said[Max(s)])]
           iter == CHOOSE it : Rec(it)
<1>1. Remembered(seen, said) = iter[DOMAIN said]
  BY Zenon DEF Remembered, FoldLeft, MapThenFoldSet
<1>2. n \in Nat /\ DOMAIN said = 1..n
  BY ListIsSeq
<1> HIDE DEF n
<1>3. Rec(iter)
  <2>1. PICK g : g = [s \in SUBSET (1..n) |-> g[s]] /\ Recursion(g, seen, said, 1..n)
    BY <1>2, RecursionSolved
  <2>2. Rec(g)
    BY <1>2, <2>1, Zenon DEF Recursion
  <2> HIDE DEF Rec
  <2> QED
    BY <2>2
<1> HIDE DEF iter
<1>4. \A s \in SUBSET (1..n) : iter[s] = IF s = {} THEN seen ELSE Listed(iter[s \ {Max(s)}], said[Max(s)])
  BY <1>2, <1>3, Zenon
<1> DEFINE h == [k \in 0..n |-> iter[1..k]]
<1>5. h[0] = seen
  <2>1. 1..0 = {} /\ 0 \in 0..n
    BY <1>2
  <2> QED
    BY <1>4, <2>1
<1>6. ASSUME NEW k \in 1..n
      PROVE  h[k] = Listed(h[k - 1], said[k])
  <2>1. /\ 1..k \in SUBSET (1..n) /\ 1..k # {} /\ k \in Nat /\ k \in 1..k
        /\ k \in 0..n /\ k - 1 \in 0..n
    BY <1>2
  <2>2. Max(1..k) \in 1..k /\ \A i \in 1..k : i <= Max(1..k)
    BY <2>1, LargestIndex
  <2>3. Max(1..k) = k
    BY <2>1, <2>2
  <2>4. (1..k) \ {k} = 1..(k - 1)
    BY <2>1
  <2>5. iter[1..k] = Listed(iter[1..(k - 1)], said[k])
    BY <1>4, <2>1, <2>3, <2>4, Zenon
  <2> QED
    BY <2>1, <2>5
<1>7. iter[DOMAIN said] = h[n]
  BY <1>2
<1> HIDE DEF h
<1> QED
  BY <1>1, <1>5, <1>6, <1>7 DEF n

\* So it holds on to what was there and takes everything that was said.
LEMMA RememberedHolds ==
  ASSUME NEW seen, List(seen), NEW said, List(said)
  PROVE  /\ List(Remembered(seen, said))
         /\ ToSet(seen) \union ToSet(said) \subseteq ToSet(Remembered(seen, said))
<1>1. PICK h : /\ h[0] = seen
               /\ \A k \in 1..Len(said) : h[k] = Listed(h[k - 1], said[k])
               /\ Remembered(seen, said) = h[Len(said)]
  BY RememberedSteps, Zenon
<1>2. ASSUME NEW s, NEW a, List(s)
      PROVE  /\ List(Listed(s, a)) /\ a \in ToSet(Listed(s, a)) /\ ToSet(s) \subseteq ToSet(Listed(s, a))
  <2> DEFINE t == Append(s, a)
  <2>1. /\ List(t) /\ DOMAIN t = DOMAIN s \union {Len(s) + 1}
        /\ t[Len(s) + 1] = a /\ \A i \in DOMAIN s : t[i] = s[i]
    BY <1>2, ListAppend
  <2> HIDE DEF t
  <2>2. List(t) /\ a \in ToSet(t) /\ ToSet(s) \subseteq ToSet(t)
    BY <2>1, Zenon DEF ToSet
  <2>3. Listed(s, a) = IF a \in ToSet(s) THEN s ELSE t
    BY DEF Listed, t
  <2> QED
    BY <1>2, <2>2, <2>3
<1> DEFINE n == Len(said)
           Good(k) == /\ List(h[k]) /\ ToSet(seen) \subseteq ToSet(h[k])
                      /\ \A i \in 1..k : said[i] \in ToSet(h[k])
           P == {k \in 0..n : Good(k)}
<1>3. n \in Nat /\ DOMAIN said = 1..n
  BY ListIsSeq
<1> HIDE DEF n
<1>4. Good(0)
  BY <1>1
<1>5. ASSUME NEW k \in 0..n, k # n, Good(k)
      PROVE  Good(k + 1)
  <2>1. k + 1 \in 1..n /\ (k + 1) - 1 = k
    BY <1>3, <1>5
  <2>2. h[k + 1] = Listed(h[k], said[k + 1])
    BY <1>1, <2>1 DEF n
  <2>3. /\ List(h[k + 1]) /\ said[k + 1] \in ToSet(h[k + 1]) /\ ToSet(h[k]) \subseteq ToSet(h[k + 1])
    BY <1>2, <1>5, <2>2, Zenon
  <2>4. \A i \in 1..(k + 1) : i \in 1..k \/ i = k + 1
    BY <1>3
  <2> QED
    BY <1>5, <2>3, <2>4
<1> HIDE DEF Good
<1>6. 0 \in P /\ \A k \in 0..n : k \in P /\ k # n => k + 1 \in P
  BY <1>3, <1>4, <1>5
<1>7. n \in P
  <2> HIDE DEF P
  <2> QED
    BY <1>3, <1>6, n \in 0..n, UpTo
<1>8. Remembered(seen, said) = h[n] /\ Good(n)
  BY <1>1, <1>7 DEF n
<1> QED
  BY <1>3, <1>8, Zenon DEF Good, ToSet
-----------------------------------------------------------------------------
\* What a memory knows of a pair of amounts was heard, the first before the second.
PairOK(mem) ==
  /\ {"expected", "received", "amounts"} \subseteq DOMAIN mem
  /\ List(mem.amounts)
  /\ {mem.expected, mem.received} \subseteq ToSet(mem.amounts) \union {None}
  /\ mem.received # None => mem.expected # None

SamePair(mem, after) ==
  /\ {"expected", "received", "amounts"} \subseteq DOMAIN after
  /\ after.expected = mem.expected /\ after.received = mem.received /\ after.amounts = mem.amounts

LEMMA SamePairOK ==
  ASSUME NEW mem, NEW after, PairOK(mem), SamePair(mem, after)
  PROVE  PairOK(after)
BY DEF PairOK, SamePair

LEMMA ClearServiceKeepsPair ==
  ASSUME NEW mem, PairOK(mem)
  PROVE  PairOK(ClearService(mem))
<1>1. SamePair(mem, ClearService(mem))
  BY Zenon DEF ClearService, PairOK, SamePair
<1> QED
  BY <1>1, SamePairOK

LEMMA HeardKeepsPair ==
  ASSUME NEW msg, NEW mem, NEW plugin, NEW capability, PairOK(mem)
  PROVE  PairOK(Heard(msg, mem, plugin, capability))
<1> DEFINE m == IF Is(msg, "rejects") THEN ClearService(mem) ELSE mem
           after == Heard(msg, mem, plugin, capability)
<1>1. PairOK(m)
  BY ClearServiceKeepsPair
<1>2. after = [m EXCEPT !.turns = @ + 1,
                 !.frustration = @ + (IF Marked(msg, {"repetition", "frustration"}) THEN 1 ELSE 0),
                 !.evidence = @ \/ Is(msg, "evidence"),
                 !.reviewed = @ \/ Is(msg, "review"),
                 !.completed = IF Is(msg, "review") /\ @ = << >> THEN <<"revisar_factura">> ELSE @,
                 !.plugin = Or(plugin, @),
                 !.capability = Or(capability, @)]
  BY Zenon DEF Heard
<1> HIDE DEF m, after
<1>3. SamePair(m, after)
  BY <1>1, <1>2, Zenon DEF PairOK, SamePair
<1>4. PairOK(after)
  BY <1>1, <1>3, SamePairOK
<1> QED
  BY <1>4 DEF after

LEMMA LocatedKeepsPair ==
  ASSUME NEW msg, NEW mem, PairOK(mem)
  PROVE  PairOK(Located(msg, mem))
<1> DEFINE after == Located(msg, mem)
<1>1. CASE msg.insurance # None
  <2> DEFINE clear == ClearService(mem)
  <2>1. PairOK(clear)
    BY ClearServiceKeepsPair
  <2>2. after = [clear EXCEPT
            !.billing_issue = None, !.issue_focus = None, !.options = FALSE, !.prompt = None,
            !.domain = "insurance", !.plugin = Insurance, !.capability = msg.insurance,
            !.claim_type = IF msg.insurance = "insurance.glass" THEN "cristales"
                           ELSE IF @ = "cristales" THEN None ELSE @]
    BY <1>1, Zenon DEF Located
  <2> HIDE DEF clear, after
  <2>3. SamePair(clear, after)
    BY <2>1, <2>2, Zenon DEF PairOK, SamePair
  <2>4. PairOK(after)
    BY <2>1, <2>3, SamePairOK
  <2> QED
    BY <2>4 DEF after
<1>2. CASE ~ (msg.insurance # None)
  <2> DEFINE billing == Is(msg, "billing") \/ BillingContinuation(msg, mem)
             m == IF billing
                  THEN [mem EXCEPT !.domain = "billing", !.plugin = Generic, !.capability = Generic]
                  ELSE mem
             served == Is(msg, "baja") \/ ServiceContinuation(msg, m)
  <2>1. after = IF served
                THEN [m EXCEPT !.topic = IF Is(msg, "baja") THEN "baja" ELSE @,
                               !.domain = Or(@, "service_request"),
                               !.plugin = Generic, !.capability = Generic,
                               !.prompt = "service_request_scope"]
                ELSE m
    BY <1>2, Zenon DEF Located
  <2>2. SamePair(mem, m)
    BY Zenon DEF PairOK, SamePair
  <2>3. PairOK(m)
    <3> HIDE DEF m
    <3> QED
      BY <2>2, SamePairOK
  <2> HIDE DEF m, served, after
  <2>4. SamePair(m, after)
    BY <2>1, <2>3, Zenon DEF PairOK, SamePair
  <2>5. PairOK(after)
    BY <2>3, <2>4, SamePairOK
  <2> QED
    BY <2>5 DEF after
<1> QED
  BY <1>1, <1>2

LEMMA FocusedKeepsPair ==
  ASSUME NEW msg, NEW mem, PairOK(mem)
  PROVE  PairOK(Focused(msg, mem))
<1> DEFINE about(m) == m.domain = "billing" \/ Is(msg, "billing")
           m1 == IF msg.option # None /\ BillingContext(mem)
                 THEN [mem EXCEPT !.issue_focus = msg.option,
                                  !.billing_issue = IF msg.option \in {"reclamo", "reclamo_iniciado"}
                                                    THEN "reclamo_factura" ELSE @,
                                  !.prompt = "billing_option"]
                 ELSE mem
           m2 == IF (Is(msg, "amount") \/ msg.amounts # << >>) /\ about(m1)
                 THEN [m1 EXCEPT !.issue_focus = "importe",
                                 !.billing_issue = Or(@, "importe_incorrecto"),
                                 !.prompt = "billing_amount_followup"]
                 ELSE m1
           after == Focused(msg, mem)
<1>1. after = IF Is(msg, "higher") /\ about(m2)
              THEN [m2 EXCEPT !.billing_issue = "importe_mayor_al_esperado",
                              !.issue_focus = Or(@, "importe")]
              ELSE m2
  BY Zenon DEF Focused
<1>2. m2 = IF (Is(msg, "amount") \/ msg.amounts # << >>) /\ about(m1)
           THEN [m1 EXCEPT !.issue_focus = "importe",
                           !.billing_issue = Or(@, "importe_incorrecto"),
                           !.prompt = "billing_amount_followup"]
           ELSE m1
  OBVIOUS
<1>3. SamePair(mem, m1)
  BY Zenon DEF PairOK, SamePair
<1> HIDE DEF m1, m2, after
<1>4. PairOK(m1)
  BY <1>3, SamePairOK
<1>5. SamePair(m1, m2)
  BY <1>2, <1>4, Zenon DEF PairOK, SamePair
<1>6. PairOK(m2)
  BY <1>4, <1>5, SamePairOK
<1>7. SamePair(m2, after)
  BY <1>1, <1>6, Zenon DEF PairOK, SamePair
<1>8. PairOK(after)
  BY <1>6, <1>7, SamePairOK
<1> QED
  BY <1>8 DEF after

\* The amounts of a message join the list, and its first two the pair where it was open.
LEMMA PricedKeepsPair ==
  ASSUME NEW msg, NEW mem, PairOK(mem), List(msg.amounts), None \notin ToSet(msg.amounts)
  PROVE  PairOK(Priced(msg, mem))
<1> DEFINE said == msg.amounts
           list == Remembered(mem.amounts, said)
           m == [mem EXCEPT !.amounts = list]
           after == Priced(msg, mem)
           told == ~ (said = << >> \/ ~(mem.domain = "billing" \/ Marked(msg, {"billing", "told"})))
<1>1. after = IF ~ told THEN mem
              ELSE IF Len(said) >= 2
              THEN [m EXCEPT !.expected = Or(@, said[1]), !.received = Or(@, said[2]),
                             !.billing_issue = "importe_incorrecto", !.issue_focus = "importe",
                             !.domain = "billing", !.plugin = Generic, !.capability = Generic]
              ELSE [m EXCEPT !.expected = Or(@, said[1])]
  BY DEF Priced
<1>2. List(list) /\ ToSet(mem.amounts) \union ToSet(said) \subseteq ToSet(list)
  BY RememberedHolds DEF PairOK
<1>3. m = [mem EXCEPT !.amounts = list] /\ List(said) /\ None \notin ToSet(said) /\ (told => said # << >>)
  OBVIOUS
<1> HIDE DEF list, m, after, told, said
<1>4. /\ {"expected", "received", "amounts"} \subseteq DOMAIN m
      /\ m.expected = mem.expected /\ m.received = mem.received /\ m.amounts = list
  BY <1>3, Zenon DEF PairOK
<1>5. Len(said) \in Nat /\ DOMAIN said = 1..Len(said)
  BY <1>3, ListIsSeq
<1>6. CASE ~ told
  BY <1>1, <1>6 DEF after
<1>7. CASE told
  <2>1. Len(said) # 0
    <3> SUFFICES ASSUME Len(said) = 0 PROVE FALSE
      OBVIOUS
    <3>1. said \in Seq({said[i] : i \in DOMAIN said})
      BY <1>3, ListIsSeq
    <3>2. said = << >>
      BY <3>1
    <3> QED
      BY <1>3, <1>7, <3>2
  <2>2. said[1] \in ToSet(said)
    BY <1>5, <2>1 DEF ToSet
  <2>3. said[1] \in ToSet(list) /\ said[1] # None
    BY <1>2, <1>3, <2>2
  <2>4. /\ {m.expected, m.received} \subseteq ToSet(m.amounts) \union {None}
        /\ m.received # None => m.expected # None
        /\ List(m.amounts)
    BY <1>2, <1>4 DEF PairOK
  <2>5. CASE Len(said) >= 2
    <3>1. after = [m EXCEPT !.expected = Or(@, said[1]), !.received = Or(@, said[2]),
                     !.billing_issue = "importe_incorrecto", !.issue_focus = "importe",
                     !.domain = "billing", !.plugin = Generic, !.capability = Generic]
      BY <1>1, <1>7, <2>5, Zenon
    <3>2. said[2] \in ToSet(said)
      BY <1>5, <2>5 DEF ToSet
    <3>3. said[2] \in ToSet(list)
      BY <1>2, <3>2
    <3>4. /\ {"expected", "received", "amounts"} \subseteq DOMAIN after
          /\ after.expected = Or(m.expected, said[1]) /\ after.received = Or(m.received, said[2])
          /\ after.amounts = m.amounts
      BY <1>4, <3>1, Zenon
    <3>5. PairOK(after)
      BY <1>4, <2>3, <2>4, <3>3, <3>4 DEF PairOK, Or
    <3> QED
      BY <3>5 DEF after
  <2>6. CASE ~ (Len(said) >= 2)
    <3>1. after = [m EXCEPT !.expected = Or(@, said[1])]
      BY <1>1, <1>7, <2>6, Zenon
    <3>2. /\ {"expected", "received", "amounts"} \subseteq DOMAIN after
          /\ after.expected = Or(m.expected, said[1]) /\ after.received = m.received
          /\ after.amounts = m.amounts
      BY <1>4, <3>1, Zenon
    <3>3. PairOK(after)
      BY <1>4, <2>3, <2>4, <3>2 DEF PairOK, Or
    <3> QED
      BY <3>3 DEF after
  <2> QED
    BY <2>5, <2>6
<1> QED
  BY <1>6, <1>7

LEMMA ClosedKeepsPair ==
  ASSUME NEW msg, NEW mem, NEW capability, NEW action, PairOK(mem)
  PROVE  PairOK(Closed(msg, mem, capability, action))
<1> DEFINE m == IF Is(msg, "glass") \/ capability = "insurance.glass"
                THEN [mem EXCEPT !.claim_type = "cristales", !.plugin = Insurance,
                                 !.capability = "insurance.glass"]
                ELSE mem
           after == Closed(msg, mem, capability, action)
<1>1. after = [m EXCEPT !.handoff = @ \/ action = "prepare_handoff" \/ Is(msg, "person")]
  BY Zenon DEF Closed
<1>2. m = IF Is(msg, "glass") \/ capability = "insurance.glass"
          THEN [mem EXCEPT !.claim_type = "cristales", !.plugin = Insurance,
                           !.capability = "insurance.glass"]
          ELSE mem
  OBVIOUS
<1> HIDE DEF m, after
<1>3. SamePair(mem, m)
  BY <1>2, Zenon DEF PairOK, SamePair
<1>4. PairOK(m)
  BY <1>3, SamePairOK
<1>5. SamePair(m, after)
  BY <1>1, <1>4, Zenon DEF PairOK, SamePair
<1>6. PairOK(after)
  BY <1>4, <1>5, SamePairOK
<1> QED
  BY <1>6 DEF after

LEMMA UpdateKeepsPair ==
  ASSUME NEW stage \in DOMAIN After, NEW msg, NEW mem, NEW job, PairOK(mem),
         List(msg.amounts), None \notin ToSet(msg.amounts)
  PROVE  PairOK(Updated(stage, msg, mem, job))
<1>1. stage \in {"hear", "locate", "detail"}
  BY DEF After
<1>2. CASE stage = "hear"
  <2>1. Updated(stage, msg, mem, job) = Heard(msg, mem, job.plugin, job.capability)
    BY <1>2 DEF Updated
  <2> QED
    BY <2>1, HeardKeepsPair
<1>3. CASE stage = "locate"
  <2>1. Updated(stage, msg, mem, job) = Located(msg, mem)
    BY <1>3 DEF Updated
  <2> QED
    BY <2>1, LocatedKeepsPair
<1>4. CASE stage = "detail"
  <2> DEFINE focused == Focused(msg, mem)
             priced == Priced(msg, focused)
             closed == Closed(msg, priced, job.capability, job.action.id)
  <2>1. Updated(stage, msg, mem, job) = closed
    BY <1>4 DEF Updated
  <2>2. PairOK(focused)
    BY FocusedKeepsPair
  <2>3. PairOK(priced)
    <3> HIDE DEF focused
    <3> QED
      BY <2>2, PricedKeepsPair
  <2>4. PairOK(closed)
    <3> HIDE DEF priced
    <3> QED
      BY <2>3, ClosedKeepsPair
  <2> QED
    BY <2>1, <2>4
<1> QED
  BY <1>1, <1>2, <1>3, <1>4

\* The controller's decision and the reply leave the amounts alone.
LEMMA AppliedKeepsPair ==
  ASSUME NEW mem, NEW turn, PairOK(mem)
  PROVE  PairOK(Applied(mem, turn))
<1> DEFINE after == Applied(mem, turn)
<1>1. after = [mem EXCEPT !.act = turn.act, !.goal = turn.goal, !.next_action = turn.next_action,
                 !.domain = Or(turn.domain, @), !.topic = IF turn.topic = "baja" THEN "baja" ELSE @,
                 !.suggested = IF turn.next_action = "offer_claim_draft" THEN Listed(@, "armar_reclamo")
                               ELSE IF turn.next_action = "prepare_handoff_summary"
                               THEN Listed(@, "preparar_resumen") ELSE @]
  BY Zenon DEF Applied
<1> HIDE DEF after
<1>2. SamePair(mem, after)
  BY <1>1, Zenon DEF PairOK, SamePair
<1>3. PairOK(after)
  BY <1>2, SamePairOK
<1> QED
  BY <1>3 DEF after

LEMMA RepliedKeepsPair ==
  ASSUME NEW msg, NEW mem, NEW job, PairOK(mem)
  PROVE  PairOK(Replied(msg, mem, job))
<1> DEFINE seen == [mem EXCEPT !.act = job.turn.act]
           reply == ProjectReply(msg, seen, job.route, job.action.id)
           said == Supervised(reply, mem)
           after == Replied(msg, mem, job)
<1>1. after = [mem EXCEPT !.options = @ \/ ListsOptions(reply),
                          !.signatures = LastThree(Append(@, said))]
  BY Zenon DEF Replied
<1> HIDE DEF reply, said, after
<1>2. SamePair(mem, after)
  BY <1>1, Zenon DEF PairOK, SamePair
<1>3. PairOK(after)
  BY <1>2, SamePairOK
<1> QED
  BY <1>3 DEF after

-----------------------------------------------------------------------------
\* Every memory knows such a pair.
PairsOK == \A m \in DOMAIN memories : PairOK(memories[m])

PairInv == RejectionInv /\ PairsOK

LEMMA PairStart == Init => PairInv
<1> SUFFICES ASSUME Init
             PROVE  PairInv
  OBVIOUS
<1>1. DOMAIN memories = {}
  BY EmptyList DEF Init
<1> QED
  BY <1>1, RejectionStart DEF PairInv, PairsOK

LEMMA WriteKeepsPair ==
  ASSUME PairInv, NEW w \in Workers, Writes(w)
  PROVE  PairsOK'
<1> PICK x, msg, mem : x = workers[w] /\ msg = x.input.msg /\ mem = memories[x.mid]
  OBVIOUS
<1>1. x.pc \in WithMemory /\ x.pc # "idle"
  BY DEF Writes, UpdateMemory, Decide, Apply, Finish, After, WithMemory, WithRuntime, Shadowing
<1>2. List(msg.amounts) /\ None \notin ToSet(msg.amounts)
  <2>1. x.input \in setting.inputs /\ setting \in Settings
    BY <1>1, InputKnown DEF PairInv, RejectionInv, HistoryInv, PublicInv, Shape
  <2>2. msg.amounts \in Seq(STRING) /\ None \notin ToSet(msg.amounts)
    BY <2>1, ClassifiersAssumption
  <2> QED
    BY <2>2 DEF List
<1>3. x.mid \in DOMAIN memories
  BY <1>1, HasMemory DEF PairInv, RejectionInv
<1>4. PairOK(mem)
  BY <1>3 DEF PairInv, PairsOK
<1>5. memories' = memories \/ \E after : memories' = [memories EXCEPT ![x.mid] = after] /\ PairOK(after)
  <2>1. CASE UpdateMemory(w)
    <3>1. x.pc \in DOMAIN After /\ memories' = [memories EXCEPT ![x.mid] = Updated(x.pc, msg, mem, x)]
      BY <2>1 DEF UpdateMemory
    <3>2. PairOK(Updated(x.pc, msg, mem, x))
      BY <1>2, <1>4, <3>1, UpdateKeepsPair
    <3> QED
      BY <3>1, <3>2
  <2>2. CASE Decide(w)
    BY <2>2 DEF Decide
  <2>3. CASE Apply(w)
    <3>1. memories' = [memories EXCEPT ![x.mid] = Applied(mem, x.turn)]
      BY <2>3 DEF Apply
    <3>2. PairOK(Applied(mem, x.turn))
      BY <1>4, AppliedKeepsPair
    <3> QED
      BY <3>1, <3>2
  <2>4. CASE Finish(w)
    <3>1. memories' = [memories EXCEPT ![x.mid] = Replied(msg, mem, x)]
      BY <2>4 DEF Finish
    <3>2. PairOK(Replied(msg, mem, x))
      BY <1>4, RepliedKeepsPair
    <3> QED
      BY <3>1, <3>2
  <2> QED
    BY <2>1, <2>2, <2>3, <2>4 DEF Writes
<1> QED
  BY <1>5 DEF PairInv, PairsOK

LEMMA PairNext == PairInv /\ [Next]_vars => PairInv'
<1> SUFFICES ASSUME PairInv, [Next]_vars
             PROVE  PairInv'
  OBVIOUS
<1>1. RejectionInv'
  BY RejectionNext DEF PairInv
<1>2. CASE UNCHANGED vars
  BY <1>1, <1>2 DEF vars, PairInv, PairsOK
<1>3. ASSUME NEW w \in Workers, Receive(w) \/ Serve(w)
      PROVE  PairsOK'
  <2>1. List(memories)
    BY DEF PairInv, RejectionInv, HistoryInv, PublicInv, Shape, LayersCounted
  <2>2. CASE Writes(w)
    BY <2>2, WriteKeepsPair
  <2>3. CASE Start(w)
    <3>1. memories' = Append(memories, NewMemory) \/ memories' = memories
      BY <2>3, Zenon DEF Start
    <3>2. PairOK(NewMemory)
      BY EmptyList DEF PairOK, NewMemory, None
    <3>3. CASE memories' = Append(memories, NewMemory)
      BY <2>1, <3>2, <3>3, ListAppend DEF PairInv, PairsOK
    <3>4. CASE memories' = memories
      BY <3>4 DEF PairInv, PairsOK
    <3> QED
      BY <3>1, <3>3, <3>4
  <2>4. CASE ~ Writes(w) /\ ~ Start(w)
    <3>1. memories' = memories
      BY <1>3, <2>4, Zenon DEF Receive, Serve, Writes, LookupLayer, BuildLayer, CheckSession, CreateSession,
         FetchSession, RunTurn, RouteShadow, StoreState, ForgetMemory, ForgetSession
    <3> QED
      BY <3>1, Zenon DEF PairInv, PairsOK
  <2> QED
    BY <2>2, <2>3, <2>4
<1> QED
  BY <1>1, <1>2, <1>3 DEF Next, Rest, PairInv

\* An amount a reply may quote was said by the user, and is in the list of what was said;
\* the second of a pair is never known without the first, whatever was said before.
THEOREM PairsWereSaid == Spec => []PairWasSaid
<1>1. PairInv => PairWasSaid
  BY DEF PairInv, PairsOK, PairOK, PairWasSaid
<1> QED
  BY <1>1, PairStart, PairNext, PTL DEF Spec

\* So they were with both endpoints under the same threads.
THEOREM ServerPairsWereSaid == ServerSpec => []PairWasSaid
BY ServerRunsLayer, PairsWereSaid, PTL
=============================================================================
