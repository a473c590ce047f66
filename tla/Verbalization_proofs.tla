------------------------- MODULE Verbalization_proofs -------------------------
(* Theorems about Verbalization, for any threads, turns, caches and providers.   *)
EXTENDS Verbalization, TLAPS

\* What may be looked up, and what may come of it, in the setting of a behaviour.
Briefs == {Brief(t) : t \in setting.turns}

Texts == {a.text : a \in setting.answers} \union {b.source : b \in Briefs}

Reasons ==
  {None, "validation_failed", setting.unavailable} \union {a.error : a \in setting.answers}

Results == [text : Texts, accepted : BOOLEAN, reason : Reasons, called : BOOLEAN]

\* An entry suits every brief that has its key.
Entry ==
  {e \in [key : {Fingerprint(b) : b \in Briefs}, result : Results] :
     \A b \in Briefs : Fingerprint(b) = e.key => Suits(e.result, b)}

Reply ==
  {r \in [brief : Briefs, result : Results, hit : BOOLEAN, by : Workers] : Suits(r.result, r.brief)}

\* What a thread carries between the steps of its turn.
CarriesItsOwn(w) ==
  /\ worker[w].pc \in {"lookup", "call", "remember"} => worker[w].brief \in Briefs
  /\ worker[w].pc = "remember" =>
       worker[w].result \in Results /\ Suits(worker[w].result, worker[w].brief)

\* The inductive invariant: replies, results on their way and entries suit their briefs.
AnswerInv ==
  /\ setting \in Settings
  /\ DOMAIN worker = Workers
  /\ worker = [w \in Workers |-> worker[w]]
  /\ caches \in [Ids -> Seq(Entry)]
  /\ replies \in Seq(Reply)
  /\ \A w \in Workers : CarriesItsOwn(w)

-----------------------------------------------------------------------------
\* The fingerprint tells briefs apart: it leaves out the deterministic text of an
\* objective, and that is worked out from the objective, which it holds.
LEMMA FingerprintTells ==
  ASSUME NEW b \in Briefs, NEW c \in Briefs, Fingerprint(b) = Fingerprint(c)
  PROVE  b = c
<1>1. PICK t \in setting.turns : b = Brief(t)
  BY DEF Briefs
<1>2. PICK u \in setting.turns : c = Brief(u)
  BY DEF Briefs
<1>3. b.message = c.message /\ Prompt(b) = Prompt(c)
  BY DEF Fingerprint
<1> DEFINE First(x) == x.first /\ ~x.situation.malformed
           ByObjective(x) ==
             [mode |-> "conversation_objective", objective |-> Objective(x.situation),
              source |-> RealizedText(Realization(Objective(x.situation))), selected |-> FALSE,
              message |-> x.message, facts |-> x.facts, executed |-> x.executed]
           ByLegacy(x) ==
             [mode |-> "legacy_source", objective |-> None, source |-> x.legacy,
              selected |-> x.selected, message |-> x.message, facts |-> x.facts,
              executed |-> x.executed]
<1>4. \A x : /\ First(x) => Brief(x) = ByObjective(x)
             /\ ~First(x) => Brief(x) = ByLegacy(x)
  BY DEF Brief
<1> HIDE DEF First
<1>5. \A x : /\ First(x) => Prompt(Brief(x)) = [objective |-> Objective(x.situation),
                                                facts |-> x.facts, executed |-> x.executed]
             /\ ~First(x) => Prompt(Brief(x)) = [source |-> x.legacy, selected |-> x.selected,
                                                 facts |-> x.facts, executed |-> x.executed]
  BY <1>4 DEF Prompt
<1>6. CASE First(t) /\ First(u)
  <2>1. /\ Objective(t.situation) = Objective(u.situation)
        /\ t.facts = u.facts /\ t.executed = u.executed
    BY <1>1, <1>2, <1>3, <1>5, <1>6
  <2>2. t.message = u.message
    BY <1>1, <1>2, <1>3, <1>4, <1>6
  <2> QED BY <1>1, <1>2, <1>4, <1>6, <2>1, <2>2
<1>7. CASE ~First(t) /\ ~First(u)
  <2>1. /\ t.legacy = u.legacy /\ t.selected = u.selected
        /\ t.facts = u.facts /\ t.executed = u.executed
    BY <1>1, <1>2, <1>3, <1>5, <1>7
  <2>2. t.message = u.message
    BY <1>1, <1>2, <1>3, <1>4, <1>7
  <2> QED BY <1>1, <1>2, <1>4, <1>7, <2>1, <2>2
<1>8. ASSUME NEW x, NEW y, First(x), ~First(y), Prompt(Brief(x)) = Prompt(Brief(y))
      PROVE  FALSE
  <2>1. "source" \notin DOMAIN Prompt(Brief(x))
    BY <1>5, <1>8
  <2>2. "source" \in DOMAIN Prompt(Brief(y))
    BY <1>5, <1>8
  <2> QED BY <1>8, <2>1, <2>2
<1> QED BY <1>1, <1>2, <1>3, <1>6, <1>7, <1>8

\* The question budget of an objective is one, and what passes the checks keeps to it.
LEMMA OneQuestion ==
  ASSUME NEW b \in Briefs, b.mode = "conversation_objective", NEW text,
         text.questions \in Nat, FailedChecks(text, b, setting.mode) = {}
  PROVE  text.questions <= 1
<1>1. PICK t \in setting.turns : b = Brief(t)
  BY DEF Briefs
<1>2. /\ b.source = RealizedText(Realization(Objective(t.situation)))
      /\ b.selected = FALSE
  BY <1>1 DEF Brief
<1>3. b.source.questions \in {0, 1}
  BY <1>2 DEF RealizedText, Realization
<1>4. QuestionsKept(text, b)
  BY DEF FailedChecks
<1> QED BY <1>2, <1>3, <1>4 DEF QuestionsKept

-----------------------------------------------------------------------------
\* The limit and the answers of the provider are as the settings give them.
LEMMA SettingFacts ==
  ASSUME setting \in Settings
  PROVE  /\ setting.limit \in Nat \ {0}
         /\ \A a \in setting.answers : a.text.questions \in Nat
  BY VerbalizationAssumption

\* The deterministic text suits its brief, whatever the reason it is used for.
LEMMA FallbackSuits ==
  ASSUME NEW b \in Briefs, NEW reason \in Reasons, NEW called \in BOOLEAN
  PROVE  Fallback(b, reason, called) \in Results /\ Suits(Fallback(b, reason, called), b)
  BY DEF Fallback, Result, Results, Texts, Suits

\* So does an answer, when it is accepted.
LEMMA ResultSuits ==
  ASSUME setting \in Settings, NEW b \in Briefs, NEW a \in setting.answers
  PROVE  ResultOf(a, b) \in Results /\ Suits(ResultOf(a, b), b)
<1>1. CASE a.error # None
  BY <1>1, FallbackSuits DEF ResultOf, Reasons
<1>2. CASE a.error = None /\ FailedChecks(a.text, b, setting.mode) = {}
  <2>1. ResultOf(a, b) = Result(a.text, TRUE, None, TRUE)
    BY <1>2 DEF ResultOf
  <2>2. b.mode = "conversation_objective" => a.text.questions <= 1
    BY <1>2, OneQuestion, SettingFacts
  <2> QED BY <1>2, <2>1, <2>2 DEF Result, Results, Texts, Reasons, Suits
<1>3. CASE a.error = None /\ FailedChecks(a.text, b, setting.mode) # {}
  BY <1>3, FallbackSuits DEF ResultOf, Reasons
<1> QED BY <1>1, <1>2, <1>3

\* Dropping an entry, or the oldest ones, leaves entries.
LEMMA OthersAreEntries ==
  ASSUME NEW cache \in Seq(Entry), NEW key
  PROVE  Others(cache, key) \in Seq(Entry)
<1>1. CASE Places(cache, key) = {}
  BY <1>1 DEF Others
<1>2. CASE Places(cache, key) # {}
  <2> DEFINE p == PlaceOf(cache, key)
  <2>1. p \in 1..Len(cache)
    BY <1>2 DEF PlaceOf, Places
  <2> HIDE DEF p
  <2>2. SubSeq(cache, 1, p - 1) \in Seq(Entry) /\ SubSeq(cache, p + 1, Len(cache)) \in Seq(Entry)
    BY <2>1
  <2>3. Others(cache, key) = SubSeq(cache, 1, p - 1) \o SubSeq(cache, p + 1, Len(cache))
    BY <1>2 DEF Others, RemoveAt, p
  <2> QED BY <2>2, <2>3
<1> QED BY <1>1, <1>2

LEMMA RememberedAreEntries ==
  ASSUME setting \in Settings, NEW cache \in Seq(Entry), NEW key, NEW result,
         [key |-> key, result |-> result] \in Entry
  PROVE  Remembered(cache, key, result) \in Seq(Entry)
<1> DEFINE all == Append(Others(cache, key), [key |-> key, result |-> result])
           from == (IF Len(all) > setting.limit THEN Len(all) - setting.limit ELSE 0) + 1
<1>1. all \in Seq(Entry)
  BY OthersAreEntries
<1> HIDE DEF all
<1>2. from \in 1..Len(all) + 1
  BY <1>1, SettingFacts
<1> HIDE DEF from
<1>3. SubSeq(all, from, Len(all)) \in Seq(Entry)
  BY <1>1, <1>2
<1> QED BY <1>3 DEF Remembered, all, from

\* What is found under the key of a brief suits the brief, and finding keeps entries.
LEMMA FoundSuits ==
  ASSUME NEW cache \in Seq(Entry), NEW b \in Briefs, Places(cache, Fingerprint(b)) # {}
  PROVE  LET e == cache[PlaceOf(cache, Fingerprint(b))]
         IN  /\ Found(cache, Fingerprint(b)) \in Seq(Entry)
             /\ e.result \in Results /\ Suits(e.result, b)
<1> DEFINE p == PlaceOf(cache, Fingerprint(b))
<1>1. p \in Places(cache, Fingerprint(b))
  BY DEF PlaceOf
<1> HIDE DEF p
<1>2. p \in 1..Len(cache) /\ cache[p].key = Fingerprint(b)
  BY <1>1 DEF Places
<1>3. cache[p] \in Entry
  BY <1>2
<1>4. cache[p].result \in Results /\ Suits(cache[p].result, b)
  BY <1>2, <1>3 DEF Entry
<1>5. Append(Others(cache, Fingerprint(b)), cache[p]) \in Seq(Entry)
  BY <1>3, OthersAreEntries
<1> QED BY <1>4, <1>5 DEF Found, p

-----------------------------------------------------------------------------
\* All this depends on the setting alone, and no step changes that.
LEMMA SettingStays == [Next]_vars => setting' = setting
  BY DEF Next, vars, EnterWarmup, FinishWarmup, Take, Hit, Miss, ProviderAnswers, Remember

LEMMA SameMeaning ==
  ASSUME setting' = setting
  PROVE  /\ Briefs' = Briefs /\ Results' = Results /\ Entry' = Entry /\ Reply' = Reply
         /\ \A r, b : Suits(r, b)' <=> Suits(r, b)
<1>1. Briefs' = Briefs
  BY DEF Briefs
<1>2. Results' = Results
  BY <1>1 DEF Results, Texts, Reasons
<1>3. \A r, b : Suits(r, b)' <=> Suits(r, b)
  BY DEF Suits
<1>4. Entry' = Entry
  BY <1>1, <1>2, <1>3 DEF Entry
<1>5. Reply' = Reply
  BY <1>1, <1>2, <1>3 DEF Reply
<1> QED BY <1>1, <1>2, <1>3, <1>4, <1>5

\* At the start nothing is remembered and nothing was answered.
LEMMA InitAnswers == Init => AnswerInv
  BY DEF Init, AnswerInv, CarriesItsOwn, Idle

\* A step of one thread leaves what the others carry, and what it carries itself is
\* looked at in what follows.
LEMMA OthersCarryOn ==
  ASSUME AnswerInv, setting' = setting, NEW w \in Workers, NEW job,
         worker' = [worker EXCEPT ![w] = job], CarriesItsOwn(w)'
  PROVE  /\ DOMAIN worker' = Workers
         /\ worker' = [v \in Workers |-> worker'[v]]
         /\ \A v \in Workers : CarriesItsOwn(v)'
<1>1. \A v \in Workers : v # w => worker'[v] = worker[v]
  BY DEF AnswerInv
<1>2. \A v \in Workers : v # w => CarriesItsOwn(v)'
  BY <1>1, SameMeaning DEF AnswerInv, CarriesItsOwn
<1> QED BY <1>2 DEF AnswerInv

\* A reply that suits its brief is added, and its thread is idle again.
LEMMA SentSuits ==
  ASSUME AnswerInv, setting' = setting, NEW w \in Workers, NEW result \in Results, NEW hit \in BOOLEAN,
         worker[w].brief \in Briefs, Suits(result, worker[w].brief), Send(w, result, hit)
  PROVE  /\ replies' \in Seq(Reply)
         /\ DOMAIN worker' = Workers
         /\ worker' = [v \in Workers |-> worker'[v]]
         /\ \A v \in Workers : CarriesItsOwn(v)'
<1>1. [brief |-> worker[w].brief, result |-> result, hit |-> hit, by |-> w] \in Reply
  BY DEF Reply
<1>2. replies' \in Seq(Reply)
  BY <1>1 DEF Send, AnswerInv
<1>3. worker' = [worker EXCEPT ![w] = Idle]
  BY DEF Send
<1>4. worker'[w].pc = "idle"
  BY <1>3 DEF AnswerInv, Idle
<1>5. CarriesItsOwn(w)'
  BY <1>4 DEF CarriesItsOwn
<1> QED BY <1>2, <1>3, <1>5, OthersCarryOn

LEMMA OwnVerbalizer == \A w \in Workers : VerbalizerOf(w) \in Ids
  BY DEF VerbalizerOf, Ids

\* Every step keeps it.
LEMMA NextAnswers == AnswerInv /\ [Next]_vars => AnswerInv'
<1> SUFFICES ASSUME AnswerInv, [Next]_vars
             PROVE  AnswerInv'
  OBVIOUS
<1>0. /\ setting' = setting /\ setting \in Settings
      /\ Briefs' = Briefs /\ Results' = Results /\ Entry' = Entry /\ Reply' = Reply
      /\ \A r, b : Suits(r, b)' <=> Suits(r, b)
  BY SettingStays, SameMeaning DEF AnswerInv
<1>1. ASSUME NEW w \in Workers, EnterWarmup(w)
      PROVE  AnswerInv'
  <2>1. CASE warm.event # None
    <3>1. worker' = [worker EXCEPT ![w] = Idle] /\ UNCHANGED <<caches, replies>>
      BY <1>1, <2>1 DEF EnterWarmup
    <3>2. CarriesItsOwn(w)'
      BY <3>1 DEF AnswerInv, Idle, CarriesItsOwn
    <3> QED BY <1>0, <3>1, <3>2, OthersCarryOn DEF AnswerInv
  <2>2. CASE warm.event = None
    <3>1. worker' = [worker EXCEPT ![w] = [pc |-> "warm"]] /\ UNCHANGED <<caches, replies>>
      BY <1>1, <2>2 DEF EnterWarmup
    <3>2. CarriesItsOwn(w)'
      BY <3>1 DEF AnswerInv, CarriesItsOwn
    <3> QED BY <1>0, <3>1, <3>2, OthersCarryOn DEF AnswerInv
  <2> QED BY <2>1, <2>2
<1>2. ASSUME NEW w \in Workers, FinishWarmup(w)
      PROVE  AnswerInv'
  <2>1. worker' = [worker EXCEPT ![w] = Idle] /\ UNCHANGED <<caches, replies>>
    BY <1>2 DEF FinishWarmup
  <2>2. CarriesItsOwn(w)'
    BY <2>1 DEF AnswerInv, Idle, CarriesItsOwn
  <2> QED BY <1>0, <2>1, <2>2, OthersCarryOn DEF AnswerInv
<1>3. ASSUME NEW w \in Workers, Take(w)
      PROVE  AnswerInv'
  <2>1. PICK t \in setting.turns : worker' = [worker EXCEPT ![w] = [pc |-> "lookup", brief |-> Brief(t)]]
    BY <1>3 DEF Take
  <2>2. UNCHANGED <<caches, replies>>
    BY <1>3 DEF Take
  <2>3. worker'[w].pc = "lookup" /\ worker'[w].brief = Brief(t)
    BY <2>1 DEF AnswerInv
  <2>4. CarriesItsOwn(w)'
    BY <1>0, <2>3 DEF CarriesItsOwn, Briefs
  <2> QED BY <1>0, <2>1, <2>2, <2>4, OthersCarryOn DEF AnswerInv
<1>4. ASSUME NEW w \in Workers, Hit(w)
      PROVE  AnswerInv'
  <2> DEFINE v == VerbalizerOf(w)
             b == worker[w].brief
             e == caches[v][PlaceOf(caches[v], Fingerprint(b))]
             told == [e.result EXCEPT !.called = FALSE]
  <2>1. v \in Ids /\ caches[v] \in Seq(Entry)
    BY OwnVerbalizer DEF AnswerInv
  <2>2. b \in Briefs
    BY <1>4 DEF Hit, AnswerInv, CarriesItsOwn
  <2>3. /\ Places(caches[v], Fingerprint(b)) # {}
        /\ caches' = [caches EXCEPT ![v] = Found(caches[v], Fingerprint(b))]
        /\ Send(w, told, TRUE)
    BY <1>4 DEF Hit
  <2>4. /\ Found(caches[v], Fingerprint(b)) \in Seq(Entry)
        /\ e.result \in Results /\ Suits(e.result, b)
    BY <2>1, <2>2, <2>3, FoundSuits
  <2>5. caches' \in [Ids -> Seq(Entry)]
    BY <2>1, <2>3, <2>4 DEF AnswerInv
  <2> HIDE DEF v, b, e
  <2>6. /\ told \in Results /\ told.text = e.result.text /\ told.accepted = e.result.accepted
    BY <2>4 DEF Results
  <2>7. Suits(told, b)
    BY <2>4, <2>6 DEF Suits
  <2> HIDE DEF told
  <2>8. /\ replies' \in Seq(Reply)
        /\ DOMAIN worker' = Workers
        /\ worker' = [x \in Workers |-> worker'[x]]
        /\ \A x \in Workers : CarriesItsOwn(x)'
    BY <1>0, <2>2, <2>3, <2>6, <2>7, SentSuits DEF b
  <2> QED BY <1>0, <2>5, <2>8 DEF AnswerInv
<1>5. ASSUME NEW w \in Workers, Miss(w)
      PROVE  AnswerInv'
  <2> DEFINE b == worker[w].brief
             fallback == Fallback(b, setting.unavailable, FALSE)
  <2>1. b \in Briefs /\ UNCHANGED <<caches, replies>>
    BY <1>5 DEF Miss, AnswerInv, CarriesItsOwn
  <2>2. CASE setting.unavailable = None
    <3>1. worker' = [worker EXCEPT ![w] = [pc |-> "call", brief |-> b]]
      BY <1>5, <2>2 DEF Miss
    <3>2. worker'[w].pc = "call" /\ worker'[w].brief = b
      BY <3>1 DEF AnswerInv
    <3>3. CarriesItsOwn(w)'
      BY <1>0, <2>1, <3>2 DEF CarriesItsOwn
    <3> QED BY <1>0, <2>1, <3>1, <3>3, OthersCarryOn DEF AnswerInv
  <2>3. CASE setting.unavailable # None
    <3>1. worker' = [worker EXCEPT ![w] = [pc |-> "remember", brief |-> b, result |-> fallback]]
      BY <1>5, <2>3 DEF Miss
    <3>2. worker'[w].pc = "remember" /\ worker'[w].brief = b /\ worker'[w].result = fallback
      BY <3>1 DEF AnswerInv
    <3>3. fallback \in Results /\ Suits(fallback, b)
      BY <2>1, FallbackSuits DEF Reasons
    <3>4. CarriesItsOwn(w)'
      BY <1>0, <2>1, <3>2, <3>3 DEF CarriesItsOwn
    <3> QED BY <1>0, <2>1, <3>1, <3>4, OthersCarryOn DEF AnswerInv
  <2> QED BY <2>2, <2>3
<1>6. ASSUME NEW w \in Workers, ProviderAnswers(w)
      PROVE  AnswerInv'
  <2> DEFINE b == worker[w].brief
  <2>1. b \in Briefs /\ UNCHANGED <<caches, replies>>
    BY <1>6 DEF ProviderAnswers, AnswerInv, CarriesItsOwn
  <2>2. PICK a \in setting.answers :
          worker' = [worker EXCEPT ![w] = [pc |-> "remember", brief |-> b, result |-> ResultOf(a, b)]]
    BY <1>6 DEF ProviderAnswers
  <2>3. worker'[w].pc = "remember" /\ worker'[w].brief = b /\ worker'[w].result = ResultOf(a, b)
    BY <2>2 DEF AnswerInv
  <2>4. ResultOf(a, b) \in Results /\ Suits(ResultOf(a, b), b)
    BY <1>0, <2>1, ResultSuits
  <2>5. CarriesItsOwn(w)'
    BY <1>0, <2>1, <2>3, <2>4 DEF CarriesItsOwn
  <2> QED BY <1>0, <2>1, <2>2, <2>5, OthersCarryOn DEF AnswerInv
<1>7. ASSUME NEW w \in Workers, Remember(w)
      PROVE  AnswerInv'
  <2> DEFINE v == VerbalizerOf(w)
             b == worker[w].brief
             r == worker[w].result
  <2>1. v \in Ids /\ caches[v] \in Seq(Entry)
    BY OwnVerbalizer DEF AnswerInv
  <2>2. b \in Briefs /\ r \in Results /\ Suits(r, b)
    BY <1>7 DEF Remember, AnswerInv, CarriesItsOwn
  <2>3. /\ caches' = [caches EXCEPT ![v] = Remembered(caches[v], Fingerprint(b), r)]
        /\ Send(w, r, FALSE)
    BY <1>7 DEF Remember
  <2>4. \A c \in Briefs : Fingerprint(c) = Fingerprint(b) => Suits(r, c)
    BY <2>2, FingerprintTells
  <2>5. [key |-> Fingerprint(b), result |-> r] \in Entry
    BY <2>2, <2>4 DEF Entry
  <2>6. Remembered(caches[v], Fingerprint(b), r) \in Seq(Entry)
    BY <1>0, <2>1, <2>5, RememberedAreEntries
  <2>7. caches' \in [Ids -> Seq(Entry)]
    BY <2>1, <2>3, <2>6 DEF AnswerInv
  <2>8. /\ replies' \in Seq(Reply)
        /\ DOMAIN worker' = Workers
        /\ worker' = [x \in Workers |-> worker'[x]]
        /\ \A x \in Workers : CarriesItsOwn(x)'
    BY <1>0, <2>2, <2>3, SentSuits
  <2> QED BY <1>0, <2>7, <2>8 DEF AnswerInv
<1>8. CASE UNCHANGED vars
  BY <1>0, <1>8 DEF vars, AnswerInv, CarriesItsOwn
<1> QED BY <1>1, <1>2, <1>3, <1>4, <1>5, <1>6, <1>7, <1>8 DEF Next

\* Whatever the provider writes and however threads share the cache, a turn is answered
\* with its own deterministic text or with one that passes the checks against its brief.
THEOREM RepliesSuitTheirTurns == Spec => []ReplyOfItsTurn
<1>1. AnswerInv => ReplyOfItsTurn
  <2> SUFFICES ASSUME AnswerInv, NEW i \in DOMAIN replies
               PROVE  Suits(replies[i].result, replies[i].brief)
    BY DEF ReplyOfItsTurn
  <2>1. replies[i] \in Reply
    BY DEF AnswerInv
  <2> QED BY <2>1 DEF Reply
<1> QED BY <1>1, InitAnswers, NextAnswers, PTL DEF Spec
=============================================================================
