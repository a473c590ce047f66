---------------------------- MODULE Verbalization ----------------------------
(* The language model behind the output boundary: every turn hands a brief to a  *)
(* verbalizer, which answers from its cache, asks the provider, validates what   *)
(* it wrote, and falls back to the deterministic text on any failure. Threads    *)
(* share a verbalizer or build one each; the call to the provider holds no lock, *)
(* the warm-up of a local provider holds the lock of the process. Neither need   *)
(* end: urlopen limits the time of each socket operation, not that of the call.  *)
(* A text is known by the protected terms it holds, whether it claims that       *)
(* something was done, its questions, and whether it keeps to the subject.       *)
EXTENDS ConversationObjective, FiniteSets

CONSTANTS Workers,    \* the request threads
          Settings    \* the circumstances a behaviour may have, see setting

\* A setting says which threads serve, whether each builds its own verbalizer after
\* a warm-up, the turns that may arrive, why the configuration rules the provider
\* out (if it does), what the provider may do, and as bounds the entries of a cache
\* (_CACHE_LIMIT) and the number of turns.
ASSUME VerbalizationAssumption ==
  \A s \in Settings : /\ s.workers \subseteq Workers
                      /\ s.limit \in Nat \ {0} /\ s.requests \in Nat
                      /\ \A answer \in s.answers : answer.text.questions \in Nat

VARIABLES setting,    \* the setting of this behaviour
          caches,     \* LLMVerbalizer._cache of each verbalizer, oldest first
          warm,       \* _WARMUP_LOCK and _WARMUP_EVENTS: who holds it, what is remembered
          worker,     \* what each thread is doing
          replies     \* the turns answered: brief, result, and whether the cache had it

vars == <<setting, caches, warm, worker, replies>>

Ids == Workers \union {"shared"}

VerbalizerOf(w) == IF setting.warmup THEN w ELSE "shared"

-----------------------------------------------------------------------------
\* The text that ObjectiveDeterministicRealizer writes: it keeps to its objective and
\* says nothing that a check guards.
RealizedText(realized) ==
  [name |-> realized.template, terms |-> {}, done |-> FALSE, leaks |-> FALSE,
   questions |-> realized.questions, keeps |-> TRUE]

\* OutputStepHandler.execute and VerbalizationBrief.from_runtime: the objective has
\* authority when the mode is on and its projection does not raise; otherwise the
\* legacy text has. The objective's missing slots carry no question.
Brief(turn) ==
  LET s == turn.situation
      first == turn.first /\ ~s.malformed
  IN  [mode |-> IF first THEN "conversation_objective" ELSE "legacy_source",
       objective |-> IF first THEN Objective(s) ELSE None,
       source |-> IF first THEN RealizedText(Realization(Objective(s))) ELSE turn.legacy,
       selected |-> IF first THEN FALSE ELSE turn.selected,
       message |-> turn.message, facts |-> turn.facts, executed |-> turn.executed]

\* prompt_payload: the legacy text is content authority only in its own mode.
Prompt(b) ==
  IF b.mode = "legacy_source" THEN [source |-> b.source, selected |-> b.selected, facts |-> b.facts, executed |-> b.executed]
  ELSE [objective |-> b.objective, facts |-> b.facts, executed |-> b.executed]

\* Mutant: the message of the user is not part of the key.
FingerprintOfPrompt(b) == [prompt |-> Prompt(b), message |-> {}]

\* VerbalizationBrief.fingerprint.
Fingerprint(b) == [prompt |-> Prompt(b), message |-> b.message]

\* _grounding_text: the deterministic text, the message and the prompt.
Grounding(b) == b.source.terms \union b.message \union b.facts

\* The terms of a text that a check guards and that no input of the turn holds:
\* _novel_numeric_claims, _invented_factual_claim, _novel_operational_claims and
\* _invented_permission_claim.
Ungrounded(text, b, check) == {t \in text.terms : t.check = check} \ Grounding(b)

\* _invented_execution_claim: the text or a tool that ran must have said it before.
ClaimsExecution(text, b) == text.done /\ ~b.source.done /\ ~b.executed

\* _question_budget_preserved: the questions of the deterministic text, in either mode.
QuestionsKept(text, b) ==
  LET allowed == IF b.source.questions > 0 THEN b.source.questions ELSE IF b.selected THEN 1 ELSE 0
  IN  /\ text.questions <= allowed
      /\ b.source.questions > 0 => text.questions > 0

\* _selected_question_preserved asks this of a strict mode only.
SubjectKept(text, b, mode) ==
  mode = "strict" /\ b.selected /\ b.source.questions > 0 => text.keeps

\* DeterministicVerbalizationValidator.validate: the checks that fail.
FailedChecks(text, b, mode) ==
  LET grounded == {"numeric_grounding", "factual_grounding", "operational_grounding", "permission_grounding"}
      others == {"non_empty", "bounded_length", "cognitive_opacity", "execution_grounding", "question_budget",
                 "selected_question_preserved"}
  IN  {c \in grounded : Ungrounded(text, b, c) # {}} \union
      {c \in others :
        CASE c = "non_empty" -> text.name = "empty"
          [] c = "bounded_length" -> text.name = "endless"
          [] c = "cognitive_opacity" -> text.leaks
          [] c = "execution_grounding" -> ClaimsExecution(text, b)
          [] c = "question_budget" -> ~QuestionsKept(text, b)
          [] c = "selected_question_preserved" -> ~SubjectKept(text, b, mode)}

Result(text, accepted, reason, called) ==
  [text |-> text, accepted |-> accepted, reason |-> reason, called |-> called]

\* _fallback.
Fallback(b, reason, called) == Result(b.source, FALSE, reason, called)

\* What becomes of an answer of the provider, an error of its adapter included.
ResultOf(answer, b) ==
  IF answer.error # None THEN Fallback(b, answer.error, TRUE)
  ELSE IF FailedChecks(answer.text, b, setting.mode) = {} THEN Result(answer.text, TRUE, None, TRUE)
  ELSE Fallback(b, "validation_failed", TRUE)

-----------------------------------------------------------------------------
\* The cache is an OrderedDict: a key has one entry at most.
Places(cache, key) == {i \in DOMAIN cache : cache[i].key = key}

PlaceOf(cache, key) == CHOOSE i \in Places(cache, key) : TRUE

Others(cache, key) ==
  IF Places(cache, key) = {} THEN cache ELSE RemoveAt(cache, PlaceOf(cache, key))

\* _remember: the newest entry; the oldest go beyond the limit.
Remembered(cache, key, result) ==
  LET all == Append(Others(cache, key), [key |-> key, result |-> result])
  IN  SubSeq(all, (IF Len(all) > setting.limit THEN Len(all) - setting.limit ELSE 0) + 1, Len(all))

\* _cached: an entry that is found becomes the newest.
Found(cache, key) == Append(Others(cache, key), cache[PlaceOf(cache, key)])

Idle == [pc |-> "idle"]

Init ==
  /\ setting \in Settings
  /\ caches = [v \in Ids |-> <<>>]
  /\ warm = [holder |-> None, event |-> None]
  /\ worker = [w \in Workers |-> IF setting.warmup /\ w \in setting.workers THEN [pc |-> "build"] ELSE Idle]
  /\ replies = <<>>

\* build_default_llm_verbalizer, warmup_default_llm_provider: the lock is taken; an
\* event of an earlier warm-up, a failed one too, ends it.
EnterWarmup(w) ==
  /\ worker[w].pc = "build" /\ warm.holder = None
  /\ IF warm.event # None
     THEN /\ worker' = [worker EXCEPT ![w] = Idle]
          /\ UNCHANGED warm
     ELSE /\ warm' = [warm EXCEPT !.holder = w]
          /\ worker' = [worker EXCEPT ![w] = [pc |-> "warm"]]
  /\ UNCHANGED <<setting, caches, replies>>

\* Mutant: a warm-up that fails keeps the lock.
FinishWarmupOnSuccess(w) ==
  /\ worker[w].pc = "warm"
  /\ \E answer \in setting.answers :
       warm' = [holder |-> IF answer.error = None THEN None ELSE w,
                event |-> IF answer.error = None THEN "success" ELSE answer.error]
  /\ worker' = [worker EXCEPT ![w] = Idle]
  /\ UNCHANGED <<setting, caches, replies>>

\* The provider has answered the warm-up, or failed.
FinishWarmup(w) ==
  /\ worker[w].pc = "warm"
  /\ \E answer \in setting.answers :
       warm' = [holder |-> None, event |-> IF answer.error = None THEN "success" ELSE answer.error]
  /\ worker' = [worker EXCEPT ![w] = Idle]
  /\ UNCHANGED <<setting, caches, replies>>

\* The output step of a turn begins.
Take(w) ==
  /\ w \in setting.workers /\ worker[w] = Idle
  /\ Len(replies) + Cardinality({v \in Workers : worker[v] # Idle}) < setting.requests
  /\ \E turn \in setting.turns : worker' = [worker EXCEPT ![w] = [pc |-> "lookup", brief |-> Brief(turn)]]
  /\ UNCHANGED <<setting, caches, warm, replies>>

Send(w, result, hit) ==
  /\ replies' = Append(replies, [brief |-> worker[w].brief, result |-> result, hit |-> hit, by |-> w])
  /\ worker' = [worker EXCEPT ![w] = Idle]

\* verbalize finds the brief in the cache.
Hit(w) ==
  /\ worker[w].pc = "lookup"
  /\ LET v == VerbalizerOf(w)
         key == Fingerprint(worker[w].brief)
     IN  /\ Places(caches[v], key) # {}
         /\ caches' = [caches EXCEPT ![v] = Found(@, key)]
         /\ Send(w, [caches[v][PlaceOf(caches[v], key)].result EXCEPT !.called = FALSE], TRUE)
  /\ UNCHANGED <<setting, warm>>

\* It does not: the provider is asked, unless the configuration excludes it.
Miss(w) ==
  /\ worker[w].pc = "lookup"
  /\ Places(caches[VerbalizerOf(w)], Fingerprint(worker[w].brief)) = {}
  /\ worker' = [worker EXCEPT ![w] =
       IF setting.unavailable = None THEN [pc |-> "call", brief |-> worker[w].brief]
       ELSE [pc |-> "remember", brief |-> worker[w].brief,
             result |-> Fallback(worker[w].brief, setting.unavailable, FALSE)]]
  /\ UNCHANGED <<setting, caches, warm, replies>>

\* The provider answers or fails; an operation of its socket that takes too long is a
\* failure, an answer that drips in is not.
ProviderAnswers(w) ==
  /\ worker[w].pc = "call"
  /\ \E answer \in setting.answers :
       worker' = [worker EXCEPT ![w] = [pc |-> "remember", brief |-> worker[w].brief,
                                        result |-> ResultOf(answer, worker[w].brief)]]
  /\ UNCHANGED <<setting, caches, warm, replies>>

\* _remember, and the reply; a fallback is remembered like any other result.
Remember(w) ==
  /\ worker[w].pc = "remember"
  /\ caches' = [caches EXCEPT ![VerbalizerOf(w)] =
                  Remembered(@, Fingerprint(worker[w].brief), worker[w].result)]
  /\ Send(w, worker[w].result, FALSE)
  /\ UNCHANGED <<setting, warm>>

\* The steps of a thread that need nothing of the provider.
OwnStep(w) == EnterWarmup(w) \/ Hit(w) \/ Miss(w) \/ Remember(w)

Next ==
  \E w \in Workers :
    \/ EnterWarmup(w) \/ FinishWarmup(w)
    \/ Take(w) \/ Hit(w) \/ Miss(w) \/ ProviderAnswers(w) \/ Remember(w)

\* A thread that is not waiting for the provider runs on. Nothing is assumed of the
\* provider. A thread takes the warm-up lock once, so that nobody is overtaken for ever.
Fairness == \A w \in Workers : WF_vars(OwnStep(w))

Spec == Init /\ [][Next]_vars /\ Fairness

-----------------------------------------------------------------------------
\* The deterministic text of a brief, or a text that passes every check against it,
\* with one question at most where the objective decides.
Suits(result, b) ==
  /\ ~result.accepted => result.text = b.source
  /\ result.accepted => FailedChecks(result.text, b, setting.mode) = {}
  /\ result.accepted /\ b.mode = "conversation_objective" => result.text.questions <= 1

\* What a turn is answered suits its own brief, also when it was written for an earlier
\* turn, by another thread or before the cache dropped other turns.
ReplyOfItsTurn == \A i \in DOMAIN replies : Suits(replies[i].result, replies[i].brief)

\* The provider never returns from the call of the thread; from a warm-up of anybody.
CallNeverReturns(w) == <>[](worker[w].pc = "call")

WarmupNeverReturns == \E v \in Workers : <>[](worker[v].pc = "warm")

\* A thread gets its verbalizer and comes to the end of every turn, unless its own call,
\* or some warm-up, never returns: a call of another thread that goes on for ever keeps
\* nobody else waiting, for verbalize holds no lock, and a warm-up that fails does not
\* either.
EveryTurnAnswered ==
  \A w \in Workers : []<>(worker[w].pc = "idle") \/ CallNeverReturns(w) \/ WarmupNeverReturns
=============================================================================
