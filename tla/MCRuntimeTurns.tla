---------------------------- MODULE MCRuntimeTurns ----------------------------
(* Messages for the model checker: texts by the terms of the intent rules they   *)
(* contain.                                                                      *)
EXTENDS RuntimeTurns

CONSTANTS c1, c2, t1, t2

Text(hits, claimWords) ==
  [conversation |-> c1, hits |-> hits, claimWords |-> claimWords, continues |-> FALSE,
   answers |-> "none", limits |-> FALSE]

Hello == Text(<<1, 0, 0, 0, 0, 0, 0>>, FALSE)                \* hola
Crash == Text(<<0, 1, 0, 0, 0, 0, 0>>, TRUE)                 \* me chocaron
Cleas == Text(<<0, 0, 1, 0, 0, 0, 0>>, FALSE)                \* que es cleas?
Excess == Text(<<0, 0, 0, 1, 0, 0, 0>>, FALSE)               \* que es franquicia?
Copy == Text(<<0, 1, 0, 0, 2, 0, 0>>, TRUE)                  \* copia de denuncia administrativa
Person == Text(<<0, 0, 0, 0, 0, 0, 2>>, FALSE)               \* quiero hablar con una persona
Payment == Text(<<0, 0, 0, 0, 0, 1, 0>>, FALSE)              \* cuando me pagan?
PersonAndCrash == Text(<<0, 1, 0, 0, 0, 0, 1>>, TRUE)        \* quiero un asesor, me chocaron
Today == [Crash EXCEPT !.limits = TRUE]                      \* me chocaron y lo necesito hoy
Noise == Text(<<0, 0, 0, 0, 0, 0, 0>>, FALSE)                \* asdf
GoOn == [Noise EXCEPT !.continues = TRUE]                    \* seguimos
NoInjuries == [Noise EXCEPT !.answers = "fresh"]             \* no hubo lesionados
NoInjuriesAgain == [Noise EXCEPT !.answers = "repeated"]

AllTexts == {Hello, Crash, Cleas, Excess, Copy, Person, Payment, PersonAndCrash, Noise, GoOn,
             NoInjuries, NoInjuriesAgain, Today}
Elsewhere(m) == [m EXCEPT !.conversation = c2]

Setting(threads, turns, messages) ==
  [threads |-> threads, turns |-> turns, messages |-> messages, clears |-> BOOLEAN,
   chained |-> FALSE, first |-> FALSE, replies |-> {NoReply}, raises |-> 0]

\* A provider whose answers are accepted or not, and differ.
Provider == {NoReply, "one", "other"}

\* One turn after another, of every kind; turns whose subscribers raise twice; turns
\* that start from the state of the one before; turns put in the words of a provider, of
\* an objective, and of both; two threads in two conversations.
MCSettings ==
  {Setting({t1}, 3, AllTexts),
   [Setting({t1}, 3, {Crash, Person, Cleas}) EXCEPT !.raises = 2],
   [Setting({t1}, 3, {Crash, Person, Cleas}) EXCEPT !.chained = TRUE],
   [Setting({t1}, 2, {Today, Person, Excess, GoOn}) EXCEPT !.replies = Provider],
   [Setting({t1}, 2, AllTexts) EXCEPT !.first = TRUE],
   [Setting({t1}, 2, {Today, Person, Excess, GoOn}) EXCEPT !.first = TRUE, !.replies = Provider],
   [Setting({t1, t2}, 2, {Crash, Elsewhere(Person)}) EXCEPT !.clears = {TRUE}]}
DomainConcepts == {"cleas", "franquicia", "denuncia_administrativa"}
===============================================================================
