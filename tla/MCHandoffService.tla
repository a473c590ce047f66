--------------------------- MODULE MCHandoffService ---------------------------
(* Callers of the handoff tool for the model checker.                           *)
EXTENDS HandoffService, TLC

CONSTANTS w1, w2, k1, k2, k3, k4, crash, glass

Handoff(key, ledgerKey, stable, work) ==
  [key |-> key, ledgerKey |-> ledgerKey, stable |-> stable, work |-> work, splits |-> FALSE,
   failures |-> {}, operation |-> "prepare_handoff", evidence |-> {}, granted |-> {},
   platform |-> [contract |-> NoContract, named |-> FALSE, blocked |-> FALSE,
                 publicAction |-> "none", replay |-> FALSE]]

\* With a key of the caller, with the key of the ledger, with a key made of the work.
Keyed   == Handoff(k1, NoKey, k3, crash)
Ledgered == Handoff(NoKey, k2, k3, glass)
Derived == Handoff(NoKey, NoKey, k3, crash)

\* The same key for other work; a tool that fails; an operation that is blocked.
Reused  == Handoff(k1, NoKey, k2, glass)
Failing == [Ledgered EXCEPT !.failures = FailureModes]
Blocked == [Handoff(k3, NoKey, k3, glass) EXCEPT !.operation = "save_internal_case_note"]

\* A package whose line is read as two.
Splitting == [Handoff(k4, NoKey, k4, glass) EXCEPT !.splits = TRUE]

AllRequests == {Keyed, Derived, Ledgered, Reused, Failing, Blocked, Splitting}

Asked(times) == [q \in AllRequests |-> IF q \in DOMAIN times THEN times[q] ELSE 0]

\* One process that is stopped once; two that race for a key and are stopped twice;
\* two that are stopped in the middle of a line, twice; one that writes what it does
\* not find again.
MCSettings ==
  {[workers |-> {w1}, stops |-> 1, tears |-> 0,
    times |-> Asked(Keyed :> 2 @@ Failing :> 2 @@ Derived :> 1)],
   [workers |-> {w1, w2}, stops |-> 2, tears |-> 0,
    times |-> Asked(Keyed :> 3 @@ Reused :> 1 @@ Blocked :> 1)],
   [workers |-> {w1, w2}, stops |-> 0, tears |-> 2,
    times |-> Asked(Keyed :> 2 @@ Ledgered :> 1)],
   [workers |-> {w1}, stops |-> 1, tears |-> 0,
    times |-> Asked(Splitting :> 2 @@ Keyed :> 1)]}
=============================================================================
