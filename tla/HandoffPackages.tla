---------------------------- MODULE HandoffPackages ----------------------------
(* What the handoff tool promises of a key: the first package found under it is  *)
(* the answer to that key from then on. All packages may be lost at once; then   *)
(* no key is answered any more, and none is given another answer.                *)
CONSTANTS Keys, Works, NoPackage

VARIABLES package,    \* the package that answers each key
          lost        \* whether the store can no longer be read

vars == <<package, lost>>

Init ==
  /\ package = [k \in Keys |-> NoPackage]
  /\ lost = FALSE

Store(k, w) ==
  /\ ~lost /\ package[k] = NoPackage
  /\ package' = [package EXCEPT ![k] = w]
  /\ UNCHANGED lost

Lose ==
  /\ ~lost /\ lost' = TRUE
  /\ package' = [k \in Keys |-> NoPackage]

Next == Lose \/ \E k \in Keys, w \in Works : Store(k, w)

Spec == Init /\ [][Next]_vars
=============================================================================
