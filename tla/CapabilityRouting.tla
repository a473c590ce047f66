-------------------------- MODULE CapabilityRouting --------------------------
(* The plugin side of the public surface, as pure operators: what a manifest *)
(* may declare, how the registry is loaded, which capability has which       *)
(* providers, and how a request or a text selects one.                       *)
(* Source: aca_core/platform_plugins.py.                                     *)
EXTENDS Naturals, Sequences, SequencesExt, FiniteSetsExt

CONSTANTS
    Manifests,   \* the manifests of the plugin directory, in directory order
    NameRank     \* the rank of an identifier in Python's order of strings

None == "none"   \* Python's None among names
Fallback == "generic.open_chat"

(* A public action is [id, capability, enabled, reason]; a manifest is       *)
(* [id, handles, blocked, actions, semantic]; a text is known by what the    *)
(* router finds in it: tokens found in a plugin's names, words of a          *)
(* capability, and what the plugin's own analyser says.                      *)

ActionValid(a) == a.enabled \/ a.reason # None

ManifestValid(m) ==
    /\ m.handles # << >>
    /\ \A i \in DOMAIN m.actions :
          /\ ActionValid(m.actions[i])
          /\ m.actions[i].capability \in ToSet(m.handles) \cup m.blocked

(* load_registry: one manifest that does not parse or an id used twice       *)
(* raises, and nothing is registered.                                        *)
RegistryLoads ==
    /\ \A i \in DOMAIN Manifests : ManifestValid(Manifests[i])
    /\ \A i, j \in DOMAIN Manifests : Manifests[i].id = Manifests[j].id => i = j

ManifestOf(p) == LET i == CHOOSE k \in DOMAIN Manifests : Manifests[k].id = p IN Manifests[i]

PolicyAllows(p, c) == c \notin ManifestOf(p).blocked

(* register_plugin lists a capability's providers in registration order and *)
(* leaves out what the manifest blocks itself.                               *)
ProvidersFor(c) ==
    LET provides(m) == c \in ToSet(m.handles) /\ PolicyAllows(m.id, c)
        found == SelectSeq(Manifests, provides)
    IN [i \in DOMAIN found |-> found[i].id]

NoRoute == [plugin |-> None, capability |-> None, reason |-> "no_capability"]
Route(p, c, reason) == [plugin |-> p, capability |-> c, reason |-> reason]

(* The score of the k-th capability keeps the hits of those before it.       *)
CapabilityScore(m, text, k) ==
    text.tokens[m.id] +
        FoldLeft(+, 0, [i \in 1..k |-> 3 * text.hits[m.handles[i]]])

SemanticScore(confidence) == (IF confidence > 2 THEN confidence ELSE 2) + 25

Candidates(text) ==
    UNION {
      LET m == Manifests[i]
          said == text.analysis[m.id]
      IN {<<CapabilityScore(m, text, k), m.id, m.handles[k]>> :
             k \in {j \in DOMAIN m.handles :
                      CapabilityScore(m, text, j) > 0 /\ PolicyAllows(m.id, m.handles[j])}}
         \cup
         {<<SemanticScore(said.confidence), m.id, said.capability>> :
             k \in {1 : x \in IF /\ m.id # Fallback /\ m.semantic
                                /\ said.capability \in ToSet(m.handles)
                                /\ PolicyAllows(m.id, said.capability)
                             THEN {1} ELSE {}}}
      : i \in DOMAIN Manifests}

(* Python compares the candidates as tuples.                                 *)
Precedes(x, y) ==
    \/ x[1] < y[1]
    \/ x[1] = y[1] /\ NameRank[x[2]] < NameRank[y[2]]
    \/ x[1] = y[1] /\ x[2] = y[2] /\ NameRank[x[3]] < NameRank[y[3]]

RouteByText(text) ==
    IF text.empty \/ Candidates(text) = {} THEN NoRoute
    ELSE LET best == CHOOSE x \in Candidates(text) : \A y \in Candidates(text) : y = x \/ Precedes(y, x)
         IN Route(best[2], best[3], "text_match")

RouteRequest(requested, text) ==
    IF requested # None /\ ProvidersFor(requested) # << >>
    THEN Route(ProvidersFor(requested)[1], requested, "requested_capability")
    ELSE IF RouteByText(text) # NoRoute THEN RouteByText(text)
    ELSE IF ProvidersFor(Fallback) # << >>
    THEN Route(ProvidersFor(Fallback)[1], Fallback, "fallback")
    ELSE NoRoute

(* _find_action: the plugin the memory prefers comes first.                  *)
NoAction == [id |-> None, capability |-> None, enabled |-> TRUE, reason |-> None, plugin |-> None]
FindAction(id, preferred) ==
    LET isPreferred(m) == m.id = preferred
        others(m) == m.id # preferred
        order == SelectSeq(Manifests, isPreferred) \o SelectSeq(Manifests, others)
        having == SelectInSeq(order, LAMBDA m : \E a \in ToSet(m.actions) : a.id = id)
    IN IF having = 0 THEN NoAction
       ELSE LET acts == order[having].actions
                a == acts[SelectInSeq(acts, LAMBDA x : x.id = id)]
            IN [id |-> a.id, capability |-> a.capability, enabled |-> a.enabled,
                reason |-> a.reason, plugin |-> order[having].id]

=============================================================================
