----------------------------- MODULE PluginStates -----------------------------
(* The lifecycle of plugins as it is published: the table of allowed            *)
(* transitions, applied to one record per plugin. It is what a caller of the    *)
(* lifecycle manager may rely on, whatever the loader and the component         *)
(* registry do.                                                                  *)
CONSTANTS Plugins

VARIABLE records    \* the lifecycle state of each plugin

PluginState == {"registered", "initialized", "active", "paused", "stopped", "failed", "unloaded"}

\* A plugin without a record.
NoRecord == "none"

ALLOWED_TRANSITIONS ==
  [registered  |-> {"initialized", "stopped", "unloaded", "failed"},
   initialized |-> {"active", "stopped", "unloaded", "failed"},
   active      |-> {"paused", "stopped", "failed"},
   paused      |-> {"active", "stopped", "unloaded", "failed"},
   stopped     |-> {"registered", "unloaded", "failed"},
   failed      |-> {"stopped", "unloaded"},
   unloaded    |-> {}]

\* _ensure_transition: staying is always allowed.
IsAllowed(from, to) == to = from \/ to \in ALLOWED_TRANSITIONS[from]

Init == records = [p \in Plugins |-> NoRecord]

\* Plugins enter the lifecycle, for the first time or after they were unloaded.
Register(ps) ==
  /\ \A p \in ps : records[p] \in {NoRecord, "unloaded"}
  /\ records' = [p \in Plugins |-> IF p \in ps THEN "registered" ELSE records[p]]

Move(p, to) ==
  /\ records[p] # NoRecord
  /\ IsAllowed(records[p], to)
  /\ records' = [records EXCEPT ![p] = to]

Next ==
  \/ \E ps \in SUBSET Plugins : Register(ps)
  \/ \E p \in Plugins, to \in PluginState : Move(p, to)

Spec == Init /\ [][Next]_records
=============================================================================
