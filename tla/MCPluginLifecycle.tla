--------------------------- MODULE MCPluginLifecycle ---------------------------
(* Plugin directories for the model checker.                                   *)
EXTENDS PluginLifecycle

CONSTANTS base, tool    \* two plugins, the second needs the first

Runtime03 == <<0, 3, 0>>

Permissions == {"trace.read", "tool.execute"}

Good(p, deps) ==
  [name |-> p, parsed |-> TRUE, unsafe |-> {}, minimum |-> <<0, 3>>, maximum |-> NoMaximum,
   permissions |-> {"trace.read"}, dependencies |-> deps]

Base == Good(base, {})
Tool == Good(tool, {base})

\* Too new for this runtime, too old, not allowed what it asks for, unreadable.
Newer    == [Tool EXCEPT !.minimum = <<0, 10>>]
Older    == [Base EXCEPT !.maximum = <<0, 2, 9>>]
Greedy   == [Base EXCEPT !.permissions = {"network.open"}]
Unsafe   == [Tool EXCEPT !.unsafe = {"hook.target"}]
Unparsed == [Base EXCEPT !.parsed = FALSE]

PluginRoots ==
  {<<Base>>, <<Base, Tool>>, <<Tool, Base>>, <<Base, Newer>>, <<Greedy, Tool>>,
   <<Unparsed, Base, Unsafe>>, <<Base, Older, Base, Tool>>}
=============================================================================
