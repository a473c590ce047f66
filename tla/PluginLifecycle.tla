---------------------------- MODULE PluginLifecycle ----------------------------
(* The plugins of a runtime: the loader registers the component of each         *)
(* manifest it accepts, the lifecycle manager keeps a record per plugin and      *)
(* mirrors its state into the component registry. The two tables are changed     *)
(* one after the other, and each refuses what its own table does not allow. One  *)
(* caller drives a runtime, so a call finishes before the next one starts.       *)
EXTENDS PluginManifest

CONSTANT Roots    \* the plugin directories: the manifests found, in the order of their paths

ASSUME RootsAssumption == Roots \subseteq Seq(Manifest)

VARIABLES registry,    \* ComponentRegistry._components, by the state of the component
          records,     \* PluginLifecycleManager._records, by the state of the record
          loading,     \* the load in progress: manifests left, plugins loaded so far
          last         \* how the last call ended

vars == <<registry, records, loading, last>>

Lifecycle == INSTANCE PluginStates

ComponentState == {"registered", "initialized", "active", "paused", "stopped"}

Absent == "absent"

\* Mutant: no component is started over.
ComponentTransitionsWithoutReset ==
  [registered  |-> {"initialized", "stopped"},
   initialized |-> {"active", "stopped"},
   active      |-> {"paused", "stopped"},
   paused      |-> {"active", "stopped"},
   stopped     |-> {}]

\* _ALLOWED_TRANSITIONS of the component registry.
COMPONENT_TRANSITIONS ==
  [registered  |-> {"initialized", "stopped"},
   initialized |-> {"active", "stopped"},
   active      |-> {"paused", "stopped"},
   paused      |-> {"active", "stopped"},
   stopped     |-> {"registered"}]

Registered == {p \in Plugins : registry[p] # Absent}

\* ComponentRegistry.set_state raises for an absent component and for a change
\* that its table does not list.
RegistryAccepts(p, state) ==
  /\ registry[p] # Absent
  /\ state = registry[p] \/ state \in COMPONENT_TRANSITIONS[registry[p]]

NoLoad == [active |-> FALSE, strict |-> FALSE, files |-> <<>>, loaded |-> {}]

\* A call ends well, refused by the lifecycle manager or by the registry;
\* "recorded" says that it left an event.
Call(p, from, to, result, recorded) ==
  [plugin |-> p, from |-> from, to |-> to, result |-> result, recorded |-> recorded]

NoCall == Call("none", "none", "none", "ok", TRUE)

Init ==
  /\ registry = [p \in Plugins |-> Absent]
  /\ records = [p \in Plugins |-> Lifecycle!NoRecord]
  /\ loading = NoLoad
  /\ last = NoCall

Idle == ~loading.active

-----------------------------------------------------------------------------
\* load_plugins of a root: the manifests are taken one by one, and the records
\* are made when all of them have been read.
StartLoad(root, strict) ==
  /\ Idle
  /\ loading' = [active |-> TRUE, strict |-> strict, files |-> root, loaded |-> {}]
  /\ UNCHANGED <<registry, records, last>>

\* load_manifest accepts: the component is registered at once.
LoadManifest ==
  /\ loading.active /\ loading.files # <<>>
  /\ LET m == Head(loading.files)
     IN  /\ IsValid(m, Registered)
         /\ registry' = [registry EXCEPT ![m.name] = "registered"]
         /\ loading' = [loading EXCEPT !.files  = Tail(loading.files),
                                       !.loaded = loading.loaded \union {m.name}]
  /\ UNCHANGED <<records, last>>

\* It fails, or skips a plugin that is already loaded: in a lenient load that is
\* a result among others.
SkipManifest ==
  /\ loading.active /\ loading.files # <<>>
  /\ ~loading.strict
  /\ ~IsValid(Head(loading.files), Registered)
  /\ loading' = [loading EXCEPT !.files = Tail(loading.files)]
  /\ UNCHANGED <<registry, records, last>>

\* In a strict load it raises, and load_plugins ends before it attaches anything.
AbortLoad ==
  /\ loading.active /\ loading.files # <<>>
  /\ loading.strict
  /\ ~IsValid(Head(loading.files), Registered)
  /\ loading' = NoLoad
  /\ last' = Call(Head(loading.files).name, "none", "registered", "refused_by_loader", FALSE)
  /\ UNCHANGED <<registry, records>>

\* attach_many: a record for every plugin loaded, in place of the one it had.
AttachLoaded ==
  /\ loading.active /\ loading.files = <<>>
  /\ records' = [p \in Plugins |-> IF p \in loading.loaded THEN "registered" ELSE records[p]]
  /\ loading' = NoLoad
  /\ UNCHANGED <<registry, last>>

-----------------------------------------------------------------------------
HasRecord(p) == records[p] # Lifecycle!NoRecord

\* What a call of transition meets, in this order: the registry is told of the states
\* that components have, and not of a failure or an unloading.
TransitionVerdict(p, to) ==
  IF ~Lifecycle!IsAllowed(records[p], to) THEN "refused_by_lifecycle"
  ELSE IF to \in ComponentState /\ ~RegistryAccepts(p, to) THEN "refused_by_registry"
  ELSE "ok"

\* Mutant: the registry is not told.
TransitionOfTheRecord(p, to) ==
  /\ Idle /\ HasRecord(p)
  /\ TransitionVerdict(p, to) = "ok"
  /\ records' = [records EXCEPT ![p] = to]
  /\ last' = Call(p, records[p], to, "ok", TRUE)
  /\ UNCHANGED <<registry, loading>>

\* initialize, activate, pause, stop and reset, all by transition, which may itself be
\* called with any state; the component of a record it unloads stays where it is.
Transition(p, to) ==
  /\ Idle /\ HasRecord(p)
  /\ TransitionVerdict(p, to) = "ok"
  /\ registry' = IF to \in ComponentState THEN [registry EXCEPT ![p] = to] ELSE registry
  /\ records' = [records EXCEPT ![p] = to]
  /\ last' = Call(p, records[p], to, "ok", TRUE)
  /\ UNCHANGED loading

\* A refused call changes nothing; the lifecycle manager leaves an event.
TransitionRefused(p, to) ==
  LET verdict == TransitionVerdict(p, to)
  IN  /\ Idle /\ HasRecord(p)
      /\ verdict # "ok"
      /\ last' = Call(p, records[p], to, verdict, verdict = "refused_by_lifecycle")
      /\ UNCHANGED <<registry, records, loading>>

\* unload refuses an active record before it asks the table.
UnloadVerdict(p) ==
  IF records[p] = "active" \/ ~Lifecycle!IsAllowed(records[p], "unloaded")
  THEN "refused_by_lifecycle"
  ELSE IF registry[p] = "active" THEN "refused_by_registry"
  ELSE "ok"

\* The component, if there is one, leaves the registry.
Unload(p) ==
  /\ Idle /\ HasRecord(p)
  /\ UnloadVerdict(p) = "ok"
  /\ registry' = [registry EXCEPT ![p] = Absent]
  /\ records' = [records EXCEPT ![p] = "unloaded"]
  /\ last' = Call(p, records[p], "unloaded", "ok", TRUE)
  /\ UNCHANGED loading

\* Only a refusal by the table leaves an event.
UnloadRefused(p) ==
  LET verdict == UnloadVerdict(p)
  IN  /\ Idle /\ HasRecord(p)
      /\ verdict # "ok"
      /\ last' = Call(p, records[p], "unloaded", verdict,
                      verdict = "refused_by_lifecycle" /\ records[p] # "active")
      /\ UNCHANGED <<registry, records, loading>>

\* mark_failed does not touch the registry.
MarkFailed(p) ==
  /\ Idle /\ HasRecord(p)
  /\ Lifecycle!IsAllowed(records[p], "failed")
  /\ records' = [records EXCEPT ![p] = "failed"]
  /\ last' = Call(p, records[p], "failed", "ok", TRUE)
  /\ UNCHANGED <<registry, loading>>

MarkFailedRefused(p) ==
  /\ Idle /\ HasRecord(p)
  /\ ~Lifecycle!IsAllowed(records[p], "failed")
  /\ last' = Call(p, records[p], "failed", "refused_by_lifecycle", TRUE)
  /\ UNCHANGED <<registry, records, loading>>

\* What the loop over the manifests does, until it ends.
LoaderStep == LoadManifest \/ SkipManifest \/ AbortLoad \/ AttachLoaded

Next ==
  \/ \E root \in Roots, strict \in BOOLEAN : StartLoad(root, strict)
  \/ LoadManifest
  \/ SkipManifest
  \/ AbortLoad
  \/ AttachLoaded
  \/ \E p \in Plugins :
       \/ \E to \in Lifecycle!PluginState : Transition(p, to) \/ TransitionRefused(p, to)
       \/ Unload(p)
       \/ UnloadRefused(p)
       \/ MarkFailed(p)
       \/ MarkFailedRefused(p)

\* A load is one loop over a finite list of files: it goes on to its end. What
\* callers ask for is up to them.
Spec == Init /\ [][Next]_vars /\ WF_vars(LoaderStep)

-----------------------------------------------------------------------------
Results == {"ok", "refused_by_lifecycle", "refused_by_registry", "refused_by_loader"}

\* The types of the state: in particular a component never takes one of the two
\* states that only records have.
TypeOK ==
  /\ registry \in [Plugins -> ComponentState \union {Absent}]
  /\ records \in [Plugins -> Lifecycle!PluginState \union {Lifecycle!NoRecord}]
  /\ loading \in [active : BOOLEAN, strict : BOOLEAN,
                  files : Seq(Manifest), loaded : SUBSET Plugins]
  /\ last.result \in Results
  /\ last.recorded \in BOOLEAN

\* The component of a plugin is in the state of its record, whenever the record
\* is in a state that components have; a failed plugin still has its component.
\* Reloads, failures and refused calls never drive the two tables apart.
RegistryMirrors ==
  \A p \in Plugins :
    /\ records[p] \in ComponentState => registry[p] = records[p]
    /\ records[p] = "failed" => registry[p] # Absent

\* The registry never stops the lifecycle manager half way through a change that its
\* table allows, except when it unloads a plugin that failed while active: the component
\* is still active, and the record says failed, or unloaded if transition took it there.
RegistryNeverInTheWay ==
  last.result = "refused_by_registry" =>
    /\ last.to = "unloaded" /\ last.from \in {"failed", "unloaded"}
    /\ registry[last.plugin] = "active"

\* Every plugin goes through the published lifecycle: attach_load_result puts a
\* new record over the old one without looking at it, and still a plugin starts
\* again only after it was unloaded.
LifecycleFollowed == Lifecycle!Spec
=============================================================================
