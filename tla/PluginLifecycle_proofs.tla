------------------------ MODULE PluginLifecycle_proofs ------------------------
(* Theorems about PluginLifecycle, for any plugins, manifests and directories. *)
EXTENDS PluginLifecycle, TLAPS

\* A plugin that the load in progress has registered is not in use: it has no
\* record, or one that was unloaded. This is why a new record can replace the old one.
LoadedIsNew ==
  /\ Idle => loading.loaded = {}
  /\ \A p \in loading.loaded :
       /\ registry[p] = "registered"
       /\ records[p] \in {Lifecycle!NoRecord, "unloaded"}

\* A component that never had a record is as the loader has left it, and only a component
\* that is active can have stopped a call.
UnmanagedIsInert ==
  /\ \A p \in Plugins : records[p] = Lifecycle!NoRecord => registry[p] \in {Absent, "registered"}
  /\ last.result = "refused_by_registry" => last.plugin \in Plugins

\* The inductive invariant: the two tables agree, during a load too.
PluginInv == TypeOK /\ RegistryMirrors /\ LoadedIsNew /\ UnmanagedIsInert /\ RegistryNeverInTheWay

USE DEF UnmanagedIsInert, Absent, ComponentState, Lifecycle!PluginState, Lifecycle!NoRecord, Results

\* A fresh runtime has neither components nor records.
LEMMA InitPlugins == Init => PluginInv
  BY DEF Init, PluginInv, TypeOK, RegistryMirrors, LoadedIsNew, RegistryNeverInTheWay,
         NoLoad, NoCall, Call, Idle

\* A record in a state of components agrees with its component, so whatever the
\* table of the lifecycle allows, the table of the registry allows too.
LEMMA RegistryAgrees ==
  ASSUME PluginInv, NEW p \in Plugins, NEW to \in ComponentState,
         HasRecord(p), Lifecycle!IsAllowed(records[p], to)
  PROVE  RegistryAccepts(p, to)
<1>1. records[p] \in {"registered", "initialized", "active", "paused", "stopped", "failed", "unloaded"}
  BY DEF PluginInv, TypeOK, HasRecord
<1>2. CASE records[p] = "failed"
  BY <1>2 DEF PluginInv, TypeOK, RegistryMirrors, RegistryAccepts, COMPONENT_TRANSITIONS,
              Lifecycle!IsAllowed, Lifecycle!ALLOWED_TRANSITIONS
<1>3. CASE records[p] = "unloaded"
  BY <1>3 DEF Lifecycle!IsAllowed, Lifecycle!ALLOWED_TRANSITIONS
<1>4. CASE records[p] \in ComponentState
  BY <1>4 DEF PluginInv, TypeOK, RegistryMirrors, RegistryAccepts, COMPONENT_TRANSITIONS,
              Lifecycle!IsAllowed, Lifecycle!ALLOWED_TRANSITIONS
<1> QED BY <1>1, <1>2, <1>3, <1>4

\* The loader registers only components that are absent, so no record in use
\* loses the state it mirrors, and the records it makes are of such components.
LEMMA LoadSteps ==
  ASSUME PluginInv, \/ \E root \in Roots, strict \in BOOLEAN : StartLoad(root, strict)
                    \/ LoaderStep
  PROVE  PluginInv'
<1> USE DEF PluginInv, TypeOK, Idle
<1>1. ASSUME NEW root \in Roots, NEW strict \in BOOLEAN, StartLoad(root, strict)
      PROVE  PluginInv'
  BY <1>1, RootsAssumption DEF StartLoad, RegistryMirrors, LoadedIsNew, RegistryNeverInTheWay
<1>2. CASE LoadManifest
  <2> DEFINE m == Head(loading.files)
  <2>1. /\ m \in Manifest
        /\ Tail(loading.files) \in Seq(Manifest)
    <3>1. loading.files \in Seq(Manifest) /\ loading.files # <<>>
      BY <1>2 DEF LoadManifest
    <3> QED BY <3>1
  <2>2. m.name \in Plugins
    BY <2>1 DEF Manifest
  <2>3. registry[m.name] = Absent
    BY <1>2, <2>2 DEF LoadManifest, IsValid, ValidationErrors, RegistryErrors, Registered
  <2>4. records[m.name] \in {Lifecycle!NoRecord, "unloaded"}
    BY <2>2, <2>3 DEF RegistryMirrors
  <2>5. /\ registry' = [registry EXCEPT ![m.name] = "registered"]
        /\ loading' = [loading EXCEPT !.files  = Tail(loading.files),
                                      !.loaded = loading.loaded \union {m.name}]
        /\ records' = records /\ last' = last
    BY <1>2 DEF LoadManifest
  <2>6. TypeOK' BY <2>1, <2>2, <2>5
  <2>7. RegistryMirrors' BY <2>2, <2>4, <2>5 DEF RegistryMirrors
  <2>8. LoadedIsNew'
    <3>1. loading.active /\ loading'.active = loading.active
      BY <1>2, <2>5 DEF LoadManifest
    <3>2. loading'.loaded = loading.loaded \union {m.name}
      BY <2>5
    <3> QED BY <2>2, <2>4, <2>5, <3>1, <3>2 DEF LoadedIsNew
  <2>9. UnmanagedIsInert' /\ RegistryNeverInTheWay'
    BY <2>2, <2>3, <2>5 DEF RegistryNeverInTheWay
  <2> QED BY <2>6, <2>7, <2>8, <2>9
<1>3. CASE SkipManifest
  <2>0. /\ loading.files \in Seq(Manifest) /\ loading.files # <<>>
        /\ loading' = [loading EXCEPT !.files = Tail(loading.files)]
    BY <1>3 DEF SkipManifest
  <2>1. Tail(loading.files) \in Seq(Manifest)
    BY <2>0
  <2>2. TypeOK'
    BY <1>3, <2>0, <2>1 DEF SkipManifest
  <2>3. LoadedIsNew'
    BY <1>3, <2>0 DEF SkipManifest, LoadedIsNew
  <2> QED BY <1>3, <2>2, <2>3 DEF SkipManifest, RegistryMirrors, RegistryNeverInTheWay
<1>4. CASE AbortLoad
  BY <1>4 DEF AbortLoad, NoLoad, Call, RegistryMirrors, LoadedIsNew, RegistryNeverInTheWay
<1>5. CASE AttachLoaded
  BY <1>5 DEF AttachLoaded, NoLoad, RegistryMirrors, LoadedIsNew, RegistryNeverInTheWay
<1> QED BY <1>1, <1>2, <1>3, <1>4, <1>5 DEF LoaderStep

\* No call of the lifecycle manager drives the tables apart; a refusal by the
\* registry is one of an active component whose record has failed.
LEMMA CallSteps ==
  ASSUME PluginInv, NEW p \in Plugins,
         \/ \E to \in Lifecycle!PluginState : Transition(p, to) \/ TransitionRefused(p, to)
         \/ Unload(p) \/ UnloadRefused(p) \/ MarkFailed(p) \/ MarkFailedRefused(p)
  PROVE  PluginInv'
<1> USE DEF PluginInv, TypeOK, LoadedIsNew, Idle
<1>0. loading.active = FALSE
  BY DEF Transition, TransitionRefused, Unload, UnloadRefused, MarkFailed, MarkFailedRefused
<1>1. ASSUME NEW to \in Lifecycle!PluginState, Transition(p, to)
      PROVE  PluginInv'
  <2>1. /\ registry' = IF to \in ComponentState THEN [registry EXCEPT ![p] = to] ELSE registry
        /\ records' = [records EXCEPT ![p] = to]
        /\ last' = Call(p, records[p], to, "ok", TRUE) /\ loading' = loading
        /\ records[p] # Lifecycle!NoRecord
        /\ Lifecycle!IsAllowed(records[p], to)
    BY <1>1 DEF Transition, TransitionVerdict, HasRecord
  <2>2. to = "failed" => registry[p] # Absent
    BY <2>1 DEF RegistryMirrors, Lifecycle!IsAllowed, Lifecycle!ALLOWED_TRANSITIONS
  <2>3. TypeOK' /\ RegistryMirrors'
    BY <2>1, <2>2 DEF Call, RegistryMirrors
  <2> QED BY <1>0, <2>1, <2>3 DEF Call, RegistryNeverInTheWay
<1>2. ASSUME NEW to \in Lifecycle!PluginState, TransitionRefused(p, to)
      PROVE  PluginInv'
  <2>1. TransitionVerdict(p, to) = "refused_by_lifecycle"
    BY <1>2, RegistryAgrees DEF TransitionRefused, TransitionVerdict
  <2> QED BY <1>2, <2>1 DEF TransitionRefused, Call, RegistryMirrors, RegistryNeverInTheWay
<1>3. CASE Unload(p)
  BY <1>0, <1>3 DEF Unload, Call, RegistryMirrors, RegistryNeverInTheWay
<1>4. CASE UnloadRefused(p)
  <2>1. UnloadVerdict(p) = "refused_by_registry" =>
          records[p] \in {"failed", "unloaded"} /\ registry[p] = "active"
    <3>1. records[p] \in ComponentState \union {"failed", "unloaded"}
      BY <1>4 DEF UnloadRefused, HasRecord
    <3> QED BY <3>1 DEF UnloadVerdict, RegistryMirrors
  <2>2. /\ UnloadVerdict(p) \in Results
        /\ last' = Call(p, records[p], "unloaded", UnloadVerdict(p),
                        UnloadVerdict(p) = "refused_by_lifecycle" /\ records[p] # "active")
        /\ UNCHANGED <<registry, records, loading>>
    BY <1>4 DEF UnloadRefused, UnloadVerdict
  <2> QED BY <2>1, <2>2 DEF Call, RegistryMirrors, RegistryNeverInTheWay
<1>5. CASE MarkFailed(p)
  <2>1. records[p] \in ComponentState \union {"failed"}
    BY <1>5 DEF MarkFailed, HasRecord, Lifecycle!IsAllowed, Lifecycle!ALLOWED_TRANSITIONS
  <2> QED BY <1>5, <2>1 DEF MarkFailed, Call, RegistryMirrors, RegistryNeverInTheWay
<1>6. CASE MarkFailedRefused(p)
  BY <1>6 DEF MarkFailedRefused, Call, RegistryMirrors, RegistryNeverInTheWay
<1> QED BY <1>1, <1>2, <1>3, <1>4, <1>5, <1>6

\* Every reachable state satisfies the invariant.
LEMMA PluginInvAlways == Spec => []PluginInv
<1>1. ASSUME PluginInv, [Next]_vars
      PROVE  PluginInv'
  <2>1. CASE UNCHANGED vars
    BY <1>1, <2>1 DEF vars, PluginInv, TypeOK, RegistryMirrors, LoadedIsNew, RegistryNeverInTheWay, Idle
  <2>2. CASE Next
    BY <1>1, <2>2, LoadSteps, CallSteps DEF Next, LoaderStep
  <2> QED BY <1>1, <2>1, <2>2
<1> QED BY <1>1, InitPlugins, PTL DEF Spec

\* TypeOK: every reachable state is well typed; no component takes a state that
\* only records have.
THEOREM PluginsTypeCorrect == Spec => []TypeOK
<1>1. PluginInv => TypeOK
  BY DEF PluginInv
<1> QED BY <1>1, PluginInvAlways, PTL

\* RegistryMirrors: record and component of a plugin agree in every reachable
\* state, for any plugins and directories.
THEOREM TablesAgree == Spec => []RegistryMirrors
<1>1. PluginInv => RegistryMirrors
  BY DEF PluginInv
<1> QED BY <1>1, PluginInvAlways, PTL

\* RegistryNeverInTheWay: only the unloading of a plugin that failed while active is
\* refused by the registry, also when transition has marked it unloaded before.
THEOREM RegistryRefusesOnlyFailed == Spec => []RegistryNeverInTheWay
<1>1. PluginInv => RegistryNeverInTheWay
  BY DEF PluginInv
<1> QED BY <1>1, PluginInvAlways, PTL

\* Every step of the manager is a step of the published lifecycle, or none.
LEMMA StepFollowsLifecycle ==
  ASSUME PluginInv, [Next]_vars
  PROVE  [Lifecycle!Next]_records
<1> USE DEF PluginInv, TypeOK
<1>1. CASE UNCHANGED vars
  BY <1>1 DEF vars
<1>2. ASSUME NEW root \in Roots, NEW strict \in BOOLEAN, StartLoad(root, strict)
      PROVE  UNCHANGED records
  BY <1>2 DEF StartLoad
<1>3. CASE LoadManifest \/ SkipManifest \/ AbortLoad
  BY <1>3 DEF LoadManifest, SkipManifest, AbortLoad
<1>4. CASE AttachLoaded
  <2>1. /\ loading.loaded \in SUBSET Plugins
        /\ Lifecycle!Register(loading.loaded)
    BY <1>4 DEF AttachLoaded, LoadedIsNew, Lifecycle!Register
  <2> QED BY <2>1 DEF Lifecycle!Next
<1>5. ASSUME NEW p \in Plugins, NEW to \in Lifecycle!PluginState, Transition(p, to)
      PROVE  Lifecycle!Move(p, to)
  BY <1>5 DEF Transition, TransitionVerdict, HasRecord, Lifecycle!Move
<1>6. ASSUME NEW p \in Plugins, Unload(p)
      PROVE  Lifecycle!Move(p, "unloaded")
  BY <1>6 DEF Unload, UnloadVerdict, HasRecord, Lifecycle!Move
<1>7. ASSUME NEW p \in Plugins, MarkFailed(p)
      PROVE  Lifecycle!Move(p, "failed")
  BY <1>7 DEF MarkFailed, HasRecord, Lifecycle!Move
<1>8. ASSUME NEW p \in Plugins,
             \/ \E to \in Lifecycle!PluginState : TransitionRefused(p, to)
             \/ UnloadRefused(p) \/ MarkFailedRefused(p)
      PROVE  UNCHANGED records
  BY <1>8 DEF TransitionRefused, UnloadRefused, MarkFailedRefused
<1> QED BY <1>1, <1>2, <1>3, <1>4, <1>5, <1>6, <1>7, <1>8 DEF Next, Lifecycle!Next

\* LifecycleFollowed: the lifecycle manager, with loader and registry, implements
\* the published lifecycle; a record is replaced by a new one only after its
\* plugin was unloaded.
THEOREM ManagerImplementsLifecycle == Spec => LifecycleFollowed
<1>1. Init => Lifecycle!Init
  BY DEF Init, Lifecycle!Init
<1>2. PluginInv /\ [Next]_vars => [Lifecycle!Next]_records
  BY StepFollowsLifecycle
<1> QED BY <1>1, <1>2, PluginInvAlways, PTL DEF Spec, LifecycleFollowed, Lifecycle!Spec
=============================================================================
