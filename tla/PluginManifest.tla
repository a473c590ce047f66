---------------------------- MODULE PluginManifest ----------------------------
(* What a plugin manifest declares and what the plugin validator finds wrong   *)
(* with it. A manifest is known by the findings of the checks on its names,     *)
(* paths and hooks; versions, permissions and dependencies are compared here.   *)
EXTENDS Integers, Sequences

CONSTANTS Plugins,              \* plugin names
          RuntimeVersion,       \* the numbers of the version of the runtime
          AllowedPermissions    \* _DEFAULT_ALLOWED_PERMISSIONS, or what the validator was given

\* The numbers found in a version text, at most three of them counting.
Version == Seq(Nat)

NoMaximum == <<>>

\* The checks of _validate_entrypoint, _validate_hooks and _validate_capabilities
\* that a manifest may fail: names and paths that are not safe.
NameCheck == {"name", "version", "entrypoint.module", "entrypoint.factory",
              "hook.target", "capability.name", "capability.kind"}

\* "parsed" is false when the file does not exist, is not JSON, lacks a field or
\* names something twice.
Manifest ==
  [name         : Plugins,
   parsed       : BOOLEAN,
   unsafe       : SUBSET NameCheck,
   minimum      : Version,
   maximum      : Version,
   permissions  : SUBSET STRING,
   dependencies : SUBSET Plugins]

ASSUME ManifestAssumption ==
  /\ RuntimeVersion \in Version
  /\ AllowedPermissions \subseteq STRING

\* _version_tuple: the first three numbers, zeros for those that are missing.
VersionTuple(v) == [i \in 1..3 |-> IF i \in DOMAIN v THEN v[i] ELSE 0]

\* The order of Python tuples.
Precedes(v, w) ==
  LET a == VersionTuple(v)
      b == VersionTuple(w)
  IN  \E i \in 1..3 : a[i] < b[i] /\ \A j \in 1..(i - 1) : a[j] = b[j]

RuntimeErrors(m) ==
  (IF Precedes(RuntimeVersion, m.minimum) THEN {"runtime.version.too_low"} ELSE {})
  \union
  (IF m.maximum # NoMaximum /\ Precedes(m.maximum, RuntimeVersion)
   THEN {"runtime.version.too_high"} ELSE {})

PermissionErrors(m) ==
  IF m.permissions \subseteq AllowedPermissions THEN {} ELSE {"permission.not_allowed"}

\* Mutant: a plugin may be registered again.
RegistryErrorsOfDependencies(m, registered) ==
  IF m.dependencies \subseteq registered THEN {} ELSE {"dependency.missing"}

\* "registered" are the names in the component registry.
RegistryErrors(m, registered) ==
  (IF m.name \in registered THEN {"plugin.already_registered"} ELSE {})
  \union
  (IF m.dependencies \subseteq registered THEN {} ELSE {"dependency.missing"})

\* The errors of the report; a permission without a reason is only a warning.
ValidationErrors(m, registered) ==
  IF ~m.parsed THEN {"manifest.invalid"}
  ELSE m.unsafe \union RuntimeErrors(m) \union PermissionErrors(m)
         \union RegistryErrors(m, registered)

IsValid(m, registered) == ValidationErrors(m, registered) = {}
=============================================================================
