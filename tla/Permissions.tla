------------------------------ MODULE Permissions ------------------------------
(***************************************************************************)
(* config.py and models.py: how a preset and a list of capabilities become *)
(* the set of capabilities the server enforces, and the enforcement.       *)
(* The public build knows one role, so ROLE_CAPABILITIES is one set.       *)
(***************************************************************************)
CONSTANTS RoleCapabilities,     \* ROLE_CAPABILITIES["target"]
          Sources,              \* those ending in ":write", and deployment:target
          Status,               \* "status:read"
          Apply,                \* "mutation:apply"
          Presets,              \* PERMISSION_PRESETS
          DefaultPreset         \* DEFAULT_PERMISSION_PRESET

ASSUME PermissionsAssumption ==
    /\ Sources \subseteq RoleCapabilities
    /\ {Status, Apply} \subseteq RoleCapabilities \ Sources
    /\ Status # Apply
    /\ "custom" \notin DOMAIN Presets /\ "" \notin DOMAIN Presets
    /\ DefaultPreset \in DOMAIN Presets

\* A preset that is missing is the empty one.
Named(preset) == IF preset = "" THEN DefaultPreset ELSE preset

\* resolve_allowed_capabilities raises on anything else.
Resolvable(preset, selected) ==
    \/ Named(preset) \in DOMAIN Presets \cup {"advanced"}
    \/ preset = "custom" /\ selected \subseteq RoleCapabilities

Chosen(preset, selected) ==
    CASE Named(preset) = "advanced" -> RoleCapabilities
      [] preset = "custom"          -> selected
      [] OTHER                      -> Presets[Named(preset)] \cap RoleCapabilities

\* Mutant of WithApply: a selected mutation:apply is never taken away.
KeepsApply(allowed) == IF allowed \cap Sources # {} THEN allowed \cup {Apply} ELSE allowed

\* Applying goes with being able to prepare something, whatever was selected.
WithApply(allowed) == IF allowed \cap Sources # {} THEN allowed \cup {Apply}
                                                   ELSE allowed \ {Apply}

Resolve(preset, selected) ==
    WithApply(Chosen(preset, selected) \cup {Status}) \cap RoleCapabilities

\* enforce_capability_policy.
Permits(config, capability, mutation) ==
    /\ capability \in config.caps
    /\ ~(mutation /\ config.lockdown)
=================================================================================
