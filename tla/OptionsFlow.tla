------------------------------ MODULE OptionsFlow ------------------------------
(***************************************************************************)
(* config_flow.py, _load_file of config.py and the setup half of           *)
(* __init__.py: the private configuration file, the configuration the      *)
(* running bridge enforces, and the flows that change them.                *)
(*                                                                         *)
(* A raw configuration keeps the fields that some property tells apart:    *)
(* the permissions and the lockdown, which the options form sets; the      *)
(* client secret, which it may rotate; the user allowlist, which only an   *)
(* editor of the file sets; and whether the rest of the file is usable     *)
(* (enabled, and every address well formed).  The forms validate what they *)
(* write, so a candidate is unusable only if the file it was made from is. *)
(*                                                                         *)
(* One variable stands for the configuration of the runtime, because       *)
(* _apply_runtime_config gives it to every holder without an await.        *)
(* _write replaces the file in one step: two confirmations that share its  *)
(* temporary file within one write are not modelled.                       *)
(***************************************************************************)
EXTENDS Permissions, Naturals

CONSTANTS Flows,        \* options dialogs that may be open together
          Forms,        \* what a form may submit: permissions, lockdown, rotation
          HandEdits,    \* what an editor of the file may set: fields and their values
          NoFile, NotLoaded, Nothing, Due,
          Capabilities, \* the names that a list in the file may hold
          MaxSecrets, MaxHandEdits, MaxRestarts     \* bounds, for TLC only

Raws == [preset : DOMAIN Presets \cup {"", "advanced", "custom"}, caps : SUBSET Capabilities,
         lockdown : BOOLEAN, secret : 0..MaxSecrets, users : {"all", "few"}, usable : BOOLEAN]

Configs == [enabled : BOOLEAN, caps : SUBSET RoleCapabilities, lockdown : BOOLEAN,
            secret : 0..MaxSecrets, users : {"all", "few"}]

\* An editor of the file sets some fields.
Edited(raw, edit) == [field \in DOMAIN raw |-> IF field \in DOMAIN edit THEN edit[field]
                                                                       ELSE raw[field]]

ASSUME FormsAssumption ==
    /\ RoleCapabilities \subseteq Capabilities
    /\ Forms \subseteq [preset : DOMAIN Presets \cup {"advanced", "custom"},
                        caps : SUBSET Capabilities, lockdown : BOOLEAN, rotate : BOOLEAN]
\* A generated secret is random: no edit writes one that is generated later.
ASSUME EditsAssumption == /\ \A raw \in Raws, edit \in HandEdits : Edited(raw, edit) \in Raws
                          /\ \A edit \in HandEdits : "secret" \notin DOMAIN edit
ASSUME MarksAssumption == NoFile \notin Raws /\ Nothing # Due /\ {Nothing, Due} \cap Configs = {}
ASSUME BoundsAssumption == MaxSecrets \in Nat /\ MaxHandEdits \in Nat /\ MaxRestarts \in Nat

VARIABLES file,         \* bridge-v1.json
          entry,        \* a config entry exists
          runtime,      \* the configuration of hass.data[DOMAIN] and its holders
          starting,     \* _async_initialize: not under way, due, or what it loaded
          setup,        \* the config flow that adds the entry
          flow,         \* the options flows
          secrets,      \* secrets generated so far
          accepted,     \* history: what an administrator last put into the file
          crossed,      \* history: some save was not alone since
          live,         \* history: the runtime was given the accepted file
          handEdits, restarts

flowVars == <<file, entry, runtime, starting, setup, flow, secrets,
              accepted, crossed, live, handEdits, restarts>>
promise == <<accepted, crossed, live>>

Disabled == [enabled |-> FALSE, caps |-> {}, lockdown |-> TRUE, secret |-> 0, users |-> "all"]

\* resolve_raw_permissions, for a role that exists.
RawResolvable(raw) == Resolvable(raw.preset, raw.caps)
RawCapabilities(raw) == Resolve(raw.preset, raw.caps)

\* _load_file: what cannot be used is the disabled configuration.
Load(content) ==
    IF content = NoFile \/ ~content.usable \/ ~RawResolvable(content) THEN Disabled
    ELSE [enabled |-> TRUE, caps |-> RawCapabilities(content),
          lockdown |-> content.lockdown, secret |-> content.secret, users |-> content.users]

\* Mutant of Submitted: the candidate is built anew instead of over raw.
BuiltAnew(raw, form) ==
    [raw EXCEPT !.preset = form.preset, !.caps = Resolve(form.preset, form.caps),
                !.lockdown = form.lockdown, !.users = "all"]

\* The forms of permissions and capabilities, over the configuration raw.
Submitted(raw, form) ==
    [raw EXCEPT !.preset = form.preset, !.caps = Resolve(form.preset, form.caps),
                !.lockdown = form.lockdown]

Closed == [step |-> "closed", previous |-> NoFile, staged |-> NoFile,
           loaded |-> Nothing, rotate |-> FALSE, alone |-> FALSE]

FlowInit == /\ file = NoFile /\ entry = FALSE
            /\ runtime = NotLoaded /\ starting = Nothing
            /\ setup = [step |-> "none", pending |-> NoFile]
            /\ flow = [f \in Flows |-> Closed]
            /\ secrets = 0
            /\ accepted = NoFile /\ crossed = FALSE /\ live = TRUE
            /\ handEdits = 0 /\ restarts = 0

\* A confirmation between its write and its end.
Saving(f) == flow[f].step \in {"written", "loaded"}

\* A dialog is alone with the file if nobody else writes it from its reading to
\* its end, and nobody was about to take a write back when it read.
Contested(fl, others) ==
    [f \in Flows |-> IF f \in others THEN [fl[f] EXCEPT !.alone = FALSE] ELSE fl[f]]
---------------------------------------------------------------------------------
(* The config flow that adds One Bridge. *)

\* The pages user, permissions and capabilities: nothing is kept but _pending,
\* and a dialog that is left before its confirmation was as good as not opened.
\* It is not opened while Home Assistant is still setting One Bridge up.
SetupForms(form) ==
    /\ ~entry /\ starting = Nothing
    /\ setup.step = "none" /\ secrets < MaxSecrets
    /\ Resolvable(form.preset, form.caps)
    /\ secrets' = secrets + 1
    /\ setup' = [step |-> "credentials",
                 pending |-> Submitted([preset |-> "", caps |-> {}, lockdown |-> FALSE,
                                        secret |-> secrets + 1, users |-> "all",
                                        usable |-> TRUE],
                                       [form EXCEPT !.lockdown = FALSE])]
    /\ UNCHANGED <<file, entry, runtime, starting, flow, promise, handEdits, restarts>>

SetupConfirm ==
    /\ setup.step = "credentials"
    /\ file' = setup.pending
    /\ accepted' = setup.pending /\ crossed' = FALSE /\ live' = FALSE
    /\ setup' = [setup EXCEPT !.step = "written"]
    /\ UNCHANGED <<entry, runtime, starting, flow, secrets, handEdits, restarts>>

\* The entry is created after the detection of Sent folders, and set up.
\* _async_initialize returns at once when an engine from before is there.
CreateEntry ==
    /\ setup.step = "written"
    /\ entry' = TRUE
    /\ setup' = [step |-> "none", pending |-> NoFile]
    /\ starting' = IF runtime = NotLoaded THEN Due ELSE Nothing
    /\ UNCHANGED <<file, runtime, flow, secrets, promise, handEdits, restarts>>

\* A start without an entry (from configuration.yaml) imports one.  The import
\* is given the preset but not the capabilities, so it fails for a custom one.
Imports(config) == config.enabled /\ file.preset # "custom"

\* async_load_config, at a start or for a new entry.
Initialize ==
    /\ starting = Due
    /\ starting' = Load(file)
    /\ entry' = (entry \/ Imports(Load(file)))
    /\ live' = TRUE
    /\ UNCHANGED <<file, runtime, setup, flow, secrets, accepted, crossed, handEdits, restarts>>

\* hass.data[DOMAIN] is filled after the audit log and the catalog were loaded.
Install ==
    /\ starting \notin {Nothing, Due}
    /\ runtime' = starting
    /\ starting' = Nothing
    /\ UNCHANGED <<file, entry, setup, flow, secrets, promise, handEdits, restarts>>
---------------------------------------------------------------------------------
(* The options flow. *)

\* async_step_init with what the form submitted: the file is read here.
OptionsForm(f, form) ==
    /\ entry /\ flow[f].step = "closed"
    /\ file # NoFile /\ RawResolvable(file) /\ Resolvable(form.preset, form.caps)
    /\ form.rotate => secrets < MaxSecrets
    /\ secrets' = IF form.rotate THEN secrets + 1 ELSE secrets
    /\ LET updated == Submitted(file, form)
       IN flow' = [flow EXCEPT ![f] =
                     [step |-> "review", previous |-> file,
                      staged |-> IF form.rotate THEN [updated EXCEPT !.secret = secrets + 1]
                                                ELSE updated,
                      loaded |-> Nothing, rotate |-> form.rotate,
                      alone |-> \A g \in Flows : ~Saving(g)]]
    /\ UNCHANGED <<file, entry, runtime, starting, setup, promise, handEdits, restarts>>

Leave(f) ==
    /\ flow[f].step = "review"
    /\ flow' = [flow EXCEPT ![f] = Closed]
    /\ UNCHANGED <<file, entry, runtime, starting, setup, secrets, promise, handEdits, restarts>>

\* async_step_setup, confirmed: the file is written before anything else.
Save(f) ==
    /\ flow[f].step = "review"
    /\ file' = flow[f].staged
    /\ flow' = Contested([flow EXCEPT ![f].step = "written"], Flows \ {f})
    /\ UNCHANGED <<entry, runtime, starting, setup, secrets, promise, handEdits, restarts>>

Reload(f) ==
    /\ flow[f].step = "written"
    /\ flow' = [flow EXCEPT ![f].step = "loaded", ![f].loaded = Load(file)]
    /\ UNCHANGED <<file, entry, runtime, starting, setup, secrets, promise, handEdits, restarts>>

\* Mutant of Usable: the reloaded configuration is not looked at.
AnyUsable(f) == TRUE

Usable(f) == flow[f].loaded.enabled

\* _apply_runtime_config does nothing for a bridge that is not there yet.
Activate(f) ==
    /\ flow[f].step = "loaded" /\ Usable(f)
    /\ runtime' = IF runtime = NotLoaded THEN NotLoaded ELSE flow[f].loaded
    /\ flow' = [flow EXCEPT ![f] = Closed]
    /\ accepted' = flow[f].staged
    /\ crossed' = (~flow[f].alone \/ starting # Nothing \/ runtime = NotLoaded)
    /\ live' = TRUE
    /\ UNCHANGED <<file, entry, starting, setup, secrets, handEdits, restarts>>

\* Mutant of Restored: the rejected candidate stays.
LeftThere(f) == file

Restored(f) == flow[f].previous

RollBack(f) ==
    /\ flow[f].step = "loaded" /\ ~Usable(f)
    /\ file' = Restored(f)
    /\ flow' = Contested([flow EXCEPT ![f] = Closed], Flows \ {f})
    /\ crossed' = (crossed \/ ~flow[f].alone)
    /\ UNCHANGED <<entry, runtime, starting, setup, secrets, accepted, live,
                   handEdits, restarts>>
---------------------------------------------------------------------------------
(* The surroundings. *)

EditByHand(edit) ==
    /\ handEdits < MaxHandEdits /\ file # NoFile
    /\ file' = Edited(file, edit)
    /\ flow' = Contested(flow, Flows)
    /\ accepted' = file'
    /\ crossed' = (crossed \/ \E f \in Flows : Saving(f))
    /\ live' = FALSE
    /\ handEdits' = handEdits + 1
    /\ UNCHANGED <<entry, runtime, starting, setup, secrets, restarts>>

\* Home Assistant removes the entry; the file and, as unloading is not
\* supported, the running bridge stay.
RemoveEntry ==
    /\ entry /\ starting = Nothing /\ \A f \in Flows : flow[f].step = "closed"
    /\ entry' = FALSE
    /\ UNCHANGED <<file, runtime, starting, setup, flow, secrets, promise, handEdits, restarts>>

\* Home Assistant ends and starts; yaml tells whether configuration.yaml names
\* One Bridge.  Open dialogs are gone, what they had written is not.
Restart(yaml) ==
    /\ restarts < MaxRestarts
    /\ restarts' = restarts + 1
    /\ runtime' = NotLoaded
    /\ starting' = IF entry \/ yaml THEN Due ELSE Nothing
    /\ setup' = [step |-> "none", pending |-> NoFile]
    /\ flow' = [f \in Flows |-> Closed]
    /\ crossed' = (crossed \/ \E f \in Flows : Saving(f))
    /\ live' = FALSE
    /\ UNCHANGED <<file, entry, secrets, accepted, handEdits>>

FlowNext == \/ \E form \in Forms : SetupForms(form)
            \/ SetupConfirm
            \/ CreateEntry
            \/ Initialize
            \/ Install
            \/ \E f \in Flows : \/ \E form \in Forms : OptionsForm(f, form)
                                \/ Leave(f)
                                \/ Save(f)
                                \/ Reload(f)
                                \/ Activate(f)
                                \/ RollBack(f)
            \/ \E edit \in HandEdits : EditByHand(edit)
            \/ RemoveEntry
            \/ \E yaml \in BOOLEAN : Restart(yaml)

FlowSpec == FlowInit /\ [][FlowNext]_flowVars
---------------------------------------------------------------------------------
Dialogs == [step : {"closed", "review", "written", "loaded"}, previous : Raws \cup {NoFile},
            staged : Raws \cup {NoFile}, loaded : Configs \cup {Nothing},
            rotate : BOOLEAN, alone : BOOLEAN]
Filled(dialog) ==
    /\ dialog.step # "closed" => dialog.previous # NoFile /\ dialog.staged # NoFile
    /\ dialog.step = "loaded" => dialog.loaded # Nothing

\* Every variable has its type, an entry has a file, and a dialog holds what its
\* page needs.
FlowTypeOK ==
    /\ file \in Raws \cup {NoFile} /\ accepted \in Raws \cup {NoFile}
    /\ entry \in BOOLEAN /\ crossed \in BOOLEAN /\ live \in BOOLEAN
    /\ entry \/ setup.step = "written" => file # NoFile
    /\ runtime \in Configs \cup {NotLoaded}
    /\ starting \in Configs \cup {Nothing, Due}
    /\ setup \in [step : {"none", "credentials", "written"}, pending : Raws \cup {NoFile}]
    /\ setup.step # "none" => setup.pending # NoFile
    /\ flow \in [Flows -> Dialogs]
    /\ \A f \in Flows : Filled(flow[f])
    /\ secrets \in 0..MaxSecrets /\ handEdits \in 0..MaxHandEdits /\ restarts \in 0..MaxRestarts

\* Once no save is under way, the file is what an administrator last accepted,
\* also after a rejected candidate was rolled back, and the bridge enforces it
\* if it was activated or loaded since (async_step_setup, _async_initialize).
\* Saves that met another write, or a crash, are excepted until the next one
\* that was alone.
Settled ==
    starting = Nothing /\ ~crossed /\ (\A f \in Flows : ~Saving(f))
       => /\ file = accepted
          /\ live /\ runtime # NotLoaded => runtime = Load(accepted)

\* Whatever the dialogs and the editors of the file do, and however they meet,
\* a bridge that works is not switched off before the next start.
NeverDown ==
    [][runtime # NotLoaded /\ runtime.enabled
          => runtime' = NotLoaded \/ runtime'.enabled]_flowVars

\* A save that was alone changes what its form is about: the allowlist of the
\* file, also one just edited by hand, is enforced from then on, and the client
\* secret is replaced only where the form asked for it.
OnlyAsked ==
    [][\A f \in Flows :
          /\ flow[f].step = "loaded" /\ flow'[f].step = "closed" /\ restarts' = restarts
          /\ flow[f].alone /\ ~crossed /\ runtime # NotLoaded /\ runtime' # runtime
          => /\ runtime'.users = accepted.users
             /\ runtime'.secret = accepted.secret <=> ~flow[f].rotate]_flowVars

\* README.md, "Access presets": what can be prepared can be applied and nothing
\* else can, status is always readable, and the review page of a dialog shows
\* the capabilities that its form was resolved to.
PermissionsSound ==
    /\ runtime # NotLoaded =>
          /\ (\E c \in Sources : Permits(runtime, c, TRUE)) <=> Permits(runtime, Apply, TRUE)
          /\ runtime.enabled => Permits(runtime, Status, FALSE)
    /\ \A f \in Flows : flow[f].step = "review" =>
          RawCapabilities(flow[f].staged) = flow[f].staged.caps
=================================================================================
