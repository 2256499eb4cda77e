--------------------------- MODULE OptionsFlow_proofs ---------------------------
(***************************************************************************)
(* Theorems of Permissions and OptionsFlow, for all presets, capabilities, *)
(* forms, dialogs and edits of the file.                                   *)
(***************************************************************************)
EXTENDS OptionsFlow, TLAPS

\* What a preset and a selection are resolved to is within the role, can read the
\* status, and can apply exactly if something in it can be prepared.
THEOREM ResolveSound ==
    ASSUME NEW preset, NEW selected
    PROVE  /\ Resolve(preset, selected) \subseteq RoleCapabilities
           /\ Status \in Resolve(preset, selected)
           /\ Resolve(preset, selected) \cap Sources # {} <=> Apply \in Resolve(preset, selected)
<1> DEFINE allowed == Chosen(preset, selected) \cup {Status}
<1>1. Resolve(preset, selected) = WithApply(allowed) \cap RoleCapabilities
      BY DEF Resolve
<1>2. /\ Status \in WithApply(allowed)
      /\ WithApply(allowed) \cap Sources = allowed \cap Sources
      /\ Apply \in WithApply(allowed) <=> allowed \cap Sources # {}
      BY PermissionsAssumption DEF WithApply
<1> HIDE DEF allowed
<1>3. (WithApply(allowed) \cap RoleCapabilities) \cap Sources = allowed \cap Sources
      BY <1>2, PermissionsAssumption
<1> QED BY <1>1, <1>2, <1>3, PermissionsAssumption

\* Saving what a form was resolved to and resolving it again, as _load_file does
\* with the list in the file, changes nothing.
THEOREM ResolveStable ==
    ASSUME NEW preset, NEW selected
    PROVE  Resolve(preset, Resolve(preset, selected)) = Resolve(preset, selected)
<1> DEFINE once == Resolve(preset, selected)
<1>1. CASE preset = "custom"
  <2>1. Chosen(preset, once) = once
        BY <1>1, PermissionsAssumption DEF Chosen, Named
  <2>2. /\ once \subseteq RoleCapabilities /\ Status \in once
        /\ once \cap Sources # {} <=> Apply \in once
        BY ResolveSound
  <2> HIDE DEF once
  <2>3. WithApply(once \cup {Status}) = once
        BY <2>2 DEF WithApply
  <2>4. Resolve(preset, once) = WithApply(once \cup {Status}) \cap RoleCapabilities
        BY <2>1 DEF Resolve
  <2> QED BY <2>2, <2>3, <2>4 DEF once
<1>2. CASE preset # "custom"
  <2>1. Chosen(preset, once) = Chosen(preset, selected)
        BY <1>2 DEF Chosen
  <2> QED BY <2>1 DEF Resolve
<1> QED BY <1>1, <1>2
---------------------------------------------------------------------------------
\* An initialization that is under way will fill an empty place, and what a
\* dialog is about to activate was looked at.
OneStart == starting # Nothing => runtime = NotLoaded

LEMMA StartAlone == FlowSpec => []OneStart
<1>1. FlowInit => OneStart
      BY DEF FlowInit, OneStart
<1>2. OneStart /\ [FlowNext]_flowVars => OneStart'
  <2> SUFFICES ASSUME OneStart, [FlowNext]_flowVars PROVE OneStart'
      OBVIOUS
  <2>1. CASE CreateEntry
        BY <2>1 DEF CreateEntry, OneStart
  <2>2. CASE Initialize
    <3>1. starting # Nothing
          BY <2>2, MarksAssumption DEF Initialize
    <3> QED BY <2>2, <3>1 DEF Initialize, OneStart
  <2>3. CASE Install
        BY <2>3 DEF Install, OneStart
  <2>4. ASSUME NEW f \in Flows, Activate(f) PROVE OneStart'
        BY <2>4 DEF Activate, OneStart
  <2>5. ASSUME NEW yaml \in BOOLEAN, Restart(yaml) PROVE OneStart'
        BY <2>5 DEF Restart, OneStart
  <2>6. CASE UNCHANGED <<runtime, starting>>
        BY <2>6 DEF OneStart
  <2> QED BY <2>1, <2>2, <2>3, <2>4, <2>5, <2>6
          DEF FlowNext, flowVars, SetupForms, SetupConfirm, OptionsForm, Leave, Save, Reload,
              RollBack, EditByHand, RemoveEntry
<1> QED BY <1>1, <1>2, PTL DEF FlowSpec

\* Dialogs and editors never switch a working bridge off.
THEOREM NeverDownHolds == FlowSpec => NeverDown
<1>1. OneStart /\ [FlowNext]_flowVars
        => [runtime # NotLoaded /\ runtime.enabled
              => runtime' = NotLoaded \/ runtime'.enabled]_flowVars
  <2> SUFFICES ASSUME OneStart, [FlowNext]_flowVars, runtime # NotLoaded, runtime.enabled
               PROVE  runtime' = NotLoaded \/ runtime'.enabled
      OBVIOUS
  <2>1. CASE Install
        BY <2>1 DEF Install, OneStart
  <2>2. ASSUME NEW f \in Flows, Activate(f) PROVE runtime' = NotLoaded \/ runtime'.enabled
        BY <2>2 DEF Activate, Usable
  <2>3. ASSUME NEW yaml \in BOOLEAN, Restart(yaml)
        PROVE  runtime' = NotLoaded \/ runtime'.enabled
        BY <2>3 DEF Restart
  <2>4. CASE UNCHANGED runtime
        BY <2>4
  <2> QED BY <2>1, <2>2, <2>3, <2>4
          DEF FlowNext, flowVars, SetupForms, SetupConfirm, CreateEntry, Initialize, OptionsForm,
              Leave, Save, Reload, RollBack, EditByHand, RemoveEntry
<1> QED BY <1>1, StartAlone, PTL DEF FlowSpec, NeverDown
---------------------------------------------------------------------------------
LEMMA LoadTyped ==
    ASSUME NEW content \in Raws \cup {NoFile}
    PROVE  Load(content) \in Configs
<1>1. Disabled \in Configs
      BY BoundsAssumption DEF Disabled, Configs
<1>2. RawCapabilities(content) \in SUBSET RoleCapabilities
      BY ResolveSound DEF RawCapabilities
<1> QED BY <1>1, <1>2 DEF Load, Configs, Raws

LEMMA SubmittedTyped ==
    ASSUME NEW raw \in Raws, NEW form \in Forms
    PROVE  /\ Submitted(raw, form) \in Raws
           /\ RawCapabilities(Submitted(raw, form)) = Submitted(raw, form).caps
           /\ Submitted(raw, form).caps = Resolve(form.preset, form.caps)
           /\ Submitted(raw, form).preset = form.preset
<1>1. /\ form.preset \in DOMAIN Presets \cup {"", "advanced", "custom"}
      /\ form.lockdown \in BOOLEAN
      BY FormsAssumption
<1>2. Resolve(form.preset, form.caps) \in SUBSET Capabilities
      BY ResolveSound, FormsAssumption
<1> DEFINE chosen == Resolve(form.preset, form.caps)
<1>3. Resolve(form.preset, chosen) = chosen
      BY ResolveStable
<1> HIDE DEF chosen
<1>4. Submitted(raw, form) = [raw EXCEPT !.preset = form.preset, !.caps = chosen,
                                         !.lockdown = form.lockdown]
      BY DEF Submitted, chosen
<1>5. /\ Submitted(raw, form) \in Raws
      /\ Submitted(raw, form).caps = chosen /\ Submitted(raw, form).preset = form.preset
      BY <1>1, <1>2, <1>4 DEF Raws, chosen
<1> QED BY <1>3, <1>5 DEF RawCapabilities, chosen

LEMMA ContestedTyped ==
    ASSUME NEW fl \in [Flows -> Dialogs], NEW others
    PROVE  /\ Contested(fl, others) \in [Flows -> Dialogs]
           /\ \A f \in Flows :
                 /\ Contested(fl, others)[f].step = fl[f].step
                 /\ Contested(fl, others)[f].previous = fl[f].previous
                 /\ Contested(fl, others)[f].staged = fl[f].staged
                 /\ Contested(fl, others)[f].loaded = fl[f].loaded
<1> SUFFICES ASSUME NEW f \in Flows
             PROVE  /\ Contested(fl, others)[f] \in Dialogs
                    /\ Contested(fl, others)[f].step = fl[f].step
                    /\ Contested(fl, others)[f].previous = fl[f].previous
                    /\ Contested(fl, others)[f].staged = fl[f].staged
                    /\ Contested(fl, others)[f].loaded = fl[f].loaded
    BY DEF Contested
<1>1. [fl[f] EXCEPT !.alone = FALSE] \in Dialogs
      BY DEF Dialogs
<1>2. /\ [fl[f] EXCEPT !.alone = FALSE].step = fl[f].step
      /\ [fl[f] EXCEPT !.alone = FALSE].previous = fl[f].previous
      /\ [fl[f] EXCEPT !.alone = FALSE].staged = fl[f].staged
      /\ [fl[f] EXCEPT !.alone = FALSE].loaded = fl[f].loaded
      BY DEF Dialogs
<1> QED BY <1>1, <1>2 DEF Contested
---------------------------------------------------------------------------------
LEMMA ClosedTyped == Closed \in Dialogs /\ Filled(Closed) /\ Closed.step = "closed"
BY DEF Closed, Dialogs, Filled

\* The type invariant holds for all forms, edits and numbers of dialogs.
THEOREM TypeCorrect == FlowSpec => []FlowTypeOK
<1>1. FlowInit => FlowTypeOK
  <2>1. FlowInit => flow \in [Flows -> Dialogs] /\ \A f \in Flows : Filled(flow[f])
        BY ClosedTyped DEF FlowInit
  <2>2. FlowInit => setup \in [step : {"none", "credentials", "written"},
                              pending : Raws \cup {NoFile}]
                /\ setup.step = "none"
        BY DEF FlowInit
  <2>3. FlowInit => /\ secrets \in 0..MaxSecrets /\ handEdits \in 0..MaxHandEdits
                    /\ restarts \in 0..MaxRestarts
        BY BoundsAssumption DEF FlowInit
  <2>4. FlowInit => entry = FALSE /\ crossed \in BOOLEAN /\ live \in BOOLEAN
        BY DEF FlowInit
  <2>5. FlowInit => /\ file = NoFile /\ accepted = NoFile
                    /\ runtime = NotLoaded /\ starting = Nothing
        BY DEF FlowInit
  <2> QED BY <2>1, <2>2, <2>3, <2>4, <2>5 DEF FlowTypeOK
<1>2. FlowTypeOK /\ [FlowNext]_flowVars => FlowTypeOK'
  <2> SUFFICES ASSUME FlowTypeOK, [FlowNext]_flowVars PROVE FlowTypeOK'
      OBVIOUS
  <2>1. ASSUME NEW form \in Forms, SetupForms(form) PROVE FlowTypeOK'
    <3> DEFINE blank == [preset |-> "", caps |-> {}, lockdown |-> FALSE,
                         secret |-> secrets + 1, users |-> "all", usable |-> TRUE]
               unlocked == [form EXCEPT !.lockdown = FALSE]
    <3>1. secrets + 1 \in 0..MaxSecrets
      <4>1. secrets \in 0..MaxSecrets
            BY DEF FlowTypeOK
      <4>2. secrets < MaxSecrets
            BY <2>1 DEF SetupForms
      <4> QED BY <4>1, <4>2, BoundsAssumption
    <3>2. blank \in Raws
          BY <3>1 DEF Raws
    <3>3. Submitted(blank, unlocked) \in Raws
          BY <3>2, ResolveSound, FormsAssumption DEF Submitted, Raws
    <3> HIDE DEF blank
    <3>4. setup' = [step |-> "credentials", pending |-> Submitted(blank, unlocked)]
          BY <2>1 DEF SetupForms, blank
    <3>5. /\ setup' \in [step : {"none", "credentials", "written"}, pending : Raws \cup {NoFile}]
          /\ setup'.pending # NoFile /\ setup'.step = "credentials"
          BY <3>3, <3>4, MarksAssumption
    <3> HIDE DEF unlocked
    <3>6. /\ secrets' = secrets + 1
          /\ UNCHANGED <<file, entry, runtime, starting, flow, promise, handEdits, restarts>>
          BY <2>1 DEF SetupForms
    <3> QED BY <3>1, <3>5, <3>6 DEF FlowTypeOK, promise
  <2>2. CASE SetupConfirm
        BY <2>2 DEF SetupConfirm, FlowTypeOK
  <2>3. CASE CreateEntry
    <3>1. entry' = TRUE /\ file' \in Raws \cup {NoFile} /\ file' # NoFile
          BY <2>3 DEF CreateEntry, FlowTypeOK
    <3>2. /\ setup' \in [step : {"none", "credentials", "written"}, pending : Raws \cup {NoFile}]
          /\ setup'.step = "none"
          BY <2>3 DEF CreateEntry
    <3>3. starting' \in Configs \cup {Nothing, Due}
          BY <2>3 DEF CreateEntry
    <3> QED BY <2>3, <3>1, <3>2, <3>3 DEF CreateEntry, FlowTypeOK, promise
  <2>4. CASE Initialize
        BY <2>4, LoadTyped DEF Initialize, Imports, Load, Disabled, FlowTypeOK
  <2>5. CASE Install
        BY <2>5 DEF Install, FlowTypeOK, promise
  <2>6. ASSUME NEW f \in Flows, NEW form \in Forms, OptionsForm(f, form) PROVE FlowTypeOK'
    <3> DEFINE updated == Submitted(file, form)
               rotated == [updated EXCEPT !.secret = secrets + 1]
               staged == IF form.rotate THEN rotated ELSE updated
               dialog == [step |-> "review", previous |-> file, staged |-> staged,
                          loaded |-> Nothing, rotate |-> form.rotate,
                          alone |-> \A g \in Flows : ~Saving(g)]
    <3>1. file \in Raws /\ updated \in Raws
          BY <2>6, SubmittedTyped DEF OptionsForm, FlowTypeOK
    <3>2. secrets' \in 0..MaxSecrets /\ (form.rotate => secrets + 1 \in 0..MaxSecrets)
          BY <2>6, BoundsAssumption DEF OptionsForm, FlowTypeOK
    <3>3. flow' = [flow EXCEPT ![f] = dialog]
          BY <2>6 DEF OptionsForm
    <3> HIDE DEF updated
    <3>4. staged \in Raws
          BY <3>1, <3>2 DEF Raws
    <3> HIDE DEF staged
    <3>5. (\A g \in Flows : ~Saving(g)) \in BOOLEAN /\ form.rotate \in BOOLEAN
          BY FormsAssumption
    <3>6. dialog \in Dialogs /\ Filled(dialog)
          BY <3>1, <3>4, <3>5, MarksAssumption DEF Dialogs, Filled
    <3> HIDE DEF dialog
    <3>7. flow' \in [Flows -> Dialogs] /\ \A g \in Flows : Filled(flow'[g])
          BY <3>3, <3>6 DEF FlowTypeOK
    <3>8. UNCHANGED <<file, entry, runtime, starting, setup, promise, handEdits, restarts>>
          BY <2>6 DEF OptionsForm
    <3> QED BY <3>2, <3>7, <3>8 DEF FlowTypeOK, promise
  <2>7. ASSUME NEW f \in Flows, Leave(f) PROVE FlowTypeOK'
        BY <2>7, ClosedTyped DEF Leave, FlowTypeOK, promise
  <2>8. ASSUME NEW f \in Flows, Save(f) PROVE FlowTypeOK'
    <3> DEFINE fl == [flow EXCEPT ![f].step = "written"]
    <3>1. fl \in [Flows -> Dialogs] /\ \A g \in Flows : Filled(fl[g])
          BY <2>8 DEF Save, FlowTypeOK, Dialogs, Filled
    <3>2. flow[f].staged \in Raws
          BY <2>8 DEF Save, FlowTypeOK, Filled, Dialogs
    <3>3. flow' = Contested(fl, Flows \ {f})
          BY <2>8 DEF Save
    <3> HIDE DEF fl
    <3>4. flow' \in [Flows -> Dialogs] /\ \A g \in Flows : Filled(flow'[g])
          BY <3>1, <3>3, ContestedTyped DEF Filled
    <3> QED BY <2>8, <3>2, <3>4, MarksAssumption DEF Save, FlowTypeOK, promise
  <2>9. ASSUME NEW f \in Flows, Reload(f) PROVE FlowTypeOK'
    <3>1. Load(file) \in Configs
          BY LoadTyped DEF FlowTypeOK
    <3> DEFINE dialog == [flow[f] EXCEPT !.step = "loaded", !.loaded = Load(file)]
    <3>3. flow' = [flow EXCEPT ![f] = dialog] /\ flow[f].step = "written"
          BY <2>9 DEF Reload
    <3>4. flow[f] \in Dialogs /\ Filled(flow[f])
          BY DEF FlowTypeOK
    <3>5. Load(file) # Nothing
          BY <3>1, MarksAssumption
    <3>6. dialog \in Dialogs /\ Filled(dialog)
          BY <3>1, <3>3, <3>4, <3>5 DEF Dialogs, Filled
    <3> HIDE DEF dialog
    <3>2. flow' \in [Flows -> Dialogs] /\ \A g \in Flows : Filled(flow'[g])
          BY <3>3, <3>6 DEF FlowTypeOK
    <3> QED BY <2>9, <3>2 DEF Reload, FlowTypeOK, promise
  <2>10. ASSUME NEW f \in Flows, Activate(f) PROVE FlowTypeOK'
    <3>1. flow[f].loaded \in Configs /\ flow[f].staged \in Raws
          BY <2>10 DEF Activate, FlowTypeOK, Filled, Dialogs
    <3> QED BY <2>10, <3>1, ClosedTyped DEF Activate, FlowTypeOK
  <2>11. ASSUME NEW f \in Flows, RollBack(f) PROVE FlowTypeOK'
    <3> DEFINE fl == [flow EXCEPT ![f] = Closed]
    <3>1. fl \in [Flows -> Dialogs] /\ \A g \in Flows : Filled(fl[g])
          BY ClosedTyped DEF FlowTypeOK, Filled
    <3>2. flow[f].previous \in Raws
          BY <2>11 DEF RollBack, FlowTypeOK, Filled, Dialogs
    <3>3. flow' = Contested(fl, Flows \ {f})
          BY <2>11 DEF RollBack
    <3> HIDE DEF fl
    <3>4. flow' \in [Flows -> Dialogs] /\ \A g \in Flows : Filled(flow'[g])
          BY <3>1, <3>3, ContestedTyped DEF Filled
    <3> QED BY <2>11, <3>2, <3>4, MarksAssumption DEF RollBack, Restored, FlowTypeOK
  <2>12. ASSUME NEW edit \in HandEdits, EditByHand(edit) PROVE FlowTypeOK'
    <3>1. Edited(file, edit) \in Raws
          BY <2>12, EditsAssumption DEF EditByHand, FlowTypeOK
    <3>2. flow' \in [Flows -> Dialogs] /\ \A g \in Flows : Filled(flow'[g])
          BY <2>12, ContestedTyped DEF EditByHand, FlowTypeOK, Filled
    <3>3. handEdits' \in 0..MaxHandEdits
          BY <2>12, BoundsAssumption DEF EditByHand, FlowTypeOK
    <3>4. crossed' \in BOOLEAN /\ live' \in BOOLEAN
          BY <2>12 DEF EditByHand
    <3> QED BY <2>12, <3>1, <3>2, <3>3, <3>4, MarksAssumption DEF EditByHand, FlowTypeOK
  <2>13. CASE RemoveEntry
        BY <2>13 DEF RemoveEntry, FlowTypeOK, promise
  <2>14. ASSUME NEW yaml \in BOOLEAN, Restart(yaml) PROVE FlowTypeOK'
    <3>1. restarts' \in 0..MaxRestarts
          BY <2>14, BoundsAssumption DEF Restart, FlowTypeOK
    <3>2. crossed' \in BOOLEAN /\ live' \in BOOLEAN
          BY <2>14 DEF Restart
    <3>3. setup' \in [step : {"none", "credentials", "written"}, pending : Raws \cup {NoFile}]
          /\ setup'.step = "none"
          BY <2>14 DEF Restart
    <3>4. flow' \in [Flows -> Dialogs] /\ \A g \in Flows : Filled(flow'[g])
          BY <2>14, ClosedTyped DEF Restart
    <3> QED BY <2>14, <3>1, <3>2, <3>3, <3>4 DEF Restart, FlowTypeOK
  <2>15. CASE UNCHANGED flowVars
        BY <2>15 DEF flowVars, FlowTypeOK
  <2> QED BY <2>1, <2>2, <2>3, <2>4, <2>5, <2>6, <2>7, <2>8, <2>9, <2>10, <2>11, <2>12,
             <2>13, <2>14, <2>15 DEF FlowNext
<1> QED BY <1>1, <1>2, PTL DEF FlowSpec
---------------------------------------------------------------------------------
\* What a configuration permits fits together.
Coherent(config) ==
    /\ (\E c \in Sources : Permits(config, c, TRUE)) <=> Permits(config, Apply, TRUE)
    /\ config.enabled => Permits(config, Status, FALSE)

\* What runs, what is about to run and what is reviewed all come from Resolve.
Resolved ==
    /\ runtime # NotLoaded => Coherent(runtime)
    /\ starting \notin {Nothing, Due} => Coherent(starting)
    /\ \A f \in Flows :
          /\ flow[f].step = "loaded" => Coherent(flow[f].loaded)
          /\ flow[f].step = "review" => RawCapabilities(flow[f].staged) = flow[f].staged.caps

LEMMA LoadCoherent ==
    ASSUME NEW content
    PROVE  Coherent(Load(content))
<1>1. CASE Load(content) = Disabled
  <2>1. Disabled.caps = {} /\ Disabled.enabled = FALSE
        BY DEF Disabled
  <2> QED BY <1>1, <2>1 DEF Coherent, Permits
<1>2. CASE Load(content) # Disabled
  <2>1. Load(content).caps = Resolve(content.preset, content.caps)
        BY <1>2 DEF Load, RawCapabilities
  <2> QED BY <2>1, ResolveSound DEF Coherent, Permits
<1> QED BY <1>1, <1>2

\* In the running bridge what can be prepared can be applied and nothing else,
\* and a review shows what was chosen, for all presets and capabilities.
THEOREM PermissionsSoundHolds == FlowSpec => []PermissionsSound
<1>1. FlowInit => Resolved
      BY ClosedTyped DEF FlowInit, Resolved
<1>2. FlowTypeOK /\ Resolved /\ [FlowNext]_flowVars => Resolved'
  <2> SUFFICES ASSUME FlowTypeOK, Resolved, [FlowNext]_flowVars PROVE Resolved'
      OBVIOUS
  <2> DEFINE Good(dialog) ==
               /\ dialog.step = "loaded" => Coherent(dialog.loaded)
               /\ dialog.step = "review" =>
                     RawCapabilities(dialog.staged) = dialog.staged.caps
  <2>0. /\ flow \in [Flows -> Dialogs] /\ \A f \in Flows : Good(flow[f])
        /\ Good(Closed)
        BY ClosedTyped DEF FlowTypeOK, Resolved
  <2>1. ASSUME UNCHANGED <<runtime, starting>>,
               \A f \in Flows : Good(flow'[f])
        PROVE  Resolved'
        BY <2>1 DEF Resolved
  <2>2. CASE CreateEntry
        BY <2>2 DEF CreateEntry, Resolved
  <2>3. CASE Initialize
        BY <2>3, LoadCoherent DEF Initialize, Resolved
  <2>4. CASE Install
        BY <2>4 DEF Install, Resolved
  <2>5. ASSUME NEW f \in Flows, NEW form \in Forms, OptionsForm(f, form) PROVE Resolved'
    <3> DEFINE updated == Submitted(file, form)
               rotated == [updated EXCEPT !.secret = secrets + 1]
               staged == IF form.rotate THEN rotated ELSE updated
    <3>1. updated \in Raws /\ RawCapabilities(updated) = updated.caps
          BY <2>5, SubmittedTyped DEF OptionsForm, FlowTypeOK
    <3>2. flow'[f].step = "review" /\ flow'[f].staged = staged
          BY <2>0, <2>5 DEF OptionsForm
    <3>3. \A g \in Flows \ {f} : flow'[g] = flow[g]
          BY <2>0, <2>5 DEF OptionsForm
    <3> HIDE DEF updated
    <3>4. rotated.preset = updated.preset /\ rotated.caps = updated.caps
          BY <3>1 DEF Raws
    <3>5. RawCapabilities(staged) = staged.caps
          BY <3>1, <3>4 DEF RawCapabilities
    <3> HIDE DEF staged
    <3>6. \A g \in Flows : Good(flow'[g])
          BY <2>0, <3>2, <3>3, <3>5
    <3> QED BY <2>1, <2>5, <3>6 DEF OptionsForm
  <2>6. ASSUME NEW f \in Flows, Leave(f) PROVE Resolved'
    <3>1. \A g \in Flows : Good(flow'[g])
          BY <2>0, <2>6 DEF Leave
    <3> QED BY <2>1, <2>6, <3>1 DEF Leave
  <2>7. ASSUME NEW f \in Flows, Save(f) PROVE Resolved'
    <3> DEFINE fl == [flow EXCEPT ![f].step = "written"]
    <3>1. fl \in [Flows -> Dialogs] /\ \A g \in Flows : Good(fl[g])
          BY <2>0 DEF Dialogs
    <3>2. flow' = Contested(fl, Flows \ {f})
          BY <2>7 DEF Save
    <3> HIDE DEF fl
    <3>3. \A g \in Flows : Good(flow'[g])
          BY <3>1, <3>2, ContestedTyped
    <3> QED BY <2>1, <2>7, <3>3 DEF Save
  <2>8. ASSUME NEW f \in Flows, Reload(f) PROVE Resolved'
    <3>1. flow'[f].step = "loaded" /\ flow'[f].loaded = Load(file)
          BY <2>0, <2>8 DEF Reload, Dialogs
    <3>2. \A g \in Flows \ {f} : flow'[g] = flow[g]
          BY <2>0, <2>8 DEF Reload
    <3>3. \A g \in Flows : Good(flow'[g])
          BY <2>0, <3>1, <3>2, LoadCoherent
    <3> QED BY <2>1, <2>8, <3>3 DEF Reload
  <2>9. ASSUME NEW f \in Flows, Activate(f) PROVE Resolved'
    <3>1. \A g \in Flows : Good(flow'[g])
          BY <2>0, <2>9 DEF Activate
    <3>2. Coherent(flow[f].loaded)
          BY <2>0, <2>9 DEF Activate
    <3> QED BY <2>9, <3>1, <3>2 DEF Activate, Resolved
  <2>10. ASSUME NEW f \in Flows, RollBack(f) PROVE Resolved'
    <3> DEFINE fl == [flow EXCEPT ![f] = Closed]
    <3>1. fl \in [Flows -> Dialogs] /\ \A g \in Flows : Good(fl[g])
          BY <2>0, ClosedTyped
    <3>2. flow' = Contested(fl, Flows \ {f})
          BY <2>10 DEF RollBack
    <3> HIDE DEF fl
    <3>3. \A g \in Flows : Good(flow'[g])
          BY <3>1, <3>2, ContestedTyped
    <3> QED BY <2>1, <2>10, <3>3 DEF RollBack
  <2>11. ASSUME NEW edit \in HandEdits, EditByHand(edit) PROVE Resolved'
    <3>1. \A g \in Flows : Good(flow'[g])
          BY <2>0, <2>11, ContestedTyped DEF EditByHand
    <3> QED BY <2>1, <2>11, <3>1 DEF EditByHand
  <2>12. ASSUME NEW yaml \in BOOLEAN, Restart(yaml) PROVE Resolved'
    <3>1. \A g \in Flows : Good(flow'[g])
          BY <2>0, <2>12 DEF Restart
    <3> QED BY <2>12, <3>1 DEF Restart, Resolved
  <2>13. CASE UNCHANGED <<runtime, starting, flow>>
        BY <2>13 DEF Resolved
  <2> QED BY <2>2, <2>3, <2>4, <2>5, <2>6, <2>7, <2>8, <2>9, <2>10, <2>11, <2>12, <2>13
          DEF FlowNext, flowVars, SetupForms, SetupConfirm, RemoveEntry
<1>3. Resolved => PermissionsSound
      BY DEF Resolved, Coherent, PermissionsSound
<1> QED BY <1>1, <1>2, <1>3, TypeCorrect, PTL DEF FlowSpec
---------------------------------------------------------------------------------
\* What a dialog holds from its form to its end: a candidate that differs from the
\* file it was made from in what the form is about, and is as usable as that.
Formed(dialog, known) == dialog.step # "closed" =>
    /\ RawResolvable(dialog.previous) /\ RawResolvable(dialog.staged)
    /\ dialog.staged.usable = dialog.previous.usable
    /\ dialog.staged.users = dialog.previous.users
    /\ dialog.staged.secret = dialog.previous.secret <=> ~dialog.rotate
    /\ dialog.staged.secret <= known /\ dialog.previous.secret <= known

\* No secret is in use before it was generated.
AllFormed == /\ \A f \in Flows : Formed(flow[f], secrets)
             /\ file # NoFile => file.secret <= secrets
             /\ setup.step # "none" => setup.pending.secret <= secrets

\* Dialog g goes on with what it holds, alone or not.
Goes(g) == /\ flow'[g].step = flow[g].step /\ flow'[g].previous = flow[g].previous
           /\ flow'[g].staged = flow[g].staged /\ flow'[g].loaded = flow[g].loaded
           /\ flow'[g].rotate = flow[g].rotate

LEMMA ContestedGoes ==
    ASSUME NEW fl \in [Flows -> Dialogs], NEW others, NEW f \in Flows
    PROVE  /\ Contested(fl, others)[f].rotate = fl[f].rotate
           /\ f \in others => ~Contested(fl, others)[f].alone
           /\ f \notin others => Contested(fl, others)[f] = fl[f]
<1>1. /\ [fl[f] EXCEPT !.alone = FALSE].rotate = fl[f].rotate
      /\ ~[fl[f] EXCEPT !.alone = FALSE].alone
      BY DEF Dialogs
<1> QED BY <1>1 DEF Contested

\* What each step does to the dialogs, field by field.
LEMMA SaveGoes ==
    ASSUME FlowTypeOK, NEW f \in Flows, Save(f)
    PROVE  /\ flow'[f].step = "written" /\ flow'[f].alone = flow[f].alone
           /\ flow'[f].previous = flow[f].previous /\ flow'[f].staged = flow[f].staged
           /\ flow'[f].rotate = flow[f].rotate
           /\ \A g \in Flows \ {f} : Goes(g) /\ ~flow'[g].alone
<1> DEFINE fl == [flow EXCEPT ![f].step = "written"]
<1>1. /\ fl \in [Flows -> Dialogs]
      /\ fl[f].step = "written" /\ fl[f].alone = flow[f].alone
      /\ fl[f].previous = flow[f].previous /\ fl[f].staged = flow[f].staged
      /\ fl[f].rotate = flow[f].rotate
      /\ \A g \in Flows \ {f} : fl[g] = flow[g]
      BY DEF FlowTypeOK, Dialogs
<1>2. flow' = Contested(fl, Flows \ {f})
      BY DEF Save
<1> HIDE DEF fl
<1>3. flow'[f] = fl[f]
      BY <1>1, <1>2, ContestedGoes
<1>4. \A g \in Flows \ {f} : Goes(g) /\ ~flow'[g].alone
      BY <1>1, <1>2, ContestedTyped, ContestedGoes DEF Goes
<1> QED BY <1>1, <1>3, <1>4

LEMMA RollBackGoes ==
    ASSUME FlowTypeOK, NEW f \in Flows, RollBack(f)
    PROVE  /\ flow'[f].step = "closed"
           /\ \A g \in Flows \ {f} : Goes(g) /\ ~flow'[g].alone
<1> DEFINE fl == [flow EXCEPT ![f] = Closed]
<1>1. /\ fl \in [Flows -> Dialogs] /\ fl[f].step = "closed"
      /\ \A g \in Flows \ {f} : fl[g] = flow[g]
      BY ClosedTyped DEF FlowTypeOK
<1>2. flow' = Contested(fl, Flows \ {f})
      BY DEF RollBack
<1> HIDE DEF fl
<1> QED BY <1>1, <1>2, ContestedTyped, ContestedGoes DEF Goes

LEMMA EditGoes ==
    ASSUME FlowTypeOK, NEW edit \in HandEdits, EditByHand(edit)
    PROVE  \A g \in Flows : Goes(g) /\ ~flow'[g].alone
BY ContestedTyped, ContestedGoes DEF EditByHand, FlowTypeOK, Goes

LEMMA ReloadGoes ==
    ASSUME FlowTypeOK, NEW f \in Flows, Reload(f)
    PROVE  /\ flow'[f].step = "loaded" /\ flow'[f].loaded = Load(file)
           /\ flow'[f].alone = flow[f].alone /\ flow'[f].previous = flow[f].previous
           /\ flow'[f].staged = flow[f].staged /\ flow'[f].rotate = flow[f].rotate
           /\ \A g \in Flows \ {f} : flow'[g] = flow[g]
<1> DEFINE dialog == [flow[f] EXCEPT !.step = "loaded", !.loaded = Load(file)]
<1>1. flow' = [flow EXCEPT ![f] = dialog] /\ flow \in [Flows -> Dialogs]
      BY DEF Reload, FlowTypeOK
<1>2. /\ dialog.step = "loaded" /\ dialog.loaded = Load(file)
      /\ dialog.alone = flow[f].alone /\ dialog.previous = flow[f].previous
      /\ dialog.staged = flow[f].staged /\ dialog.rotate = flow[f].rotate
      BY <1>1 DEF Dialogs
<1> HIDE DEF dialog
<1> QED BY <1>1, <1>2

LEMMA FormGoes ==
    ASSUME FlowTypeOK, AllFormed, NEW f \in Flows, NEW form \in Forms, OptionsForm(f, form)
    PROVE  /\ flow'[f].step = "review" /\ flow'[f].previous = file
           /\ flow'[f].alone => \A g \in Flows : ~Saving(g)
           /\ Formed(flow'[f], secrets') /\ secrets' >= secrets /\ secrets' \in Nat
           /\ \A g \in Flows \ {f} : flow'[g] = flow[g]
<1> DEFINE updated == Submitted(file, form)
           rotated == [updated EXCEPT !.secret = secrets + 1]
           staged == IF form.rotate THEN rotated ELSE updated
           dialog == [step |-> "review", previous |-> file, staged |-> staged,
                      loaded |-> Nothing, rotate |-> form.rotate,
                      alone |-> \A g \in Flows : ~Saving(g)]
<1>1. file \in Raws /\ RawResolvable(file) /\ file.secret <= secrets /\ secrets \in Nat
      BY BoundsAssumption DEF OptionsForm, FlowTypeOK, AllFormed
<1>2. secrets' = IF form.rotate THEN secrets + 1 ELSE secrets
      BY DEF OptionsForm
<1>3. flow' = [flow EXCEPT ![f] = dialog] /\ flow \in [Flows -> Dialogs]
      BY DEF OptionsForm, FlowTypeOK
<1>4. /\ updated \in Raws /\ updated.preset = form.preset
      /\ updated.caps = Resolve(form.preset, form.caps)
      BY <1>1, SubmittedTyped
<1>5. updated.usable = file.usable /\ updated.users = file.users /\ updated.secret = file.secret
      BY <1>1 DEF Submitted, Raws
<1>6. Resolvable(updated.preset, updated.caps)
  <2>1. Resolvable(form.preset, form.caps)
        BY DEF OptionsForm
  <2> QED BY <1>4, <2>1, ResolveSound DEF Resolvable
<1> HIDE DEF updated
<1>7. /\ rotated.preset = updated.preset /\ rotated.caps = updated.caps
      /\ rotated.usable = updated.usable /\ rotated.users = updated.users
      /\ rotated.secret = secrets + 1
      BY <1>4 DEF Raws
<1> HIDE DEF rotated
<1>8. form.rotate \in BOOLEAN
      BY FormsAssumption
<1>9. file.secret \in Nat
  <2>1. file.secret \in 0..MaxSecrets
        BY <1>1 DEF Raws
  <2> QED BY <2>1, BoundsAssumption
<1>10. /\ RawResolvable(staged)
       /\ staged.usable = file.usable /\ staged.users = file.users
       /\ staged.secret = file.secret <=> ~form.rotate
       /\ staged.secret <= secrets' /\ file.secret <= secrets'
       BY <1>1, <1>2, <1>5, <1>6, <1>7, <1>8, <1>9 DEF RawResolvable
<1> HIDE DEF staged
<1>11. /\ dialog.step = "review" /\ dialog.previous = file
       /\ dialog.alone => \A g \in Flows : ~Saving(g)
       OBVIOUS
<1>12. Formed(dialog, secrets')
       BY <1>1, <1>10 DEF Formed
<1> HIDE DEF dialog
<1> QED BY <1>1, <1>2, <1>3, <1>11, <1>12

\* A dialog that goes on, in a state that knows at least as many secrets.
LEMMA FormedStays ==
    ASSUME NEW known \in Nat, NEW later \in Nat, later >= known,
           NEW dialog \in Dialogs, NEW next, Formed(dialog, known),
           \/ next.step = "closed"
           \/ /\ dialog.step # "closed"
              /\ next.previous = dialog.previous
              /\ next.staged = dialog.staged
              /\ next.rotate = dialog.rotate,
           dialog.step # "closed" => dialog.previous \in Raws /\ dialog.staged \in Raws
    PROVE  Formed(next, later)
<1>1. ASSUME NEW raw \in Raws
      PROVE  raw.secret \in Nat
  <2>1. raw.secret \in 0..MaxSecrets
        BY DEF Raws
  <2> QED BY <2>1, BoundsAssumption
<1> QED BY <1>1 DEF Formed

LEMMA AllFormedHolds == FlowSpec => []AllFormed
<1>1. FlowInit => AllFormed
      BY ClosedTyped DEF FlowInit, AllFormed, Formed
<1>2. FlowTypeOK /\ FlowTypeOK' /\ AllFormed /\ [FlowNext]_flowVars => AllFormed'
  <2> SUFFICES ASSUME FlowTypeOK, FlowTypeOK', AllFormed, [FlowNext]_flowVars PROVE AllFormed'
      OBVIOUS
  <2>1. /\ secrets \in Nat /\ secrets' \in Nat
        /\ flow \in [Flows -> Dialogs]
        /\ \A f \in Flows : flow[f].step # "closed" =>
              flow[f].previous \in Raws /\ flow[f].staged \in Raws
        BY BoundsAssumption DEF FlowTypeOK, Filled, Dialogs
  <2>2. ASSUME NEW form \in Forms, SetupForms(form) PROVE AllFormed'
    <3> DEFINE blank == [preset |-> "", caps |-> {}, lockdown |-> FALSE,
                         secret |-> secrets + 1, users |-> "all", usable |-> TRUE]
               unlocked == [form EXCEPT !.lockdown = FALSE]
    <3>1. setup'.pending = Submitted(blank, unlocked) /\ secrets' = secrets + 1
          BY <2>2 DEF SetupForms
    <3>2. Submitted(blank, unlocked).secret = secrets + 1
          BY DEF Submitted
    <3>3. UNCHANGED <<file, flow>>
          BY <2>2 DEF SetupForms
    <3> HIDE DEF blank, unlocked
    <3>4. \A f \in Flows : Formed(flow'[f], secrets')
          BY <2>1, <3>1, <3>3, FormedStays DEF AllFormed, Formed
    <3>5. file # NoFile => file.secret <= secrets + 1
      <4>1. ASSUME file # NoFile PROVE file.secret \in Nat
        <5>1. file.secret \in 0..MaxSecrets
              BY <4>1 DEF FlowTypeOK, Raws
        <5> QED BY <5>1, BoundsAssumption
      <4> QED BY <2>1, <4>1 DEF AllFormed
    <3> QED BY <2>1, <3>1, <3>2, <3>3, <3>4, <3>5 DEF AllFormed
  <2>3. CASE SetupConfirm
    <3>1. /\ file' = setup.pending /\ setup.pending.secret <= secrets
          /\ setup'.pending = setup.pending /\ UNCHANGED <<secrets, flow>>
          BY <2>3 DEF SetupConfirm, AllFormed, FlowTypeOK
    <3> QED BY <3>1 DEF AllFormed
  <2>4. CASE CreateEntry
    <3>1. setup'.step = "none" /\ UNCHANGED <<file, flow, secrets>>
          BY <2>4 DEF CreateEntry
    <3> QED BY <3>1 DEF AllFormed
  <2>5. ASSUME NEW f \in Flows, NEW form \in Forms, OptionsForm(f, form)
        PROVE  AllFormed'
    <3>1. /\ Formed(flow'[f], secrets') /\ secrets' >= secrets
          /\ \A g \in Flows \ {f} : flow'[g] = flow[g]
          BY <2>5, FormGoes
    <3>2. \A g \in Flows \ {f} : Formed(flow'[g], secrets')
          BY <2>1, <3>1, FormedStays DEF AllFormed, Formed
    <3>3. file # NoFile /\ file.secret <= secrets /\ UNCHANGED <<file, setup>>
          BY <2>5 DEF OptionsForm, AllFormed
    <3>4. file.secret \in Nat
      <4>1. file.secret \in 0..MaxSecrets
            BY <3>3 DEF FlowTypeOK, Raws
      <4> QED BY <4>1, BoundsAssumption
    <3>5. setup.step # "none" => setup.pending.secret \in Nat
      <4>1. ASSUME setup.step # "none" PROVE setup.pending.secret \in Nat
        <5>1. setup.pending \in Raws
              BY <4>1 DEF FlowTypeOK
        <5>2. setup.pending.secret \in 0..MaxSecrets
              BY <5>1 DEF Raws
        <5> QED BY <5>2, BoundsAssumption
      <4> QED BY <4>1
    <3>6. setup.step # "none" => setup.pending.secret <= secrets'
          BY <2>1, <3>1, <3>5 DEF AllFormed
    <3> QED BY <2>1, <3>1, <3>2, <3>3, <3>4, <3>6 DEF AllFormed
  <2>6. ASSUME NEW f \in Flows, Leave(f) PROVE AllFormed'
    <3>1. /\ flow'[f].step = "closed" /\ \A g \in Flows \ {f} : flow'[g] = flow[g]
          /\ UNCHANGED <<file, setup, secrets>>
          BY <2>1, <2>6, ClosedTyped DEF Leave
    <3>2. \A g \in Flows : Formed(flow'[g], secrets')
          BY <3>1 DEF AllFormed, Formed
    <3> QED BY <3>1, <3>2 DEF AllFormed
  <2>7. ASSUME NEW f \in Flows, Save(f) PROVE AllFormed'
    <3>1. /\ file' = flow[f].staged /\ flow[f].step = "review" /\ UNCHANGED <<setup, secrets>>
          BY <2>7 DEF Save
    <3>2. flow[f].staged.secret <= secrets
          BY <3>1 DEF AllFormed, Formed
    <3>3. \A g \in Flows : Formed(flow'[g], secrets')
          BY <2>1, <2>7, <3>1, SaveGoes, FormedStays DEF AllFormed, Goes, Formed
    <3> QED BY <3>1, <3>2, <3>3 DEF AllFormed
  <2>8. ASSUME NEW f \in Flows, Reload(f) PROVE AllFormed'
    <3>1. flow[f].step # "closed" /\ UNCHANGED <<file, setup, secrets>>
          BY <2>8 DEF Reload
    <3>2. \A g \in Flows : Formed(flow'[g], secrets')
          BY <2>1, <2>8, <3>1, ReloadGoes, FormedStays DEF AllFormed, Formed
    <3> QED BY <3>1, <3>2 DEF AllFormed
  <2>9. ASSUME NEW f \in Flows, Activate(f) PROVE AllFormed'
    <3>1. /\ flow'[f].step = "closed" /\ \A g \in Flows \ {f} : flow'[g] = flow[g]
          /\ UNCHANGED <<file, setup, secrets>>
          BY <2>1, <2>9, ClosedTyped DEF Activate
    <3>2. \A g \in Flows : Formed(flow'[g], secrets')
          BY <3>1 DEF AllFormed, Formed
    <3> QED BY <3>1, <3>2 DEF AllFormed
  <2>10. ASSUME NEW f \in Flows, RollBack(f) PROVE AllFormed'
    <3>1. /\ file' = flow[f].previous /\ flow[f].step = "loaded" /\ UNCHANGED <<setup, secrets>>
          BY <2>10 DEF RollBack, Restored
    <3>2. flow[f].previous.secret <= secrets
          BY <3>1 DEF AllFormed, Formed
    <3>3. \A g \in Flows : Formed(flow'[g], secrets')
          BY <2>1, <2>10, <3>1, RollBackGoes, FormedStays DEF AllFormed, Goes, Formed
    <3> QED BY <3>1, <3>2, <3>3 DEF AllFormed
  <2>11. ASSUME NEW edit \in HandEdits, EditByHand(edit) PROVE AllFormed'
    <3>1. /\ file' = Edited(file, edit) /\ file \in Raws /\ file.secret <= secrets
          /\ UNCHANGED <<setup, secrets>>
          BY <2>11 DEF EditByHand, FlowTypeOK, AllFormed
    <3>2. file'.secret = file.secret
          BY <3>1, EditsAssumption DEF Edited, Raws
    <3>3. \A g \in Flows : Formed(flow'[g], secrets')
          BY <2>1, <2>11, <3>1, EditGoes, FormedStays DEF AllFormed, Goes, Formed
    <3> QED BY <3>1, <3>2, <3>3 DEF AllFormed
  <2>12. ASSUME NEW yaml \in BOOLEAN, Restart(yaml) PROVE AllFormed'
    <3>1. /\ \A f \in Flows : flow'[f].step = "closed"
          /\ setup'.step = "none" /\ UNCHANGED <<file, secrets>>
          BY <2>12, ClosedTyped DEF Restart
    <3> QED BY <3>1 DEF AllFormed, Formed
  <2>13. CASE UNCHANGED <<file, setup, flow, secrets>>
         BY <2>13 DEF AllFormed
  <2> QED BY <2>2, <2>3, <2>4, <2>5, <2>6, <2>7, <2>8, <2>9, <2>10, <2>11, <2>12, <2>13
          DEF FlowNext, flowVars, Initialize, Install, RemoveEntry
<1> QED BY <1>1, <1>2, TypeCorrect, PTL DEF FlowSpec
---------------------------------------------------------------------------------
\* Dialogs are open only with an entry, and an entry is added only without one.
OneEntry == /\ setup.step # "none" => ~entry /\ starting = Nothing
            /\ \A f \in Flows : flow[f].step # "closed" => entry

LEMMA OneEntryHolds == FlowSpec => []OneEntry
<1>1. FlowInit => OneEntry
      BY ClosedTyped DEF FlowInit, OneEntry
<1>2. FlowTypeOK /\ OneEntry /\ [FlowNext]_flowVars => OneEntry'
  <2> SUFFICES ASSUME FlowTypeOK, OneEntry, [FlowNext]_flowVars PROVE OneEntry'
      OBVIOUS
  <2>1. flow \in [Flows -> Dialogs]
        BY DEF FlowTypeOK
  <2>2. ASSUME NEW form \in Forms, SetupForms(form) PROVE OneEntry'
        BY <2>2 DEF SetupForms, OneEntry
  <2>3. CASE SetupConfirm
    <3>1. setup'.step # "none" => setup.step # "none"
          BY <2>3 DEF SetupConfirm
    <3> QED BY <2>3, <3>1 DEF SetupConfirm, OneEntry
  <2>4. CASE CreateEntry
        BY <2>4 DEF CreateEntry, OneEntry
  <2>5. CASE Initialize
    <3>1. starting # Nothing
          BY <2>5, MarksAssumption DEF Initialize
    <3> QED BY <2>5, <3>1 DEF Initialize, OneEntry
  <2>6. CASE Install
        BY <2>6 DEF Install, OneEntry
  <2>7. ASSUME NEW f \in Flows, NEW form \in Forms, OptionsForm(f, form) PROVE OneEntry'
    <3>1. entry /\ \A g \in Flows \ {f} : flow'[g] = flow[g]
          BY <2>1, <2>7 DEF OptionsForm
    <3> QED BY <2>7, <3>1 DEF OptionsForm, OneEntry
  <2>8. ASSUME NEW f \in Flows, Leave(f) \/ Activate(f) PROVE OneEntry'
    <3>1. flow'[f].step = "closed" /\ \A g \in Flows \ {f} : flow'[g] = flow[g]
          BY <2>1, <2>8, ClosedTyped DEF Leave, Activate
    <3> QED BY <2>8, <3>1 DEF Leave, Activate, OneEntry
  <2>9. ASSUME NEW f \in Flows, Save(f) PROVE OneEntry'
    <3>1. flow[f].step # "closed" /\ UNCHANGED <<entry, setup, starting>>
          BY <2>9 DEF Save
    <3> QED BY <2>9, <3>1, SaveGoes DEF Goes, OneEntry
  <2>10. ASSUME NEW f \in Flows, Reload(f) PROVE OneEntry'
    <3>1. flow[f].step # "closed" /\ UNCHANGED <<entry, setup, starting>>
          BY <2>10 DEF Reload
    <3> QED BY <2>10, <3>1, ReloadGoes DEF OneEntry
  <2>11. ASSUME NEW f \in Flows, RollBack(f) PROVE OneEntry'
    <3>1. UNCHANGED <<entry, setup, starting>>
          BY <2>11 DEF RollBack
    <3> QED BY <2>11, <3>1, RollBackGoes DEF Goes, OneEntry
  <2>12. ASSUME NEW edit \in HandEdits, EditByHand(edit) PROVE OneEntry'
    <3>1. UNCHANGED <<entry, setup, starting>>
          BY <2>12 DEF EditByHand
    <3> QED BY <2>12, <3>1, EditGoes DEF Goes, OneEntry
  <2>13. CASE RemoveEntry
         BY <2>13 DEF RemoveEntry, OneEntry
  <2>14. ASSUME NEW yaml \in BOOLEAN, Restart(yaml) PROVE OneEntry'
         BY <2>14, ClosedTyped DEF Restart, OneEntry
  <2>15. CASE UNCHANGED flowVars
         BY <2>15 DEF flowVars, OneEntry
  <2> QED BY <2>2, <2>3, <2>4, <2>5, <2>6, <2>7, <2>8, <2>9, <2>10, <2>11, <2>12, <2>13,
             <2>14, <2>15 DEF FlowNext
<1> QED BY <1>1, <1>2, TypeCorrect, PTL DEF FlowSpec
---------------------------------------------------------------------------------
\* Who is alone with the file finds there what he read, and then what he wrote.
AloneWithFile == \A f \in Flows : flow[f].step # "closed" /\ flow[f].alone =>
    /\ \A g \in Flows \ {f} : ~Saving(g)
    /\ file = IF Saving(f) THEN flow[f].staged ELSE flow[f].previous
    /\ flow[f].step = "loaded" => flow[f].loaded = Load(flow[f].staged)

\* The file is what was accepted last, or a save is under way that can put it back.
KeepsAccepted == ~crossed =>
    /\ (\A f \in Flows : ~Saving(f)) => file = accepted
    /\ \A f \in Flows : flow[f].step # "closed" /\ flow[f].alone =>
          flow[f].previous = accepted

\* What the bridge enforces, or is about to, is what was accepted or what a save
\* that is under way has written.
Covered(config) == \/ config = Load(accepted)
                   \/ \E f \in Flows : /\ Saving(f)
                                       /\ flow[f].alone => config = Load(flow[f].staged)

LiveIsCovered == ~crossed /\ live =>
    /\ starting = Nothing /\ runtime # NotLoaded => Covered(runtime)
    /\ starting \notin {Nothing, Due} => Covered(starting)

Sound == AloneWithFile /\ KeepsAccepted /\ LiveIsCovered

LEMMA AloneStep ==
    ASSUME FlowTypeOK, OneEntry, AloneWithFile, [FlowNext]_flowVars
    PROVE  AloneWithFile'
<1>1. flow \in [Flows -> Dialogs]
      BY DEF FlowTypeOK
<1>2. ASSUME NEW f \in Flows, NEW form \in Forms, OptionsForm(f, form)
      PROVE  AloneWithFile'
  <2>1. /\ flow'[f].step = "review" /\ flow'[f].previous = file
        /\ flow'[f].alone => \A g \in Flows : ~Saving(g)
        /\ \A g \in Flows \ {f} : flow'[g] = flow[g]
        /\ file' = file /\ flow[f].step = "closed"
        BY <1>1, <1>2 DEF OptionsForm
  <2> QED BY <2>1 DEF AloneWithFile, Saving
<1>3. ASSUME NEW f \in Flows, Leave(f) \/ Activate(f)
      PROVE  AloneWithFile'
  <2>1. /\ flow'[f].step = "closed" /\ \A g \in Flows \ {f} : flow'[g] = flow[g]
        /\ file' = file
        BY <1>1, <1>3, ClosedTyped DEF Leave, Activate
  <2> QED BY <2>1 DEF AloneWithFile, Saving
<1>4. ASSUME NEW f \in Flows, Save(f)
      PROVE  AloneWithFile'
  <2>1. /\ flow'[f].step = "written" /\ flow'[f].alone = flow[f].alone
        /\ flow'[f].staged = flow[f].staged
        /\ \A g \in Flows \ {f} : flow'[g].step = flow[g].step /\ ~flow'[g].alone
        BY <1>4, SaveGoes DEF Goes
  <2>2. file' = flow[f].staged /\ flow[f].step = "review"
        BY <1>4 DEF Save
  <2> QED BY <2>1, <2>2 DEF AloneWithFile, Saving
<1>5. ASSUME NEW f \in Flows, Reload(f)
      PROVE  AloneWithFile'
  <2>1. file' = file /\ flow[f].step = "written"
        BY <1>5 DEF Reload
  <2> QED BY <1>5, <2>1, ReloadGoes DEF AloneWithFile, Saving
<1>6. ASSUME NEW f \in Flows, RollBack(f)
      PROVE  AloneWithFile'
      BY <1>6, RollBackGoes DEF AloneWithFile
<1>7. ASSUME NEW edit \in HandEdits, EditByHand(edit)
      PROVE  AloneWithFile'
      BY <1>7, EditGoes DEF AloneWithFile
<1>8. ASSUME NEW yaml \in BOOLEAN, Restart(yaml)
      PROVE  AloneWithFile'
      BY <1>8, ClosedTyped DEF Restart, AloneWithFile
<1>9. CASE SetupConfirm
      BY <1>9 DEF SetupConfirm, OneEntry, AloneWithFile
<1>10. CASE UNCHANGED <<file, flow>>
       BY <1>10 DEF AloneWithFile, Saving
<1> QED BY <1>2, <1>3, <1>4, <1>5, <1>6, <1>7, <1>8, <1>9, <1>10
        DEF FlowNext, flowVars, SetupForms, CreateEntry, Initialize, Install, RemoveEntry

LEMMA AcceptedStep ==
    ASSUME FlowTypeOK, OneEntry, AllFormed, AloneWithFile, KeepsAccepted, [FlowNext]_flowVars
    PROVE  KeepsAccepted'
<1>1. flow \in [Flows -> Dialogs]
      BY DEF FlowTypeOK
<1>2. ASSUME NEW f \in Flows, NEW form \in Forms, OptionsForm(f, form)
      PROVE  KeepsAccepted'
  <2>1. UNCHANGED <<file, accepted, crossed>> /\ flow[f].step = "closed"
        BY <1>2 DEF OptionsForm, promise
  <2> QED BY <1>2, <2>1, FormGoes DEF KeepsAccepted, Saving
<1>3. ASSUME NEW f \in Flows, Leave(f)
      PROVE  KeepsAccepted'
  <2>1. /\ flow'[f].step = "closed" /\ \A g \in Flows \ {f} : flow'[g] = flow[g]
        /\ UNCHANGED <<file, accepted, crossed>> /\ ~Saving(f)
        BY <1>1, <1>3, ClosedTyped DEF Leave, promise, Saving
  <2> QED BY <2>1 DEF KeepsAccepted, Saving
<1>4. ASSUME NEW f \in Flows, Save(f)
      PROVE  KeepsAccepted'
  <2>1. UNCHANGED <<accepted, crossed>> /\ flow[f].step = "review"
        BY <1>4 DEF Save, promise
  <2> QED BY <1>4, <2>1, SaveGoes DEF KeepsAccepted, Saving
<1>5. ASSUME NEW f \in Flows, Reload(f)
      PROVE  KeepsAccepted'
  <2>1. UNCHANGED <<file, accepted, crossed>> /\ flow[f].step = "written"
        BY <1>5 DEF Reload, promise
  <2> QED BY <1>5, <2>1, ReloadGoes DEF KeepsAccepted, Saving
<1>6. ASSUME NEW f \in Flows, Activate(f)
      PROVE  KeepsAccepted'
  <2>1. /\ flow'[f].step = "closed" /\ \A g \in Flows \ {f} : flow'[g] = flow[g]
        /\ file' = file /\ accepted' = flow[f].staged
        /\ flow[f].step = "loaded" /\ (~crossed' => flow[f].alone)
        BY <1>1, <1>6, ClosedTyped DEF Activate
  <2>2. \A g \in Flows \ {f} : ~(flow[g].step # "closed" /\ flow[g].alone)
        BY <2>1 DEF AloneWithFile, Saving
  <2>3. flow[f].alone => file = flow[f].staged
        BY <2>1 DEF AloneWithFile, Saving
  <2> QED BY <2>1, <2>2, <2>3 DEF KeepsAccepted
<1>7. ASSUME NEW f \in Flows, RollBack(f)
      PROVE  KeepsAccepted'
  <2>1. /\ file' = flow[f].previous /\ accepted' = accepted /\ flow[f].step = "loaded"
        /\ ~crossed' => ~crossed /\ flow[f].alone
        BY <1>7 DEF RollBack, Restored
  <2>2. ~crossed' => file' = accepted'
        BY <2>1 DEF KeepsAccepted
  <2> QED BY <1>7, <2>2, RollBackGoes DEF KeepsAccepted
<1>8. ASSUME NEW edit \in HandEdits, EditByHand(edit)
      PROVE  KeepsAccepted'
  <2>1. accepted' = file'
        BY <1>8 DEF EditByHand
  <2> QED BY <1>8, <2>1, EditGoes DEF KeepsAccepted
<1>9. ASSUME NEW yaml \in BOOLEAN, Restart(yaml)
      PROVE  KeepsAccepted'
  <2>1. /\ \A f \in Flows : flow'[f].step = "closed"
        /\ UNCHANGED <<file, accepted>>
        /\ ~crossed' => ~crossed /\ \A f \in Flows : ~Saving(f)
        BY <1>9, ClosedTyped DEF Restart
  <2> QED BY <2>1 DEF KeepsAccepted
<1>10. CASE SetupConfirm
  <2>1. accepted' = file' /\ flow' = flow /\ \A f \in Flows : flow[f].step = "closed"
        BY <1>10 DEF SetupConfirm, OneEntry
  <2> QED BY <2>1 DEF KeepsAccepted
<1>11. CASE UNCHANGED <<file, flow, accepted, crossed>>
       BY <1>11 DEF KeepsAccepted, Saving
<1> QED BY <1>2, <1>3, <1>4, <1>5, <1>6, <1>7, <1>8, <1>9, <1>10, <1>11
        DEF FlowNext, flowVars, promise, SetupForms, CreateEntry, Initialize, Install, RemoveEntry

\* What is rejected after a reload was not usable before either.
LEMMA RejectedAlike ==
    ASSUME NEW dialog, NEW known, Formed(dialog, known), Filled(dialog),
           dialog.step # "closed", ~Load(dialog.staged).enabled
    PROVE  Load(dialog.staged) = Load(dialog.previous)
<1>1. dialog.staged # NoFile /\ dialog.previous # NoFile
      BY DEF Filled
<1>2. ~dialog.staged.usable
      BY <1>1 DEF Load, Formed
<1> QED BY <1>2 DEF Load, Formed

\* Covered in the next state, of a configuration of either.
Later(config) == \/ config = Load(accepted')
                 \/ \E f \in Flows : /\ Saving(f)'
                                     /\ flow'[f].alone => config = Load(flow'[f].staged)

\* A save that goes on covers what it wrote, as long as nothing else is accepted.
LEMMA CoveredStays ==
    ASSUME accepted' = accepted, NEW config, Covered(config),
           \A f \in Flows : Saving(f) =>
              /\ Saving(f)'
              /\ flow'[f].staged = flow[f].staged
              /\ flow'[f].alone => flow[f].alone
    PROVE  Later(config)
BY DEF Covered, Later

\* A step that leaves the bridge alone, while no save ends.
LEMMA CalmStep ==
    ASSUME LiveIsCovered, UNCHANGED <<accepted, runtime, starting>>,
           crossed' = crossed, live' => live,
           \A f \in Flows : Saving(f) =>
              /\ Saving(f)'
              /\ flow'[f].staged = flow[f].staged
              /\ flow'[f].alone => flow[f].alone
    PROVE  LiveIsCovered'
<1>1. \A config : Covered(config) => Later(config)
      BY CoveredStays
<1>2. /\ ~crossed' /\ live' /\ starting' = Nothing /\ runtime' # NotLoaded => Later(runtime')
      /\ ~crossed' /\ live' /\ starting' \notin {Nothing, Due} => Later(starting')
      BY <1>1 DEF LiveIsCovered
<1> QED BY <1>2 DEF LiveIsCovered, Covered, Later

LEMMA LiveStep ==
    ASSUME FlowTypeOK, OneStart, OneEntry, AllFormed, Sound, [FlowNext]_flowVars
    PROVE  LiveIsCovered'
<1>1. flow \in [Flows -> Dialogs] /\ LiveIsCovered /\ KeepsAccepted /\ AloneWithFile
      BY DEF FlowTypeOK, Sound
<1>2. ASSUME NEW f \in Flows, NEW form \in Forms, OptionsForm(f, form)
      PROVE  LiveIsCovered'
  <2>1. /\ UNCHANGED <<accepted, runtime, starting, crossed, live>>
        /\ ~Saving(f) /\ \A g \in Flows \ {f} : flow'[g] = flow[g]
        BY <1>1, <1>2 DEF OptionsForm, promise, Saving
  <2> QED BY <1>1, <2>1, CalmStep DEF Saving
<1>3. ASSUME NEW f \in Flows, Leave(f)
      PROVE  LiveIsCovered'
  <2>1. /\ UNCHANGED <<accepted, runtime, starting, crossed, live>>
        /\ ~Saving(f) /\ \A g \in Flows \ {f} : flow'[g] = flow[g]
        BY <1>1, <1>3 DEF Leave, promise, Saving
  <2> QED BY <1>1, <2>1, CalmStep DEF Saving
<1>4. ASSUME NEW f \in Flows, Save(f)
      PROVE  LiveIsCovered'
  <2>1. UNCHANGED <<accepted, runtime, starting, crossed, live>> /\ ~Saving(f)
        BY <1>4 DEF Save, promise, Saving
  <2> QED BY <1>1, <1>4, <2>1, SaveGoes, CalmStep DEF Saving, Goes
<1>5. ASSUME NEW f \in Flows, Reload(f)
      PROVE  LiveIsCovered'
  <2>1. UNCHANGED <<accepted, runtime, starting, crossed, live>>
        BY <1>5 DEF Reload, promise
  <2> QED BY <1>1, <1>5, <2>1, ReloadGoes, CalmStep DEF Saving
<1>6. ASSUME NEW f \in Flows, Activate(f)
      PROVE  LiveIsCovered'
  <2>1. /\ accepted' = flow[f].staged /\ starting' = starting
        /\ flow[f].step = "loaded"
        /\ ~crossed' => flow[f].alone /\ starting = Nothing /\ runtime # NotLoaded
        /\ runtime # NotLoaded => runtime' = flow[f].loaded
        BY <1>6 DEF Activate
  <2>2. flow[f].alone => flow[f].loaded = Load(flow[f].staged)
        BY <1>1, <2>1 DEF AloneWithFile
  <2>3. ~crossed' => starting' = Nothing /\ runtime' = Load(accepted')
        BY <2>1, <2>2
  <2>4. ~crossed' => starting' = Nothing /\ Covered(runtime)'
        BY <2>3, Zenon DEF Covered
  <2> QED BY <2>4, Zenon DEF LiveIsCovered
<1>7. ASSUME NEW f \in Flows, RollBack(f)
      PROVE  LiveIsCovered'
  <2>1. /\ UNCHANGED <<accepted, runtime, starting, live>>
        /\ flow[f].step = "loaded" /\ ~flow[f].loaded.enabled
        /\ ~crossed' => ~crossed /\ flow[f].alone
        BY <1>7 DEF RollBack, Usable
  <2>2. ASSUME ~crossed', NEW config, Covered(config)
        PROVE  config = Load(accepted)
    <3>1. /\ flow[f].alone /\ flow[f].previous = accepted
          /\ \A g \in Flows \ {f} : ~Saving(g)
          /\ flow[f].loaded = Load(flow[f].staged)
          BY <1>1, <2>1, <2>2 DEF AloneWithFile, KeepsAccepted
    <3>2. config = Load(accepted) \/ config = Load(flow[f].staged)
          BY <2>2, <3>1 DEF Covered
    <3>3. Formed(flow[f], secrets) /\ Filled(flow[f]) /\ flow[f].step # "closed"
          BY <2>1 DEF AllFormed, FlowTypeOK
    <3>4. ~Load(flow[f].staged).enabled
          BY <2>1, <3>1
    <3>5. Load(flow[f].staged) = Load(flow[f].previous)
          BY <3>3, <3>4, RejectedAlike
    <3> QED BY <3>1, <3>2, <3>5
  <2>3. ~crossed' => ~crossed
        BY <2>1
  <2> QED BY <1>1, <2>1, <2>2, <2>3 DEF LiveIsCovered, Covered
<1>8. ASSUME NEW edit \in HandEdits, EditByHand(edit)
      PROVE  LiveIsCovered'
      BY <1>8 DEF EditByHand, LiveIsCovered
<1>9. ASSUME NEW yaml \in BOOLEAN, Restart(yaml)
      PROVE  LiveIsCovered'
      BY <1>9 DEF Restart, LiveIsCovered
<1>10. CASE SetupConfirm
       BY <1>10 DEF SetupConfirm, LiveIsCovered
<1>11. CASE CreateEntry
  <2>1. /\ UNCHANGED <<runtime, flow, accepted, crossed, live>>
        /\ starting = Nothing /\ starting' \in {Nothing, Due}
        BY <1>11 DEF CreateEntry, promise, OneEntry
  <2> QED BY <1>1, <2>1 DEF LiveIsCovered, Covered, Saving
<1>12. CASE Initialize
  <2>1. /\ UNCHANGED <<runtime, flow, accepted, crossed>>
        /\ starting = Due /\ starting' = Load(file)
        BY <1>12 DEF Initialize
  <2>2. runtime = NotLoaded
        BY <2>1, MarksAssumption DEF OneStart
  <2>3. ~crossed => Covered(Load(file))
    <3>1. ASSUME NEW f \in Flows, Saving(f)
          PROVE  Covered(Load(file))
          BY <1>1, <3>1 DEF AloneWithFile, Saving, Covered
    <3> QED BY <1>1, <3>1 DEF KeepsAccepted, Covered
  <2> QED BY <2>1, <2>2, <2>3 DEF LiveIsCovered, Covered, Saving
<1>13. CASE Install
  <2>1. /\ UNCHANGED <<flow, accepted, crossed, live>>
        /\ starting \notin {Nothing, Due} /\ starting' = Nothing /\ runtime' = starting
        BY <1>13 DEF Install, promise
  <2> QED BY <1>1, <2>1 DEF LiveIsCovered, Covered, Saving
<1>14. CASE UNCHANGED <<flow, accepted, crossed, live, runtime, starting>>
       BY <1>1, <1>14, CalmStep DEF Saving
<1> QED BY <1>2, <1>3, <1>4, <1>5, <1>6, <1>7, <1>8, <1>9, <1>10, <1>11, <1>12, <1>13, <1>14
        DEF FlowNext, flowVars, promise, SetupForms, RemoveEntry

LEMMA SoundHolds == FlowSpec => []Sound
<1>1. FlowInit => Sound
      BY ClosedTyped DEF FlowInit, Sound, AloneWithFile, KeepsAccepted, LiveIsCovered
<1>2. FlowTypeOK /\ OneStart /\ OneEntry /\ AllFormed /\ Sound /\ [FlowNext]_flowVars => Sound'
      BY AloneStep, AcceptedStep, LiveStep DEF Sound
<1> QED BY <1>1, <1>2, TypeCorrect, StartAlone, OneEntryHolds, AllFormedHolds, PTL DEF FlowSpec

\* Once no save is under way the file is what was accepted last and the bridge
\* enforces it, however many dialogs, edits, starts and rollbacks came before.
THEOREM SettledHolds == FlowSpec => []Settled
<1>1. Sound => Settled
      BY DEF Sound, KeepsAccepted, LiveIsCovered, Covered, Settled
<1> QED BY <1>1, SoundHolds, PTL

\* A save that was alone changes the client secret where its form asked for it and
\* leaves the allowlist of the file, for all forms, edits and numbers of dialogs.
THEOREM OnlyAskedHolds == FlowSpec => OnlyAsked
<1>1. ASSUME FlowTypeOK, AllFormed, Sound, [FlowNext]_flowVars, NEW f \in Flows,
             flow[f].step = "loaded", flow'[f].step = "closed", restarts' = restarts,
             flow[f].alone, ~crossed, runtime # NotLoaded, runtime' # runtime
      PROVE  /\ runtime'.users = accepted.users
             /\ runtime'.secret = accepted.secret <=> ~flow[f].rotate
  <2>1. flow \in [Flows -> Dialogs]
        BY <1>1 DEF FlowTypeOK
  <2>2. ASSUME NEW g \in Flows, Activate(g) PROVE g = f
        BY <1>1, <2>1, <2>2 DEF Activate
  <2>3. CASE Activate(f)
    <3>1. runtime' = flow[f].loaded /\ flow[f].loaded.enabled
          BY <1>1, <2>3 DEF Activate, Usable
    <3>2. flow[f].loaded = Load(flow[f].staged) /\ flow[f].previous = accepted
          BY <1>1 DEF Sound, AloneWithFile, KeepsAccepted
    <3>3. runtime'.users = flow[f].staged.users /\ runtime'.secret = flow[f].staged.secret
          BY <3>1, <3>2 DEF Load, Disabled
    <3> QED BY <1>1, <3>2, <3>3 DEF AllFormed, Formed
  <2>4. CASE Install
        BY <1>1, <2>4 DEF Install
  <2>5. ASSUME NEW yaml \in BOOLEAN, Restart(yaml) PROVE FALSE
    <3>1. restarts' = restarts + 1 /\ restarts \in 0..MaxRestarts
          BY <1>1, <2>5 DEF Restart, FlowTypeOK
    <3> QED BY <1>1, <3>1, BoundsAssumption
  <2> QED BY <1>1, <2>2, <2>3, <2>4, <2>5
          DEF FlowNext, flowVars, SetupForms, SetupConfirm, CreateEntry, Initialize, OptionsForm,
              Leave, Save, Reload, RollBack, EditByHand, RemoveEntry
<1>2. FlowTypeOK /\ AllFormed /\ Sound /\ [FlowNext]_flowVars =>
        [\A f \in Flows :
            /\ flow[f].step = "loaded" /\ flow'[f].step = "closed" /\ restarts' = restarts
            /\ flow[f].alone /\ ~crossed /\ runtime # NotLoaded /\ runtime' # runtime
            => /\ runtime'.users = accepted.users
               /\ runtime'.secret = accepted.secret <=> ~flow[f].rotate]_flowVars
      BY <1>1
<1> QED BY <1>2, TypeCorrect, AllFormedHolds, SoundHolds, PTL DEF FlowSpec, OnlyAsked
=================================================================================
