------------------------------ MODULE MCMutations ------------------------------
(***************************************************************************)
(* The changes a user reviews, for TLC: the edits of one object, the two   *)
(* ways to describe a change by patches, the runs that act on something    *)
(* outside, and the dialogs of the options.  They share nothing, so a      *)
(* behaviour picks one of the five and leaves the others as they begin.    *)
(***************************************************************************)
EXTENDS ActionRuns, ObjectEdits, FilePatch, JsonPatch, OptionsFlow, TLC

VARIABLE subject

MCInit == /\ ActionInit /\ Init /\ PatchInit /\ JsonInit /\ FlowInit
          /\ subject \in {"action", "object", "file patch", "json patch", "options"}
          /\ subject # "object" => family = "file" /\ content = Default

MCNext ==
    /\ UNCHANGED subject
    /\ \/ subject = "action" /\ ActionNext /\ UNCHANGED <<vars, patchVars, jsonVars, flowVars>>
       \/ subject = "object" /\ Next /\ UNCHANGED <<actionVars, patchVars, jsonVars, flowVars>>
       \/ /\ subject = "file patch" /\ PatchNext
          /\ UNCHANGED <<actionVars, vars, jsonVars, flowVars>>
       \/ /\ subject = "json patch" /\ JsonNext
          /\ UNCHANGED <<actionVars, vars, patchVars, flowVars>>
       \/ /\ subject = "options" /\ FlowNext
          /\ UNCHANGED <<actionVars, vars, patchVars, jsonVars>>

MCSpec == MCInit /\ [][MCNext]_<<subject, actionVars, vars, patchVars, jsonVars, flowVars>>
--------------------------------------------------------------------------------
OneField == UNION {[{f} -> {1}] : f \in Fields}
Symmetry == Permutations(Applies) \cup Permutations(Flows)

L(word, ended) == [word |-> word, ended |-> ended]
Blocks == {<<>>, <<L("b", TRUE)>>, <<L("b", FALSE)>>, <<L("a", TRUE), L("a", TRUE)>>}

X == Leaf("x")
Y == Leaf("y")
Nested == Object([a |-> Y])
DocumentSet == {Object([views |-> List(<<X, Nested>>), t |-> X]),
                Object([t |-> List(<<List(<<X>>), Y>>)])}
Paths == {<<>>, <<"views">>, <<"t">>, <<"views", "0">>, <<"views", "1">>, <<"views", "-">>,
          <<"views", "2">>, <<"views", "01">>, <<"views", "1", "a">>, <<"t", "a">>,
          <<"t", "0", "0">>, <<"t", "0", "-">>, <<"token">>}
StepsOf(ops, froms, values) == [op : ops, path : Paths, from : froms, value : values]
StepSet == StepsOf({"add", "replace", "test"}, {<<>>}, {X, List(<<>>), Nested})
           \cup StepsOf({"remove"}, {<<>>}, {X}) \cup StepsOf({"copy", "move"}, Paths, {X})

Ints == [t \in {"0", "1", "2", "01", "-1"} |->
           CASE t = "0" -> 0 [] t \in {"1", "01"} -> 1 [] t = "2" -> 2 [] t = "-1" -> -1]

\* Five capabilities, two presets, and forms that lock, or select capabilities
\* that do not go together.
RoleSet == {"status:read", "control:read", "control:write", "deployment:target", "mutation:apply"}
AllNames == RoleSet \cup {"git:commit"}
SourceSet == {"control:write", "deployment:target"}
PresetTable == [minimal      |-> {"status:read", "control:read"},
                home_control |-> {"status:read", "control:read", "control:write", "mutation:apply"}]

FormSet == {[preset |-> "custom", caps |-> {"deployment:target"},
             lockdown |-> TRUE, rotate |-> FALSE],
            [preset |-> "custom", caps |-> {"control:read", "mutation:apply"},
             lockdown |-> FALSE, rotate |-> TRUE]}

EditSet == {[users |-> "few", preset |-> ""], [usable |-> FALSE],
            [preset |-> "custom", caps |-> {"git:commit"}]}
================================================================================
