------------------------------ MODULE ObjectEdits ------------------------------
(***************************************************************************)
(* The branches of apply_mutation that change one object of Home Assistant *)
(* which others change too: a dashboard (lovelace.py, dashboard.replace),  *)
(* a registry entry (registry.py), a helper or a dashboard's metadata row  *)
(* (helpers.py, lovelace.py, through the internal websocket) and a file    *)
(* (engine.py:1079, file_ops.py).  Each was prepared against a digest of   *)
(* the object and has its own order of check, backup, write and            *)
(* verification, with an await between any two of them.                    *)
(*                                                                         *)
(* There is one object; a digest is named by the content it is taken of.   *)
(* Whatever else writes the object (a user, an integration, an editor) is  *)
(* Edit.  Audit records and answers to the client are in ApplyEngine.      *)
(***************************************************************************)
EXTENDS EditLimits

CONSTANT MaxEdits      \* bound on foreign writes, for TLC only

VARIABLES family,      \* what the object is
          content,     \* the object as Home Assistant has it
          at,          \* where each run is
          job,         \* what was prepared: kind and change
          before,      \* material: the content the client had read
          seen,        \* the content the run found when it started
          cause,       \* outcome of the exception that a file rollback re-raises
          outcome,     \* _failure_outcome or _success_outcome
          disturbed,   \* history: somebody else wrote while the run was on
          faulty,      \* history: a websocket answer was lost or a cleanup failed
          wrote,       \* history: a write of the run is in place
          lost,        \* history: taking a write back destroyed somebody else's
          edits

places == <<at, job, before, seen, cause, outcome>>
past == <<disturbed, faulty, wrote, lost>>
vars == <<family, content, places, past, edits>>

Contents == [Fields -> Values]
Absent == [f \in {} |-> 0]      \* no object: it has no fields
None == "none"

Succeeded == {"applied_verified", "applied_unverified"}
Places == {"idle", "prepared", "backup", "write", "replace", "filling", "verify",
           "undo", "done"}

\* A dashboard just created has the default configuration.
Default == [f \in Fields |-> CHOOSE v \in Values : TRUE]

Kind(a) == job[a].kind
Merge(c, change) ==
    [f \in Fields |-> IF f \in DOMAIN change THEN change[f] ELSE c[f]]

\* The content that was prepared (projected_after for a registry change).
After(a) == CASE Kind(a) = "delete" -> Absent
              [] Kind(a) \in {"create", "clone"} -> Merge(Default, job[a].change)
              [] OTHER -> Merge(before[a], job[a].change)

Init == /\ family \in Families
        /\ content \in Contents \cup (IF family = "collection" THEN {Absent} ELSE {})
        /\ at = [a \in Applies |-> "idle"]
        /\ job = [a \in Applies |-> [kind |-> None]]
        /\ before = [a \in Applies |-> Absent]
        /\ seen = [a \in Applies |-> Absent]
        /\ cause = [a \in Applies |-> None]
        /\ outcome = [a \in Applies |-> None]
        /\ disturbed = [a \in Applies |-> FALSE]
        /\ faulty = [a \in Applies |-> FALSE]
        /\ wrote = [a \in Applies |-> FALSE]
        /\ lost = [a \in Applies |-> FALSE]
        /\ edits = 0
--------------------------------------------------------------------------------
Underway(a) == at[a] \notin {"idle", "prepared", "done"}

Goes(a, from, to) == /\ at[a] = from
                     /\ at' = [at EXCEPT ![a] = to]

Ends(a, o) == /\ at' = [at EXCEPT ![a] = "done"]
              /\ outcome' = [outcome EXCEPT ![a] = o]

Keeps == UNCHANGED <<content, disturbed, wrote, lost>>

\* Run a puts a new content in place; "undoing" when it takes its own write back.
Puts(a, new, undoing) ==
    /\ content' = new
    /\ disturbed' = [b \in Applies |-> disturbed[b] \/ (b # a /\ Underway(b))]
    /\ wrote' = [wrote EXCEPT ![a] = ~undoing]
    /\ lost' = [lost EXCEPT ![a] = @ \/ (undoing /\ content \notin {seen[a], After(a)})]

\* prepare_*: the client's expected_sha256 is the digest of the present content.
Prepare(a, kind, change) ==
    /\ Goes(a, "idle", "prepared")
    /\ kind \in Kinds[family]
    /\ kind \in {"create", "clone"} <=> content = Absent
    /\ job' = [job EXCEPT ![a] = [kind |-> kind, change |-> change]]
    /\ before' = [before EXCEPT ![a] = content]
    /\ UNCHANGED <<family, content, seen, cause, outcome, past, edits>>

\* Mutant of Matches: the digest is not compared.
MatchesAnything(a) == TRUE

Matches(a) == content = before[a]

\* The digest check; a mismatch is an unmarked contract error.
Check(a) ==
    /\ at[a] = "prepared"
    /\ Kind(a) \notin {"file", "replace"}
    /\ seen' = [seen EXCEPT ![a] = content]
    /\ \/ /\ Matches(a)
          /\ at' = [at EXCEPT ![a] =
                      IF Kind(a) \in {"create", "clone"} THEN "write" ELSE "backup"]
          /\ UNCHANGED outcome
       \/ ~Matches(a) /\ Ends(a, "not_applied")
    /\ UNCHANGED <<family, content, job, before, cause, past, edits>>

\* dashboard.replace checks and saves with no await between.
ReplaceDashboard(a) ==
    /\ at[a] = "prepared"
    /\ Kind(a) = "replace"
    /\ seen' = [seen EXCEPT ![a] = content]
    /\ \/ Matches(a) /\ Puts(a, After(a), FALSE) /\ Ends(a, "applied_unverified")
       \/ ~Matches(a) /\ Keeps /\ Ends(a, "not_applied")
    /\ UNCHANGED <<family, job, before, cause, faulty, edits>>

\* file.update first keeps the bytes it finds, for the backup and the rollback.
ReadFile(a) ==
    /\ Goes(a, "prepared", "backup")
    /\ Kind(a) = "file"
    /\ seen' = [seen EXCEPT ![a] = content]
    /\ UNCHANGED <<family, content, job, before, cause, outcome, past, edits>>

\* backups.create runs in the executor; a disk error is not a contract error.
Backup(a) ==
    /\ at[a] = "backup"
    /\ \/ Goes(a, "backup", "write") /\ UNCHANGED outcome
       \/ Ends(a, "unknown")
    /\ UNCHANGED <<family, content, job, before, seen, cause, past, edits>>

\* dashboard.async_save, or DASHBOARD_SAVE_FAILED.
SaveDashboard(a) ==
    /\ at[a] = "write"
    /\ Kind(a) = "dashboard"
    /\ \/ Goes(a, "write", "verify") /\ Puts(a, After(a), FALSE) /\ UNCHANGED outcome
       \/ Ends(a, "not_applied") /\ Keeps
    /\ UNCHANGED <<family, job, before, seen, cause, faulty, edits>>

\* Mutant of UpdateRegistry: the whole entry is written as it was projected.
UpdateWholeEntry(a) ==
    /\ at[a] = "write"
    /\ Kind(a) = "registry"
    /\ Puts(a, After(a), FALSE)
    /\ Ends(a, "applied_unverified")
    /\ UNCHANGED <<family, job, before, seen, cause, faulty, edits>>

\* async_update_entity or _device sets the changed fields only; the entry may have
\* been removed since the check.
UpdateRegistry(a) ==
    /\ at[a] = "write"
    /\ Kind(a) = "registry"
    /\ \/ /\ content # Absent
          /\ Puts(a, Merge(content, job[a].change), FALSE)
          /\ Ends(a, "applied_unverified")
       \/ content = Absent /\ Keeps /\ Ends(a, "unknown")
    /\ UNCHANGED <<family, job, before, seen, cause, faulty, edits>>

\* What Home Assistant does with a create, update or delete command.
Executable(a) == (Kind(a) \in {"create", "clone"}) <=> (content = Absent)
Executes(a) == Puts(a, IF Kind(a) = "clone" THEN Default ELSE After(a), FALSE)

\* One websocket command: it is executed and answered, rejected by Home Assistant,
\* or its answer is lost (INTERNAL_WS_TIMEOUT, _CLOSED, _FAILED).
SendCommand(a) ==
    /\ at[a] = "write"
    /\ family = "collection"
    /\ \/ /\ Executable(a) /\ Executes(a)
          /\ at' = [at EXCEPT ![a] = IF Kind(a) = "clone" THEN "filling" ELSE "verify"]
          /\ UNCHANGED <<outcome, faulty>>
       \/ ~Executable(a) /\ Keeps /\ Ends(a, "not_applied") /\ UNCHANGED faulty
       \/ /\ (Executable(a) /\ Executes(a)) \/ Keeps
          /\ Ends(a, "not_applied")
          /\ faulty' = [faulty EXCEPT ![a] = TRUE]
    /\ UNCHANGED <<family, job, before, seen, cause, edits>>

\* Mutant of FillClone: the configuration is not saved.
LeaveCloneEmpty(a) ==
    /\ Goes(a, "filling", "verify")
    /\ Keeps
    /\ UNCHANGED <<family, job, before, seen, cause, outcome, faulty, edits>>

\* A clone saves the source's configuration into the new dashboard.
FillClone(a) ==
    /\ at[a] = "filling"
    /\ \/ /\ content # Absent
          /\ \/ Goes(a, "filling", "verify") /\ Puts(a, After(a), FALSE)
             \/ Goes(a, "filling", "undo") /\ Keeps
          /\ UNCHANGED outcome
       \/ content = Absent /\ Keeps /\ Ends(a, "not_applied")
    /\ UNCHANGED <<family, job, before, seen, cause, faulty, edits>>

\* Mutant of Compensate: the half-created dashboard stays.
LeaveHalfClone(a) ==
    /\ at[a] = "undo"
    /\ Kind(a) = "clone"
    /\ Keeps
    /\ Ends(a, "not_applied")
    /\ UNCHANGED <<family, job, before, seen, cause, faulty, edits>>

\* The half-created dashboard is deleted; DASHBOARD_CLONE_SAVE_FAILED either way.
Compensate(a) ==
    /\ at[a] = "undo"
    /\ Kind(a) = "clone"
    /\ \/ Puts(a, Absent, TRUE) /\ UNCHANGED faulty
       \/ Keeps /\ faulty' = [faulty EXCEPT ![a] = TRUE]
    /\ Ends(a, "not_applied")
    /\ UNCHANGED <<family, job, before, seen, cause, edits>>

\* apply_file, in the executor: the digest check ...
CheckFile(a) ==
    /\ Kind(a) = "file"
    /\ \/ Matches(a) /\ Goes(a, "write", "replace") /\ UNCHANGED cause
       \/ /\ ~Matches(a) /\ Goes(a, "write", "undo")
          /\ cause' = [cause EXCEPT ![a] = "not_applied"]
    /\ UNCHANGED <<family, content, job, before, seen, outcome, past, edits>>

\* ... os.replace of the temporary file ...
ReplaceFile(a) ==
    /\ Goes(a, "replace", "verify")
    /\ Puts(a, After(a), FALSE)
    /\ UNCHANGED <<family, job, before, seen, cause, outcome, faulty, edits>>

\* ... and a disk error before or after it.
FileBreaks(a) ==
    /\ at[a] \in {"replace", "verify"}
    /\ Kind(a) = "file"
    /\ at' = [at EXCEPT ![a] = "undo"]
    /\ cause' = [cause EXCEPT ![a] = "unknown"]
    /\ UNCHANGED <<family, content, job, before, seen, outcome, past, edits>>

\* Any exception of apply_file: put back the bytes kept by ReadFile and re-raise.
RollBackFile(a) ==
    /\ at[a] = "undo"
    /\ Kind(a) = "file"
    /\ \/ Puts(a, seen[a], TRUE) /\ Ends(a, cause[a])
       \/ Keeps /\ Ends(a, "unknown")
    /\ UNCHANGED <<family, job, before, seen, cause, faulty, edits>>

\* What the verification of each kind looks at.
Verified(a) == CASE Kind(a) \in {"dashboard", "file"} -> content = After(a)
                 [] Kind(a) = "delete" -> content = Absent
                 [] Kind(a) \in {"update", "create", "clone"} -> content # Absent

Verify(a) ==
    /\ at[a] = "verify"
    /\ \/ /\ Verified(a) /\ UNCHANGED <<cause, faulty>>
          /\ Ends(a, IF Kind(a) = "file" THEN "applied_verified" ELSE "applied_unverified")
       \/ /\ ~Verified(a) /\ Kind(a) = "file"
          /\ Goes(a, "verify", "undo")
          /\ cause' = [cause EXCEPT ![a] = "not_applied"]
          /\ UNCHANGED <<outcome, faulty>>
       \/ ~Verified(a) /\ Kind(a) # "file" /\ Ends(a, "not_applied")
          /\ UNCHANGED <<cause, faulty>>
       \/ /\ family = "collection" /\ Ends(a, "not_applied")
          /\ faulty' = [faulty EXCEPT ![a] = TRUE]
          /\ UNCHANGED cause
    /\ UNCHANGED <<family, content, job, before, seen, disturbed, wrote, lost, edits>>

\* Somebody else writes the object; only registry and collection objects go away.
Edit(new) ==
    /\ edits < MaxEdits
    /\ edits' = edits + 1
    /\ new # content
    /\ new = Absent => family \in {"registry", "collection"}
    /\ content' = new
    /\ disturbed' = [a \in Applies |-> disturbed[a] \/ Underway(a)]
    /\ UNCHANGED <<family, places, faulty, wrote, lost>>

Step(a) == \/ Check(a) \/ ReplaceDashboard(a) \/ ReadFile(a) \/ Backup(a)
           \/ SaveDashboard(a) \/ UpdateRegistry(a) \/ SendCommand(a)
           \/ FillClone(a) \/ Compensate(a)
           \/ CheckFile(a) \/ ReplaceFile(a) \/ FileBreaks(a) \/ RollBackFile(a)
           \/ Verify(a)

Next == \/ \E a \in Applies, c \in Changes :
              \E kind \in UNION {Kinds[f] : f \in DOMAIN Kinds} : Prepare(a, kind, c)
        \/ \E a \in Applies : Step(a)
        \/ \E new \in Contents \cup {Absent} : Edit(new)

Spec == Init /\ [][Next]_vars
--------------------------------------------------------------------------------
TypeOK == /\ family \in Families
          /\ content \in Contents \cup {Absent}
          /\ at \in [Applies -> Places]
          /\ \A a \in Applies : at[a] # "idle" =>
                /\ Kind(a) \in Kinds[family] /\ job[a].change \in Changes
                /\ before[a] \in Contents \cup {Absent}
          /\ \A a \in Applies : Underway(a) => seen[a] \in Contents \cup {Absent}
          /\ \A a \in Applies : at[a] = "done" <=>
                outcome[a] \in Succeeded \cup {"not_applied", "unknown"}
          /\ edits \in Nat

Finishes(a) == at[a] # "done" /\ at'[a] = "done"

(* "Execute exactly the previously prepared mutation" (README.md:43): when *)
(* nobody else wrote during the run and it reports success, the object is  *)
(* exactly what was prepared, and the run started from what the client     *)
(* had read.                                                               *)
ExactApply ==
    [][\A a \in Applies : Finishes(a) /\ outcome'[a] \in Succeeded /\ ~disturbed'[a] =>
          content' = After(a) /\ seen'[a] = before[a]]_vars

(* All or nothing: when nobody else wrote, no answer was lost and no       *)
(* cleanup failed, a run that reports not_applied leaves the object as it  *)
(* found it, whichever step raised.                                        *)
AllOrNothing ==
    [][\A a \in Applies : /\ Finishes(a) /\ outcome'[a] = "not_applied"
                          /\ ~disturbed'[a] /\ ~faulty'[a]
                          => content' = seen'[a]]_vars

(* A mutation prepared against an older content never succeeds: only a     *)
(* file, whose digest is checked after the read, may start on another      *)
(* content and find the prepared one restored by somebody else.            *)
StaleRefused ==
    \A a \in Applies : at[a] = "done" /\ outcome[a] \in Succeeded =>
        \/ seen[a] = before[a]
        \/ Kind(a) = "file" /\ disturbed[a]

(* A registry change that succeeded stays in the entry, field by field,    *)
(* until somebody else writes that field: however many changes overlap, no *)
(* run writes back a field that it only read.                              *)
BothSurvive ==
    \A a \in Applies :
        Kind(a) = "registry" /\ edits = 0 /\ outcome[a] \in Succeeded =>
            \A f \in DOMAIN job[a].change :
                (\A b \in Applies \ {a} : wrote[b] => f \notin DOMAIN job[b].change)
                => content[f] = job[a].change[f]

(* "Contract errors without a marker are raised at the send boundary or    *)
(* before it ..., so nothing executed" (engine.py:140-142): a run that     *)
(* reports not_applied has no write in place.                              *)
NotAppliedMeansUntouched ==
    \A a \in Applies : outcome[a] = "not_applied" => ~wrote[a]

(* "expected_sha256 protects the complete file against concurrent changes" *)
(* (file_ops.py:327), and a digest mismatch means that "nothing executed"  *)
(* (engine.py:140-142): the rollback of a file run puts its old bytes back *)
(* only over its own write or over those same bytes.                       *)
FileProtected == \A a \in Applies : Kind(a) = "file" => ~lost[a]
================================================================================
