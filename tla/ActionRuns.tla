------------------------------- MODULE ActionRuns -------------------------------
(***************************************************************************)
(* engine.py apply_mutation, the mutations that act on something outside:  *)
(* a service call, a sequence of them, an OTA upload of ESPHome, the       *)
(* removal of a HACS repository, a config entry, Home Assistant's core and *)
(* the Supervisor.  One run from its preparation to the outcome that its   *)
(* client is told (_failure_outcome, _success_outcome), next to a Device   *)
(* Builder that others use.  A preparation that is refused changes nothing *)
(* and is not a behaviour.  Home Assistant, HACS, the Supervisor and the   *)
(* Device Builder are external.                                            *)
(***************************************************************************)
EXTENDS ActionLimits, Sequences

CONSTANT MaxSources                 \* bound, for TLC only

VARIABLES action,                   \* the prepared mutation
          point,                    \* what the run waits for
          results,                  \* of a sequence: which of its actions were acknowledged
          answer, report,
          source, builds, binary,   \* ESPHome: configuration, compile jobs, firmware
          tried,                    \* history: how many actions were called
          effects,                  \* history: something outside may have changed
          unanswered,               \* history: an answer was lost on its way
          uploaded,                 \* history: the build that was flashed
          alone                     \* history: no build was started after the job's own

esphome == <<source, builds, binary>>
history == <<tried, effects, unanswered, uploaded, alone>>
actionVars == <<action, point, results, answer, report, esphome, history>>

NoJob == [kind |-> "none"]
Unreported == [failed |-> 0, remaining |-> 0]

ActionInit == /\ action = NoJob /\ point = "idle" /\ results = <<>>
              /\ answer = "none" /\ report = Unreported
              /\ source = 0 /\ builds = <<>> /\ binary = 0
              /\ tried = 0 /\ effects = FALSE /\ unanswered = FALSE
              /\ uploaded = 0 /\ alone = FALSE

Proceeds(kind, from, to) == /\ action.kind = kind /\ point = from
                            /\ point' = to /\ UNCHANGED answer
Reports(o) == point' = "done" /\ answer' = o
Acts == effects' = TRUE /\ UNCHANGED <<tried, unanswered, uploaded, alone>>
MayAct == effects' \in {effects, TRUE} /\ UNCHANGED <<tried, unanswered, uploaded, alone>>
NoAct == UNCHANGED history
Rest == UNCHANGED <<action, results, report, esphome>>
--------------------------------------------------------------------------------
\* _prepare_service, _prepare_sequence, _prepare_hacs_repository_remove, and
\* _prepare_config_entry, _prepare_supervisor, _prepare_core.
ServiceJobs == [kind : {"service"}, verify : BOOLEAN]
SequenceJobs == [kind : {"sequence"}, length : 1..MaxActions, stop : BOOLEAN]
RemovalJobs == [kind : {"hacs"}]
OtherJobs == [kind : {"entry", "core", "supervisor"}]

PrepareRun ==
    /\ point = "idle" /\ point' = "prepared"
    /\ \/ action' \in ServiceJobs \/ action' \in SequenceJobs
       \/ action' \in RemovalJobs \/ action' \in OtherJobs
    /\ UNCHANGED <<results, answer, report, esphome, history>>

\* async_call raises, or returns and the states of the entities are looked at.
CallService ==
    /\ action.kind = "service" /\ point = "prepared"
    /\ \/ MayAct /\ Reports("unknown")
       \/ Acts /\ Reports("applied_unverified")
       \/ Acts /\ action.verify /\ Reports("applied_verified")
    /\ Rest

\* Mutant of Remaining: the action that failed is counted as well.
RemainingWithFailed(index) == action.length - index + 1

Remaining(index) == action.length - index

\* One action of a sequence; the last one ends it as executed.
CallAction ==
    LET index == Len(results) + 1
    IN  /\ action.kind = "sequence" /\ point = "prepared"
        /\ tried' = tried + 1 /\ effects' = TRUE
        /\ \E ok \in BOOLEAN :
              /\ results' = Append(results, ok)
              /\ \/ ~ok /\ action.stop
                    /\ Reports("partially_applied")
                    /\ report' = [failed |-> index, remaining |-> Remaining(index)]
                 \/ (ok \/ ~action.stop) /\ index < action.length
                    /\ UNCHANGED <<point, answer, report>>
                 \/ (ok \/ ~action.stop) /\ index = action.length
                    /\ Reports("applied_verified") /\ UNCHANGED report
        /\ UNCHANGED <<action, esphome, unanswered, uploaded, alone>>

\* An action that is One Bridge's own mail service raises a contract error: it is
\* passed on with its marker, and what the earlier actions did is not told.
PassOn == /\ action.kind = "sequence" /\ point = "prepared"
          /\ tried' = tried + 1 /\ effects' \in {effects, TRUE}
          /\ \E o \in {"not_applied", "applied_unverified", "unknown"} : Reports(o)
          /\ UNCHANGED <<unanswered, uploaded, alone>>
          /\ Rest

\* The entry is gone, or Home Assistant acts or raises.
UpdateEntry ==
    /\ action.kind = "entry" /\ point = "prepared"
    /\ \/ NoAct /\ Reports("not_applied")
       \/ Acts /\ Reports("applied_unverified")
       \/ MayAct /\ Reports("unknown")
    /\ Rest

CallCore == /\ \/ Proceeds("core", "prepared", "audit") /\ Acts
               \/ action.kind = "core" /\ point = "prepared" /\ MayAct /\ Reports("unknown")
            /\ Rest

\* A websocket command: rejected, answered, or its answer is lost.
CallSupervisor ==
    /\ action.kind = "supervisor" /\ point = "prepared"
    /\ \/ NoAct /\ Reports("not_applied")
       \/ Acts /\ Reports("applied_unverified")
       \/ /\ unanswered' = TRUE /\ effects' \in BOOLEAN /\ Reports("not_applied")
          /\ UNCHANGED <<tried, uploaded, alone>>
    /\ Rest

\* The snapshot, the refresh (whose errors are kept), uninstall and async_write.
CheckRepository == /\ \/ Proceeds("hacs", "prepared", "uninstall")
                      \/ action.kind = "hacs" /\ point = "prepared" /\ Reports("not_applied")
                   /\ NoAct /\ Rest

Uninstall == /\ \/ Proceeds("hacs", "uninstall", "audit") /\ Acts
                \/ /\ action.kind = "hacs" /\ point = "uninstall" /\ MayAct
                   /\ Reports("unknown") \/ Reports("applied_unverified")
             /\ Rest

\* What is audited after it was done; append itself may raise.
Audit == /\ point = "audit"
         /\ \/ Reports("unknown")
            \/ action.kind = "hacs" /\ Reports("applied_verified")
            \/ action.kind = "core" /\ Reports("applied_unverified")
            \/ /\ action.kind = "upload"
               /\ Reports("applied_verified") \/ Reports("applied_unverified")
         /\ NoAct /\ Rest
--------------------------------------------------------------------------------
(* The upload: _prepare_esphome_upload, esphome_upload_preflight twice, and *)
(* esphome_upload_start.  Each question to the Device Builder is an await. *)

\* Mutant of Ready: a job that is not finished will do.
ReadyInQueue(b) == builds[b] # "failed"

Ready(b) == builds[b] = "completed"

InspectJob(b) == /\ point = "idle" /\ b \in DOMAIN builds /\ Ready(b)
                 /\ action' = [kind |-> "upload", build |-> b, source |-> source]
                 /\ point' = "inspect"
                 /\ alone' = (b = Len(builds))
                 /\ UNCHANGED <<results, answer, report, esphome,
                                tried, effects, unanswered, uploaded>>

\* get_binaries, and the digest of the source after it.
InspectBinaries == /\ Proceeds("upload", "inspect", "prepared")
                   /\ binary # 0
                   /\ action' = [action EXCEPT !.source = source]
                   /\ UNCHANGED <<results, report, esphome, history>>

CheckSource == /\ action.kind = "upload" /\ point = "prepared"
               /\ \/ source = action.source /\ Proceeds("upload", "prepared", "recheck")
                  \/ source # action.source /\ Reports("not_applied")
               /\ NoAct /\ Rest

\* Whatever goes wrong with a command is a contract error, without a marker.
BuilderFails == Reports("not_applied")

\* The preflight again.
RecheckJob == /\ action.kind = "upload" /\ point = "recheck"
              /\ \/ Ready(action.build) /\ Proceeds("upload", "recheck", "binaries")
                 \/ BuilderFails
              /\ NoAct /\ Rest

RecheckBinaries == /\ action.kind = "upload" /\ point = "binaries"
                   /\ \/ binary # 0 /\ Proceeds("upload", "binaries", "send")
                      \/ BuilderFails
                   /\ NoAct /\ Rest

\* firmware/upload names the configuration, not the job.
Upload == /\ action.kind = "upload" /\ point = "send"
          /\ \/ /\ Proceeds("upload", "send", "audit") /\ uploaded' = binary
                /\ effects' = TRUE /\ UNCHANGED unanswered
             \/ /\ BuilderFails /\ unanswered' = TRUE
                /\ \/ effects' = TRUE /\ uploaded' = binary
                   \/ UNCHANGED <<effects, uploaded>>
          /\ UNCHANGED <<tried, alone>>
          /\ Rest

\* Others edit the configuration and compile it; the jobs run one by one.
EditSource == /\ source < MaxSources /\ source' = source + 1
              /\ UNCHANGED <<builds, binary, alone>>
Compile == /\ Len(builds) < MaxBuilds
           /\ builds' = Append(builds, "queued")
           /\ alone' = FALSE
           /\ UNCHANGED <<source, binary>>
Build(b) == /\ builds[b] = "queued" /\ \A c \in 1..(b - 1) : builds[c] # "queued"
            /\ \/ builds' = [builds EXCEPT ![b] = "completed"] /\ binary' = b
               \/ builds' = [builds EXCEPT ![b] = "failed"] /\ UNCHANGED binary
            /\ UNCHANGED <<source, alone>>

Others == /\ EditSource \/ Compile \/ \E b \in DOMAIN builds : Build(b)
          /\ UNCHANGED <<action, point, results, answer, report,
                         tried, effects, unanswered, uploaded>>

ActionNext == \/ PrepareRun \/ CallService \/ CallAction \/ PassOn \/ UpdateEntry \/ CallCore
              \/ CallSupervisor \/ CheckRepository \/ Uninstall \/ Audit
              \/ \E b \in DOMAIN builds : InspectJob(b)
              \/ InspectBinaries \/ CheckSource \/ RecheckJob \/ RecheckBinaries \/ Upload
              \/ Others

ActionSpec == ActionInit /\ [][ActionNext]_actionVars
--------------------------------------------------------------------------------
(* A client may act on what it is told: after not_applied everything can   *)
(* be sent again (unless an answer was lost, or a mail refused to be part  *)
(* of a sequence); after partially_applied the failed action is the only   *)
(* one that was tried in vain, all before it are done, and exactly the     *)
(* remaining ones were not called.                                         *)
ReportTruthful ==
    /\ answer = "not_applied" /\ ~unanswered /\ action.kind # "sequence" => ~effects
    /\ answer = "partially_applied" =>
          /\ report.failed = tried /\ tried + report.remaining = action.length
          /\ \A i \in DOMAIN results : results[i] <=> i # report.failed

(* "upload of an existing binary bound to a concrete successful compile    *)
(* job" (operations.v2.yaml:1138): as long as no build was started after   *)
(* that job, what is flashed is what that job built.                       *)
UploadsItsBuild == uploaded # 0 /\ alone => uploaded = action.build

(* "Every action was acked by a blocking service call" (engine.py:151), of *)
(* a sequence whose outcome is applied_verified.                           *)
AllAcked == action.kind = "sequence" /\ answer = "applied_verified" =>
                  \A i \in DOMAIN results : results[i]
================================================================================
