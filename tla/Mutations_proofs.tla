--------------------------- MODULE Mutations_proofs ----------------------------
(***************************************************************************)
(* The runs that act on something outside, for sequences of every length   *)
(* and Device Builders of every history; and the edits of one object, for  *)
(* every number of runs, fields, values and foreign writes.                *)
(***************************************************************************)
EXTENDS ActionRuns, ObjectEdits, FiniteSetTheorems, SequenceTheorems, TLAPS

(***************************************************************************)
(* What a client is told of a run.  The invariant says what has happened   *)
(* when a run waits at a place: no effect before its point of no return,   *)
(* and a sequence has called one action for each of its results; and that  *)
(* the Device Builder finishes its jobs in their order, so that its binary *)
(* is of the last completed.                                               *)
(***************************************************************************)

Before == {"idle", "inspect", "prepared", "uninstall", "recheck", "binaries", "send"}

Phases == /\ answer = "none" <=> point # "done"
          /\ point = "idle" => action = NoJob /\ results = <<>> /\ tried = 0
          /\ point \in Before /\ action.kind # "sequence" => ~effects
          /\ action.kind # "upload" => uploaded = 0

Counted ==
    action.kind = "sequence" =>
           /\ action.length \in Nat /\ results \in Seq(BOOLEAN)
           /\ point = "prepared" => /\ tried = Len(results) /\ Len(results) < action.length
                                    /\ action.stop => \A i \in DOMAIN results : results[i]

\* The jobs of the Device Builder end in the order of their numbers.
InTurn == /\ builds \in Seq({"queued", "completed", "failed"})
          /\ \A c \in DOMAIN builds : builds[c] # "queued" =>
                \A d \in 1..(c - 1) : builds[d] # "queued"

Compiled == /\ Len(builds) > 0 /\ builds[Len(builds)] = "completed"
                => binary = Len(builds)
            /\ action.kind = "upload" /\ alone =>
                     /\ Len(builds) > 0 /\ builds[Len(builds)] = "completed"
                     /\ action.build = Len(builds)

IInv == Phases /\ Counted /\ InTurn /\ Compiled /\ ReportTruthful /\ UploadsItsBuild
--------------------------------------------------------------------------------
LEMMA InitInvariant == ActionInit => IInv
<1> SUFFICES ASSUME ActionInit PROVE IInv
  OBVIOUS
<1> USE DEF ActionInit, NoJob
<1>1. Phases /\ Counted  BY DEF Phases, Counted, Before
<1>2. InTurn /\ Compiled  BY DEF InTurn, Compiled
<1>3. ReportTruthful /\ UploadsItsBuild  BY DEF ReportTruthful, UploadsItsBuild
<1> QED  BY <1>1, <1>2, <1>3 DEF IInv

LEMMA PrepareInvariant == ASSUME IInv, PrepareRun PROVE IInv'
<1>1. /\ point = "idle" /\ point' = "prepared" /\ answer' = answer /\ answer = "none"
      /\ results = <<>> /\ results' = results /\ tried = 0 /\ tried' = tried
      /\ effects' = effects /\ ~effects /\ uploaded = 0 /\ uploaded' = uploaded
      /\ builds' = builds /\ binary' = binary
  BY DEF IInv, Phases, Before, PrepareRun, NoJob, esphome, history
<1>2. /\ action'.kind \in {"service", "sequence", "hacs", "entry", "core", "supervisor"}
      /\ action'.kind = "sequence" => action'.length \in 1..MaxActions
  BY DEF PrepareRun, ServiceJobs, SequenceJobs, RemovalJobs, OtherJobs
<1>3. Phases'  BY <1>1, <1>2 DEF Phases
<1>4. Counted'
  <2>1. action'.kind = "sequence" => action'.length \in Nat /\ 0 < action'.length
    BY <1>2, ActionsAssumption
  <2> QED  BY <1>1, <2>1 DEF Counted
<1>5. InTurn' /\ Compiled'
  BY <1>1, <1>2 DEF IInv, InTurn, Compiled
<1>6. ReportTruthful' /\ UploadsItsBuild'
  BY <1>1 DEF ReportTruthful, UploadsItsBuild
<1> QED  BY <1>3, <1>4, <1>5, <1>6 DEF IInv

(* One action of a sequence.                                               *)
LEMMA CallActionInvariant == ASSUME IInv, CallAction PROVE IInv'
<1> DEFINE index == Len(results) + 1
<1>1. /\ action.kind = "sequence" /\ point = "prepared" /\ action' = action
      /\ tried' = tried + 1 /\ uploaded' = uploaded /\ alone' = alone
      /\ builds' = builds /\ binary' = binary
  BY DEF CallAction, esphome
<1>2. PICK ok \in BOOLEAN :
         /\ results' = Append(results, ok)
         /\ \/ ~ok /\ action.stop
               /\ Reports("partially_applied")
               /\ report' = [failed |-> index, remaining |-> Remaining(index)]
            \/ (ok \/ ~action.stop) /\ index < action.length
               /\ UNCHANGED <<point, answer, report>>
            \/ (ok \/ ~action.stop) /\ index = action.length
               /\ Reports("applied_verified") /\ UNCHANGED report
  BY DEF CallAction
<1>3. /\ action.length \in Nat /\ results \in Seq(BOOLEAN) /\ Len(results) \in Nat
      /\ tried = Len(results) /\ Len(results) < action.length
      /\ action.stop => \A i \in DOMAIN results : results[i]
      /\ answer = "none"
  BY <1>1 DEF IInv, Counted, Phases
<1>4. /\ results' \in Seq(BOOLEAN) /\ Len(results') = index /\ results'[index] = ok
      /\ \A i \in 1..Len(results) : results'[i] = results[i]
      /\ DOMAIN results' = 1..index /\ DOMAIN results = 1..Len(results)
  BY <1>2, <1>3
<1>5. Phases'
  BY <1>1, <1>2, <1>3 DEF IInv, Phases, Reports
<1>6. Counted'
  BY <1>1, <1>2, <1>3, <1>4 DEF Counted, Reports
<1>7. InTurn' /\ Compiled' /\ UploadsItsBuild'
  BY <1>1 DEF IInv, InTurn, Compiled, UploadsItsBuild
<1>8. ReportTruthful'
  <2>1. CASE ~ok /\ action.stop /\ Reports("partially_applied")
               /\ report' = [failed |-> index, remaining |-> Remaining(index)]
    BY <1>1, <1>3, <1>4, <2>1 DEF ReportTruthful, Reports, Remaining
  <2>2. CASE answer' \in {"none", "applied_verified"}
    BY <2>2 DEF ReportTruthful
  <2> QED  BY <1>2, <1>3, <2>1, <2>2 DEF Reports
<1> QED  BY <1>5, <1>6, <1>7, <1>8 DEF IInv

(* What a run does that calls no action of a sequence and starts no        *)
(* upload: it goes on untouched, acts, or ends with an outcome that fits.  *)
Steady == /\ action' = action /\ results' = results /\ report' = report
          /\ builds' = builds /\ binary' = binary /\ alone' = alone
          /\ tried' = tried \/ point' = "done"
          /\ point # "idle" /\ point # "done" /\ point' # "idle"
          /\ action.kind # "sequence" \/ point' = "done"
          /\ answer = "none"
          /\ \/ point' # "done" /\ answer' = "none"
             \/ point' = "done" /\ answer' # "none" /\ answer' # "partially_applied"
          /\ point' \in Before => ~effects'
          /\ answer' = "not_applied" /\ ~unanswered' /\ action.kind # "sequence" => ~effects'

LEMMA SteadyInvariant ==
    ASSUME IInv, Steady,
           uploaded' = uploaded \/ (action.kind = "upload" /\ uploaded' = binary)
    PROVE  IInv'
<1>1. Phases'
  BY DEF IInv, Phases, Steady
<1>2. Counted'
  BY DEF IInv, Counted, Steady
<1>3. InTurn' /\ Compiled'
  BY DEF IInv, InTurn, Compiled, Steady
<1>4. ReportTruthful'
  BY DEF ReportTruthful, Steady
<1>5. UploadsItsBuild'
  BY DEF IInv, UploadsItsBuild, Compiled, Steady
<1> QED  BY <1>1, <1>2, <1>3, <1>4, <1>5 DEF IInv

LEMMA OutsideInvariant ==
    ASSUME IInv, \/ CallService \/ PassOn \/ UpdateEntry \/ CallCore \/ CallSupervisor
                 \/ CheckRepository \/ Uninstall \/ Audit
    PROVE  IInv'
<1>1. /\ answer = "none" <=> point # "done"
      /\ point \in Before /\ action.kind # "sequence" => ~effects
  BY DEF IInv, Phases
<1>2. CASE CallService
  <2>1. Steady /\ uploaded' = uploaded
    BY <1>1, <1>2 DEF CallService, Steady, Before, Proceeds, Reports, Acts, MayAct, NoAct,
           Rest, esphome, history
  <2> QED  BY <2>1, SteadyInvariant
<1>3. CASE UpdateEntry
  <2>1. /\ action.kind = "entry" /\ point = "prepared" /\ point' = "done"
        /\ action' = action /\ results' = results /\ report' = report
        /\ builds' = builds /\ binary' = binary
    BY <1>3 DEF UpdateEntry, Reports, Rest, esphome
  <2>2. tried' = tried /\ uploaded' = uploaded /\ alone' = alone
    BY <1>3 DEF UpdateEntry, Acts, MayAct, NoAct, history
  <2>3. /\ answer' \in {"not_applied", "applied_unverified", "unknown"}
        /\ answer' = "not_applied" => effects' = effects
    BY <1>3 DEF UpdateEntry, Reports, NoAct, history
  <2>4. Steady  BY <1>1, <2>1, <2>2, <2>3 DEF Steady, Before
  <2> QED  BY <2>2, <2>4, SteadyInvariant
<1>4. CASE CallCore
  <2>1. Steady /\ uploaded' = uploaded
    BY <1>1, <1>4 DEF CallCore, Steady, Before, Proceeds, Reports, Acts, MayAct, NoAct,
           Rest, esphome, history
  <2> QED  BY <2>1, SteadyInvariant
<1>5. CASE CallSupervisor
  <2>1. Steady /\ uploaded' = uploaded
    BY <1>1, <1>5 DEF CallSupervisor, Steady, Before, Proceeds, Reports, Acts, MayAct, NoAct,
           Rest, esphome, history
  <2> QED  BY <2>1, SteadyInvariant
<1>6. CASE CheckRepository
  <2>1. Steady /\ uploaded' = uploaded
    BY <1>1, <1>6 DEF CheckRepository, Steady, Before, Proceeds, Reports, Acts, MayAct, NoAct,
           Rest, esphome, history
  <2> QED  BY <2>1, SteadyInvariant
<1>7. CASE Uninstall
  <2>1. Steady /\ uploaded' = uploaded
    BY <1>1, <1>7 DEF Uninstall, Steady, Before, Proceeds, Reports, Acts, MayAct, NoAct,
           Rest, esphome, history
  <2> QED  BY <2>1, SteadyInvariant
<1>8. CASE Audit
  <2>1. Steady /\ uploaded' = uploaded
    BY <1>1, <1>8 DEF Audit, Steady, Before, Proceeds, Reports, Acts, MayAct, NoAct,
           Rest, esphome, history
  <2> QED  BY <2>1, SteadyInvariant
<1>9. CASE PassOn
  <2>1. Steady /\ uploaded' = uploaded
    BY <1>1, <1>9 DEF PassOn, Steady, Before, Reports, Rest, esphome
  <2> QED  BY <2>1, SteadyInvariant
<1> QED  BY <1>2, <1>3, <1>4, <1>5, <1>6, <1>7, <1>8, <1>9

LEMMA PreflightInvariant ==
    ASSUME IInv, CheckSource \/ RecheckJob \/ RecheckBinaries \/ Upload
    PROVE  IInv'
<1>1. /\ answer = "none" <=> point # "done"
      /\ point \in Before /\ action.kind # "sequence" => ~effects
  BY DEF IInv, Phases
<1>2. CASE CheckSource
  <2>1. Steady /\ (uploaded' = uploaded \/ (action.kind = "upload" /\ uploaded' = binary))
    BY <1>1, <1>2 DEF CheckSource, Steady, Before, Proceeds, Reports, NoAct, Rest,
                     esphome, history
  <2> QED  BY <2>1, SteadyInvariant
<1>3. CASE RecheckJob
  <2>1. Steady /\ (uploaded' = uploaded \/ (action.kind = "upload" /\ uploaded' = binary))
    BY <1>1, <1>3 DEF RecheckJob, BuilderFails, Steady, Before, Proceeds, Reports, NoAct,
           Rest, esphome, history
  <2> QED  BY <2>1, SteadyInvariant
<1>4. CASE RecheckBinaries
  <2>1. Steady /\ (uploaded' = uploaded \/ (action.kind = "upload" /\ uploaded' = binary))
    BY <1>1, <1>4 DEF RecheckBinaries, BuilderFails, Steady, Before, Proceeds, Reports, NoAct,
           Rest, esphome, history
  <2> QED  BY <2>1, SteadyInvariant
<1>5. CASE Upload
  <2>1. Steady /\ (uploaded' = uploaded \/ (action.kind = "upload" /\ uploaded' = binary))
    BY <1>1, <1>5 DEF Upload, BuilderFails, Steady, Before, Proceeds, Reports, NoAct,
           Rest, esphome, history
  <2> QED  BY <2>1, SteadyInvariant
<1> QED  BY <1>2, <1>3, <1>4, <1>5

(* The preparation of an upload, in two questions to the Device Builder.   *)
LEMMA InspectInvariant ==
    ASSUME IInv, InspectBinaries \/ \E b \in DOMAIN builds : InspectJob(b)
    PROVE  IInv'
<1>1. CASE InspectBinaries
  <2>1. /\ action.kind = "upload" /\ action' = [action EXCEPT !.source = source]
        /\ point = "inspect" /\ point' = "prepared" /\ answer' = answer
        /\ results' = results /\ report' = report /\ builds' = builds
        /\ binary' = binary /\ tried' = tried /\ effects' = effects
        /\ uploaded' = uploaded /\ alone' = alone /\ unanswered' = unanswered
    BY <1>1 DEF InspectBinaries, Proceeds, esphome, history
  <2>2. action'.kind = "upload" /\ action'.build = action.build
    BY <2>1
  <2>3. Phases'  BY <2>1, <2>2 DEF IInv, Phases, Before
  <2>4. Counted' /\ InTurn' /\ Compiled'
    BY <2>1, <2>2 DEF IInv, Counted, InTurn, Compiled
  <2>5. ReportTruthful' /\ UploadsItsBuild'
    BY <2>1, <2>2 DEF IInv, Phases, ReportTruthful, UploadsItsBuild
  <2> QED  BY <2>3, <2>4, <2>5 DEF IInv
<1>2. ASSUME NEW b \in DOMAIN builds, InspectJob(b) PROVE IInv'
  <2>1. /\ point = "idle" /\ point' = "inspect" /\ builds[b] = "completed"
        /\ action'.kind = "upload" /\ action'.build = b
        /\ results' = results /\ report' = report /\ builds' = builds
        /\ binary' = binary /\ tried' = tried /\ effects' = effects
        /\ uploaded' = uploaded /\ unanswered' = unanswered /\ answer' = answer
    BY <1>2 DEF InspectJob, Ready, esphome
  <2>2. ~effects /\ uploaded = 0 /\ answer = "none"
    BY <2>1 DEF IInv, Phases, Before, NoJob
  <2>3. Phases'  BY <2>1, <2>2 DEF Phases
  <2>4. Counted' /\ InTurn'  BY <2>1 DEF IInv, Counted, InTurn
  <2>5. Compiled'
    <3>1. Len(builds) \in Nat /\ b \in 1..Len(builds)  BY DEF IInv, InTurn
    <3>2. alone' => b = Len(builds)  BY <1>2 DEF InspectJob
    <3> QED  BY <2>1, <3>1, <3>2 DEF IInv, Compiled
  <2>6. ReportTruthful' /\ UploadsItsBuild'
    BY <2>1, <2>2 DEF ReportTruthful, UploadsItsBuild
  <2> QED  BY <2>3, <2>4, <2>5, <2>6 DEF IInv
<1> QED  BY <1>1, <1>2

(* The others start builds and finish them, one after the other.           *)
LEMMA OthersInvariant == ASSUME IInv, Others PROVE IInv'
<1>1. /\ action' = action /\ point' = point /\ results' = results /\ answer' = answer
      /\ report' = report /\ tried' = tried /\ effects' = effects
      /\ unanswered' = unanswered /\ uploaded' = uploaded /\ (alone' => alone)
  BY DEF Others, EditSource, Compile, Build
<1>2. Phases' /\ Counted' /\ ReportTruthful' /\ UploadsItsBuild'
  BY <1>1 DEF IInv, Phases, Counted, ReportTruthful, UploadsItsBuild
<1>3. builds \in Seq({"queued", "completed", "failed"}) /\ Len(builds) \in Nat
  BY DEF IInv, InTurn
<1>4. CASE EditSource
  BY <1>1, <1>2, <1>4 DEF IInv, InTurn, Compiled, EditSource
<1>5. CASE Compile
  <2>1. /\ builds' \in Seq({"queued", "completed", "failed"})
        /\ Len(builds') = Len(builds) + 1 /\ builds'[Len(builds) + 1] = "queued"
        /\ \A c \in 1..Len(builds) : builds'[c] = builds[c]
        /\ ~alone'
    BY <1>3, <1>5 DEF Compile
  <2>2. InTurn'
    BY <1>3, <2>1 DEF IInv, InTurn
  <2>3. Compiled'
    BY <1>1, <1>3, <2>1 DEF Compiled
  <2> QED  BY <1>2, <2>2, <2>3 DEF IInv
<1>6. ASSUME NEW b \in DOMAIN builds, Build(b) PROVE IInv'
  <2>1. /\ builds[b] = "queued" /\ \A c \in 1..(b - 1) : builds[c] # "queued"
        /\ b \in 1..Len(builds)
    BY <1>3, <1>6 DEF Build
  <2>2. PICK s \in {"completed", "failed"} :
           /\ builds' = [builds EXCEPT ![b] = s]
           /\ \/ s = "completed" /\ binary' = b
              \/ s = "failed" /\ binary' = binary
    BY <1>6 DEF Build
  <2>3. /\ builds' \in Seq({"queued", "completed", "failed"})
        /\ Len(builds') = Len(builds) /\ builds'[b] = s
        /\ \A c \in 1..Len(builds) : c # b => builds'[c] = builds[c]
    BY <1>3, <2>1, <2>2
  <2>4. InTurn'
    BY <1>3, <2>1, <2>3 DEF IInv, InTurn
  <2>5. Compiled'
    <3>1. CASE b = Len(builds)
      BY <1>1, <1>3, <2>1, <2>2, <2>3, <3>1 DEF IInv, Compiled
    <3>2. CASE b # Len(builds)
      <4>1. builds[Len(builds)] = "queued"
        BY <1>3, <2>1, <3>2 DEF IInv, InTurn
      <4> QED  BY <1>1, <1>3, <2>1, <2>3, <3>2, <4>1 DEF IInv, Compiled
    <3> QED  BY <3>1, <3>2
  <2> QED  BY <1>2, <2>4, <2>5 DEF IInv
<1> QED  BY <1>4, <1>5, <1>6 DEF Others

(* The inductive invariant of the runs.                                    *)
LEMMA Invariant == ActionSpec => []IInv
<1>1. IInv /\ [ActionNext]_actionVars => IInv'
  <2> SUFFICES ASSUME IInv, [ActionNext]_actionVars PROVE IInv'
    OBVIOUS
  <2>1. CASE PrepareRun  BY <2>1, PrepareInvariant
  <2>2. CASE CallAction  BY <2>2, CallActionInvariant
  <2>3. CASE \/ CallService \/ PassOn \/ UpdateEntry \/ CallCore \/ CallSupervisor
             \/ CheckRepository \/ Uninstall \/ Audit
    BY <2>3, OutsideInvariant
  <2>4. CASE InspectBinaries \/ \E b \in DOMAIN builds : InspectJob(b)
    BY <2>4, InspectInvariant
  <2>5. CASE CheckSource \/ RecheckJob \/ RecheckBinaries \/ Upload
    BY <2>5, PreflightInvariant
  <2>6. CASE Others  BY <2>6, OthersInvariant
  <2>7. CASE UNCHANGED actionVars
    BY <2>7 DEF IInv, Phases, Counted, InTurn, Compiled, ReportTruthful,
                UploadsItsBuild, actionVars, esphome, history
  <2> QED  BY <2>1, <2>2, <2>3, <2>4, <2>5, <2>6, <2>7 DEF ActionNext
<1> QED  BY InitInvariant, <1>1, PTL DEF ActionSpec

(* What a client is told of a failed run is true, for every sequence.      *)
THEOREM TellsTheTruth == ActionSpec => []ReportTruthful
<1>1. IInv => ReportTruthful  BY DEF IInv
<1> QED  BY Invariant, <1>1, PTL

(* An upload flashes what its compile job built, if it was the last one.   *)
THEOREM FlashesItsBuild == ActionSpec => []UploadsItsBuild
<1>1. IInv => UploadsItsBuild  BY DEF IInv
<1> QED  BY Invariant, <1>1, PTL
--------------------------------------------------------------------------------
(***************************************************************************)
(* A run that edits an object is a sequence of awaits during which anybody *)
(* may write, so what it knows of the object holds only as long as it is   *)
(* undisturbed; the inductive invariant says, place by place, what that    *)
(* is, which kinds of run come to the place, and what the run started from.*)
(***************************************************************************)

Outcomes == Succeeded \cup {"not_applied", "unknown"}
AllKinds == {"dashboard", "replace", "registry", "update", "delete", "create", "clone",
             "file"}
Jobs == [kind : AllKinds, change : Changes]
Objects == Contents \cup {Absent}

\* TypeOK, with the shape of every function.
EditTypes ==
    /\ family \in Families /\ content \in Objects
    /\ at \in [Applies -> Places]
    /\ job \in [Applies -> Jobs \cup [kind : {None}]]
    /\ before \in [Applies -> Objects] /\ seen \in [Applies -> Objects]
    /\ cause \in [Applies -> {None, "not_applied", "unknown"}]
    /\ outcome \in [Applies -> Outcomes \cup {None}]
    /\ disturbed \in [Applies -> BOOLEAN] /\ faulty \in [Applies -> BOOLEAN]
    /\ wrote \in [Applies -> BOOLEAN] /\ lost \in [Applies -> BOOLEAN]
    /\ edits \in Nat
    /\ \A a \in Applies : at[a] # "idle" => job[a] \in Jobs /\ Kind(a) \in Kinds[family]
    /\ \A a \in Applies : at[a] = "done" <=> outcome[a] \in Outcomes

\* Which places a run of each kind comes to.
Route(a) ==
    /\ Kind(a) \in {"create", "clone"} <=> before[a] = Absent
    /\ at[a] = "backup" => Kind(a) \notin {"create", "clone", "replace"}
    /\ at[a] = "write" => Kind(a) # "replace"
    /\ at[a] = "replace" => Kind(a) = "file"
    /\ at[a] = "filling" => Kind(a) = "clone"
    /\ at[a] = "verify" => Kind(a) \notin {"registry", "replace"}
    /\ at[a] = "undo" => /\ Kind(a) \in {"clone", "file"}
                         /\ Kind(a) = "file" => cause[a] \in {"not_applied", "unknown"}

Routed == \A a \in Applies : at[a] # "idle" => Route(a)

\* A run that is past its digest check started from what the client had read.  Only
\* a file is read before the check: it has that content, or somebody else wrote.
Start(a) ==
    /\ Underway(a) /\ Kind(a) # "file" => seen[a] = before[a]
    /\ at[a] \in {"replace", "verify"} => seen[a] = before[a] \/ disturbed[a]
    /\ at[a] = "done" /\ outcome[a] \in Succeeded =>
          seen[a] = before[a] \/ (Kind(a) = "file" /\ disturbed[a])

Started == \A a \in Applies : Start(a)

\* As long as nobody else wrote, the object is what the run found or has written.
Calm(a) == ~disturbed[a] => /\ at[a] \in {"backup", "write", "replace"} => content = seen[a]
                            /\ at[a] = "verify" => content = After(a)

Undisturbed == \A a \in Applies : Calm(a)

EditsInv == EditTypes /\ Routed /\ Started /\ Undisturbed
--------------------------------------------------------------------------------
(* An object that is there has a field, so it is not the absent one.       *)
LEMMA PresentIsNotAbsent == \A c \in Contents : c # Absent
<1> SUFFICES ASSUME NEW c \in Contents, c = Absent PROVE FALSE
  OBVIOUS
<1>1. DOMAIN c = Fields /\ Fields # {}  BY ChangesAssumption DEF Contents
<1>2. DOMAIN Absent = {}  BY DEF Absent
<1> QED  BY <1>1, <1>2

(* A change sets fields that objects have, to values that they may have.   *)
LEMMA ChangeFits ==
    ASSUME NEW c \in Changes
    PROVE  DOMAIN c \subseteq Fields /\ \A f \in DOMAIN c : c[f] \in Values
<1>1. PICK S \in SUBSET Fields : c \in [S -> Values]  BY ChangesAssumption
<1> QED  BY <1>1

LEMMA MergeFits ==
    ASSUME NEW c \in Contents, NEW change \in Changes
    PROVE  /\ Merge(c, change) \in Contents
           /\ \A f \in Fields : Merge(c, change)[f] =
                 IF f \in DOMAIN change THEN change[f] ELSE c[f]
<1>1. \A f \in Fields : c[f] \in Values  BY DEF Contents
<1>2. \A f \in Fields : (IF f \in DOMAIN change THEN change[f] ELSE c[f]) \in Values
  BY <1>1, ChangeFits
<1> QED  BY <1>2 DEF Merge, Contents

LEMMA DefaultFits == Default \in Contents
<1>1. (CHOOSE v \in Values : TRUE) \in Values  BY ChangesAssumption
<1> QED  BY <1>1 DEF Default, Contents

(* What was prepared is absent for a deletion only.                        *)
LEMMA AfterFits ==
    ASSUME EditTypes, NEW a \in Applies, at[a] # "idle", Route(a)
    PROVE  IF Kind(a) = "delete" THEN After(a) = Absent ELSE After(a) \in Contents
<1>1. job[a].change \in Changes  BY DEF EditTypes, Jobs
<1>2. CASE Kind(a) = "delete"  BY <1>2 DEF After
<1>3. CASE Kind(a) \in {"create", "clone"}
  BY <1>1, <1>3, DefaultFits, MergeFits DEF After
<1>4. CASE Kind(a) \notin {"delete", "create", "clone"}
  <2>1. before[a] \in Contents  BY <1>4 DEF EditTypes, Objects, Route
  <2> QED  BY <1>1, <1>4, <2>1, MergeFits DEF After
<1> QED  BY <1>2, <1>3, <1>4
--------------------------------------------------------------------------------
(***************************************************************************)
(* The shape of a step: run a moves, writes the object or leaves it, and   *)
(* touches nothing of another run but its peace.                           *)
(***************************************************************************)
OthersStay(a) ==
    /\ UNCHANGED <<family, job, before, edits>>
    /\ \A b \in Applies \ {a} :
          /\ at'[b] = at[b] /\ seen'[b] = seen[b] /\ cause'[b] = cause[b]
          /\ outcome'[b] = outcome[b] /\ wrote'[b] = wrote[b]
          /\ content' # content /\ Underway(b) => disturbed'[b]
          /\ disturbed[b] => disturbed'[b]
    /\ disturbed'[a] = disturbed[a]

LEMMA PutsFrame ==
    ASSUME EditTypes, NEW a \in Applies, NEW new, NEW undoing \in BOOLEAN, Puts(a, new, undoing)
    PROVE  /\ content' = new /\ disturbed'[a] = disturbed[a] /\ wrote'[a] = ~undoing
           /\ disturbed' \in [Applies -> BOOLEAN]
           /\ wrote' \in [Applies -> BOOLEAN] /\ lost' \in [Applies -> BOOLEAN]
           /\ \A b \in Applies \ {a} : /\ wrote'[b] = wrote[b]
                                       /\ disturbed'[b] = (disturbed[b] \/ Underway(b))
<1>1. \A b \in Applies : (disturbed[b] \/ (b # a /\ Underway(b))) \in BOOLEAN
  OBVIOUS
<1>2. disturbed' \in [Applies -> BOOLEAN]  BY <1>1, Zenon DEF Puts
<1>3. \A b \in Applies : disturbed'[b] = (disturbed[b] \/ (b # a /\ Underway(b)))
  BY Zenon DEF Puts
<1>4. disturbed[a] \in BOOLEAN  BY DEF EditTypes
<1>5. disturbed'[a] = disturbed[a]  BY <1>3, <1>4
<1>6. \A b \in Applies \ {a} : disturbed'[b] = (disturbed[b] \/ Underway(b))
  BY <1>3
<1>7. wrote' = [wrote EXCEPT ![a] = ~undoing] /\ content' = new  BY DEF Puts
<1>8. /\ wrote'[a] = ~undoing /\ wrote' \in [Applies -> BOOLEAN]
      /\ \A b \in Applies \ {a} : wrote'[b] = wrote[b]
  BY <1>7 DEF EditTypes
<1>9. (lost[a] \/ (undoing /\ content \notin {seen[a], After(a)})) \in BOOLEAN
  OBVIOUS
<1>10. lost' = [lost EXCEPT ![a] = lost[a] \/ (undoing /\ content \notin {seen[a], After(a)})]
  BY DEF Puts
<1>11. lost' \in [Applies -> BOOLEAN]  BY <1>9, <1>10, Zenon DEF EditTypes
<1> QED  BY <1>2, <1>5, <1>6, <1>7, <1>8, <1>11

\* What no step but the one of run a itself changes.
Framed(a) == /\ UNCHANGED <<family, job, before, edits>>
             /\ content' \in Objects
             /\ seen' \in [Applies -> Objects]
             /\ cause' \in [Applies -> {None, "not_applied", "unknown"}]
             /\ faulty' \in [Applies -> BOOLEAN] /\ disturbed' \in [Applies -> BOOLEAN]
             /\ wrote' \in [Applies -> BOOLEAN] /\ lost' \in [Applies -> BOOLEAN]

LEMMA GoesTyped ==
    ASSUME EditTypes, NEW a \in Applies, Framed(a), at[a] \notin {"idle", "done"},
           NEW p \in Places \ {"idle", "done"}, at' = [at EXCEPT ![a] = p], outcome' = outcome
    PROVE  EditTypes' /\ at'[a] = p
BY DEF EditTypes, Framed, Kind

LEMMA EndsTyped ==
    ASSUME EditTypes, NEW a \in Applies, Framed(a), at[a] # "idle",
           NEW o \in Outcomes, Ends(a, o)
    PROVE  EditTypes' /\ at'[a] = "done" /\ outcome'[a] = o
<1>1. at' = [at EXCEPT ![a] = "done"] /\ outcome' = [outcome EXCEPT ![a] = o]
  BY DEF Ends
<1>2. "done" \in Places  BY DEF Places
<1> QED  BY <1>1, <1>2 DEF EditTypes, Framed, Kind

(* What a step leaves to the other runs, when it leaves the object.        *)
LEMMA QuietOthers ==
    ASSUME EditTypes, NEW a \in Applies,
           UNCHANGED <<family, job, before, edits, content, disturbed, wrote>>,
           NEW p, at' = [at EXCEPT ![a] = p],
           \/ UNCHANGED outcome \/ \E o : outcome' = [outcome EXCEPT ![a] = o],
           UNCHANGED seen \/ \E o : seen' = [seen EXCEPT ![a] = o],
           UNCHANGED cause \/ \E o : cause' = [cause EXCEPT ![a] = o]
    PROVE  OthersStay(a)
<1>1. \A b \in Applies \ {a} : /\ at'[b] = at[b] /\ outcome'[b] = outcome[b]
                               /\ seen'[b] = seen[b] /\ cause'[b] = cause[b]
  BY DEF EditTypes
<1> QED  BY <1>1 DEF OthersStay

(* And when it writes it.                                                  *)
LEMMA PutsOthers ==
    ASSUME EditTypes, NEW a \in Applies, NEW new, NEW undoing \in BOOLEAN,
           Puts(a, new, undoing), UNCHANGED <<family, job, before, edits>>,
           NEW p, at' = [at EXCEPT ![a] = p],
           \/ UNCHANGED outcome \/ \E o : outcome' = [outcome EXCEPT ![a] = o],
           UNCHANGED seen \/ \E o : seen' = [seen EXCEPT ![a] = o],
           UNCHANGED cause
    PROVE  OthersStay(a)
<1>1. \A b \in Applies \ {a} : /\ at'[b] = at[b] /\ outcome'[b] = outcome[b]
                               /\ seen'[b] = seen[b] /\ cause'[b] = cause[b]
  BY DEF EditTypes
<1> QED  BY <1>1, PutsFrame DEF OthersStay
--------------------------------------------------------------------------------
(***************************************************************************)
(* One lemma for each step of a run: what it keeps of the run's own part   *)
(* of the invariant, and that it leaves the others theirs.                 *)
(***************************************************************************)
Own(a) == EditTypes' /\ OthersStay(a) /\ Route(a)' /\ Start(a)' /\ Calm(a)'

LEMMA CheckOwn == ASSUME EditsInv, NEW a \in Applies, Check(a) PROVE Own(a)
<1> USE DEF EditsInv
<1>1. /\ at[a] = "prepared" /\ Kind(a) \notin {"file", "replace"}
      /\ seen' = [seen EXCEPT ![a] = content] /\ Route(a)
      /\ UNCHANGED <<family, content, job, before, cause, disturbed, faulty, wrote, lost, edits>>
  BY DEF Check, past, Routed
<1>2. Framed(a) /\ seen'[a] = content  BY <1>1 DEF Framed, EditTypes
<1>3. CASE Matches(a) /\ UNCHANGED outcome
             /\ at' = [at EXCEPT ![a] =
                         IF Kind(a) \in {"create", "clone"} THEN "write" ELSE "backup"]
  <2> DEFINE place == IF Kind(a) \in {"create", "clone"} THEN "write" ELSE "backup"
  <2>1. place \in Places \ {"idle", "done"}  BY DEF Places
  <2>2. at' = [at EXCEPT ![a] = place]  BY <1>3
  <2>3. EditTypes' /\ at'[a] = place
    <3> HIDE DEF place
    <3> QED  BY <1>1, <1>2, <1>3, <2>1, <2>2, GoesTyped
  <2>4. OthersStay(a)  BY <1>1, <1>3, QuietOthers
  <2>5. content' = seen'[a] /\ seen'[a] = before'[a]
    BY <1>1, <1>2, <1>3 DEF Matches
  <2>6. Route(a)' /\ Start(a)' /\ Calm(a)'
    BY <1>1, <2>3, <2>5 DEF Route, Start, Calm, Kind, Underway
  <2> QED  BY <2>3, <2>4, <2>6 DEF Own
<1>4. CASE Ends(a, "not_applied")
  <2>1. EditTypes' /\ at'[a] = "done" /\ outcome'[a] = "not_applied"
    BY <1>1, <1>2, <1>4, EndsTyped DEF Outcomes
  <2>2. OthersStay(a)  BY <1>1, <1>4, QuietOthers DEF Ends
  <2>3. Route(a)' /\ Start(a)' /\ Calm(a)'
    BY <1>1, <2>1 DEF Route, Start, Calm, Kind, Underway, Succeeded
  <2> QED  BY <2>1, <2>2, <2>3 DEF Own
<1> QED  BY <1>3, <1>4 DEF Check

LEMMA ReplaceDashboardOwn ==
    ASSUME EditsInv, NEW a \in Applies, ReplaceDashboard(a) PROVE Own(a)
<1> USE DEF EditsInv
<1>1. /\ at[a] = "prepared" /\ Kind(a) = "replace" /\ Route(a)
      /\ seen' = [seen EXCEPT ![a] = content]
      /\ UNCHANGED <<family, job, before, cause, faulty, edits>>
  BY DEF ReplaceDashboard, Routed
<1>2. seen'[a] = content /\ seen' \in [Applies -> Objects]  BY <1>1 DEF EditTypes
<1>3. ASSUME NEW o \in Outcomes, Ends(a, o), Framed(a), o \in Succeeded => content = before[a],
             OthersStay(a)
      PROVE  Own(a)
  <2>1. EditTypes' /\ at'[a] = "done" /\ outcome'[a] = o
    BY <1>1, <1>3, EndsTyped
  <2>2. Route(a)' /\ Start(a)' /\ Calm(a)'
    BY <1>1, <1>2, <1>3, <2>1 DEF Route, Start, Calm, Kind, Underway
  <2> QED  BY <1>3, <2>1, <2>2 DEF Own
<1>4. CASE Matches(a) /\ Puts(a, After(a), FALSE) /\ Ends(a, "applied_unverified")
  <2>1. After(a) \in Objects  BY <1>1, AfterFits DEF Objects
  <2>2. Framed(a)
    <3>1. /\ content' = After(a) /\ disturbed' \in [Applies -> BOOLEAN]
          /\ wrote' \in [Applies -> BOOLEAN] /\ lost' \in [Applies -> BOOLEAN]
      BY <1>4, PutsFrame
    <3> QED  BY <1>1, <1>2, <2>1, <3>1 DEF Framed, EditTypes
  <2>3. OthersStay(a)  BY <1>1, <1>4, PutsOthers DEF Ends
  <2> QED  BY <1>3, <1>4, <2>2, <2>3 DEF Matches, Outcomes, Succeeded
<1>5. CASE Keeps /\ Ends(a, "not_applied")
  <2>1. Framed(a)  BY <1>1, <1>2, <1>5 DEF Framed, EditTypes, Keeps
  <2>2. OthersStay(a)  BY <1>1, <1>5, QuietOthers DEF Ends, Keeps
  <2> QED  BY <1>3, <1>5, <2>1, <2>2 DEF Outcomes, Succeeded
<1> QED  BY <1>4, <1>5 DEF ReplaceDashboard

LEMMA ReadFileOwn == ASSUME EditsInv, NEW a \in Applies, ReadFile(a) PROVE Own(a)
<1> USE DEF EditsInv
<1>1. /\ at[a] = "prepared" /\ Kind(a) = "file" /\ Route(a)
      /\ at' = [at EXCEPT ![a] = "backup"] /\ seen' = [seen EXCEPT ![a] = content]
      /\ UNCHANGED <<family, content, job, before, cause, outcome, disturbed, faulty,
                     wrote, lost, edits>>
  BY DEF ReadFile, Goes, past, Routed
<1>2. Framed(a) /\ seen'[a] = content  BY <1>1 DEF Framed, EditTypes
<1>3. EditTypes' /\ at'[a] = "backup"  BY <1>1, <1>2, GoesTyped DEF Places
<1>4. OthersStay(a)  BY <1>1, QuietOthers
<1>5. Route(a)' /\ Start(a)' /\ Calm(a)'
  BY <1>1, <1>2, <1>3 DEF Route, Start, Calm, Kind, Underway
<1> QED  BY <1>3, <1>4, <1>5 DEF Own

\* A step that leaves the object and what the run found, and goes to its end without
\* success.
LEMMA FailOwn ==
    ASSUME EditsInv, NEW a \in Applies, at[a] # "idle", Keeps,
           UNCHANGED <<family, job, before, seen, edits>>,
           UNCHANGED cause \/ \E o : cause' = [cause EXCEPT ![a] = o],
           cause' \in [Applies -> {None, "not_applied", "unknown"}],
           faulty' \in [Applies -> BOOLEAN],
           NEW o \in {"not_applied", "unknown"}, Ends(a, o)
    PROVE  Own(a)
<1> USE DEF EditsInv
<1>1. Framed(a)  BY DEF Framed, EditTypes, Keeps
<1>2. EditTypes' /\ at'[a] = "done" /\ outcome'[a] = o
  BY <1>1, EndsTyped DEF Outcomes
<1>3. OthersStay(a)  BY QuietOthers DEF Ends, Keeps
<1>4. Route(a)  BY DEF Routed
<1>5. Route(a)' /\ Start(a)' /\ Calm(a)'
  BY <1>2, <1>4 DEF Route, Start, Calm, Kind, Underway, Succeeded
<1> QED  BY <1>2, <1>3, <1>5 DEF Own

LEMMA BackupOwn == ASSUME EditsInv, NEW a \in Applies, Backup(a) PROVE Own(a)
<1> USE DEF EditsInv
<1>1. /\ at[a] = "backup" /\ Route(a) /\ Start(a) /\ Calm(a)
      /\ UNCHANGED <<family, content, job, before, seen, cause, disturbed, faulty, wrote,
                     lost, edits>>
  BY DEF Backup, past, Routed, Started, Undisturbed
<1>2. CASE at' = [at EXCEPT ![a] = "write"] /\ UNCHANGED outcome
  <2>1. Framed(a)  BY <1>1 DEF Framed, EditTypes
  <2>2. EditTypes' /\ at'[a] = "write"  BY <1>1, <1>2, <2>1, GoesTyped DEF Places
  <2>3. OthersStay(a)  BY <1>1, <1>2, QuietOthers
  <2>4. Route(a)' /\ Start(a)' /\ Calm(a)'
    BY <1>1, <2>2 DEF Route, Start, Calm, Kind, Underway
  <2> QED  BY <2>2, <2>3, <2>4 DEF Own
<1>3. CASE Ends(a, "unknown")
  BY <1>1, <1>3, FailOwn DEF Keeps, EditTypes
<1> QED  BY <1>2, <1>3 DEF Backup, Goes

\* A step that writes the object without an end, or with success.
LEMMA PutsFramed ==
    ASSUME EditTypes, NEW a \in Applies, NEW new \in Objects, NEW undoing \in BOOLEAN,
           Puts(a, new, undoing), UNCHANGED <<family, job, before, seen, cause, edits>>,
           faulty' \in [Applies -> BOOLEAN]
    PROVE  Framed(a) /\ content' = new /\ disturbed'[a] = disturbed[a] /\ wrote'[a] = ~undoing
<1>1. /\ content' = new /\ disturbed'[a] = disturbed[a] /\ wrote'[a] = ~undoing
      /\ disturbed' \in [Applies -> BOOLEAN]
      /\ wrote' \in [Applies -> BOOLEAN] /\ lost' \in [Applies -> BOOLEAN]
  BY PutsFrame
<1> QED  BY <1>1 DEF Framed, EditTypes

LEMMA WriteOwn ==
    ASSUME EditsInv, NEW a \in Applies, NEW new \in Objects, Puts(a, new, FALSE),
           UNCHANGED <<family, job, before, seen, cause, edits, outcome>>,
           faulty' \in [Applies -> BOOLEAN], at[a] \in {"write", "replace", "filling"},
           NEW p \in {"verify", "filling"}, at' = [at EXCEPT ![a] = p],
           p = "verify" => new = After(a) /\ Kind(a) # "registry",
           p = "filling" => Kind(a) = "clone",
           Kind(a) = "file" => at[a] = "replace"
    PROVE  Own(a)
<1> USE DEF EditsInv
<1>1. Route(a) /\ Start(a) /\ Calm(a)  BY DEF Routed, Started, Undisturbed
<1>2. Framed(a) /\ content' = new /\ disturbed'[a] = disturbed[a]  BY PutsFramed
<1>3. EditTypes' /\ at'[a] = p  BY <1>2, GoesTyped DEF Places
<1>4. OthersStay(a)  BY PutsOthers
<1>5. After(a)' = After(a)  BY DEF After, Kind
<1>6. seen'[a] = seen[a] /\ before'[a] = before[a] /\ Kind(a)' = Kind(a)  BY DEF Kind
<1>7. Route(a)'  BY <1>1, <1>3, <1>6 DEF Route
<1>8. Start(a)'  BY <1>1, <1>2, <1>3, <1>6 DEF Start, Underway
<1>9. Calm(a)'  BY <1>2, <1>3, <1>5 DEF Calm
<1> QED  BY <1>3, <1>4, <1>7, <1>8, <1>9 DEF Own

LEMMA WriteEndsOwn ==
    ASSUME EditsInv, NEW a \in Applies, NEW new \in Objects, NEW undoing \in BOOLEAN,
           Puts(a, new, undoing),
           UNCHANGED <<family, job, before, seen, cause, edits>>,
           faulty' \in [Applies -> BOOLEAN], at[a] # "idle",
           NEW o \in Outcomes, Ends(a, o), o \in Succeeded => seen[a] = before[a]
    PROVE  Own(a)
<1> USE DEF EditsInv
<1>1. Route(a)  BY DEF Routed
<1>2. Framed(a) /\ content' = new /\ disturbed'[a] = disturbed[a]  BY PutsFramed
<1>3. EditTypes' /\ at'[a] = "done" /\ outcome'[a] = o  BY <1>2, EndsTyped
<1>4. OthersStay(a)  BY PutsOthers DEF Ends
<1>5. seen'[a] = seen[a] /\ before'[a] = before[a] /\ Kind(a)' = Kind(a)  BY DEF Kind
<1>6. Route(a)' /\ Start(a)' /\ Calm(a)'
  BY <1>1, <1>3, <1>5 DEF Route, Start, Calm, Underway
<1> QED  BY <1>3, <1>4, <1>6 DEF Own

LEMMA SaveDashboardOwn ==
    ASSUME EditsInv, NEW a \in Applies, SaveDashboard(a) PROVE Own(a)
<1> USE DEF EditsInv
<1>1. /\ at[a] = "write" /\ Kind(a) = "dashboard" /\ Route(a)
      /\ UNCHANGED <<family, job, before, seen, cause, faulty, edits>>
  BY DEF SaveDashboard, Routed
<1>2. After(a) \in Objects /\ faulty \in [Applies -> BOOLEAN]
      /\ cause \in [Applies -> {None, "not_applied", "unknown"}]
  BY <1>1, AfterFits DEF Objects, EditTypes
<1>3. CASE Puts(a, After(a), FALSE) /\ UNCHANGED outcome /\ at' = [at EXCEPT ![a] = "verify"]
  BY <1>1, <1>2, <1>3, WriteOwn
<1>4. CASE Ends(a, "not_applied") /\ Keeps  BY <1>1, <1>2, <1>4, FailOwn
<1> QED  BY <1>3, <1>4 DEF SaveDashboard, Goes

LEMMA UpdateRegistryOwn ==
    ASSUME EditsInv, NEW a \in Applies, UpdateRegistry(a) PROVE Own(a)
<1> USE DEF EditsInv
<1>1. /\ at[a] = "write" /\ Kind(a) = "registry" /\ Start(a) /\ job[a] \in Jobs
      /\ UNCHANGED <<family, job, before, seen, cause, faulty, edits>>
  BY DEF UpdateRegistry, Started, EditTypes
<1>2. faulty \in [Applies -> BOOLEAN] /\ seen[a] = before[a]
      /\ cause \in [Applies -> {None, "not_applied", "unknown"}]
  BY <1>1 DEF Start, Underway, EditTypes
<1>3. CASE content # Absent /\ Puts(a, Merge(content, job[a].change), FALSE)
             /\ Ends(a, "applied_unverified")
  <2>1. content \in Contents /\ job[a].change \in Changes
    BY <1>1, <1>3 DEF EditTypes, Objects, Jobs
  <2>2. Merge(content, job[a].change) \in Objects  BY <2>1, MergeFits DEF Objects
  <2> QED  BY <1>1, <1>2, <1>3, <2>2, WriteEndsOwn DEF Outcomes, Succeeded
<1>4. CASE Keeps /\ Ends(a, "unknown")  BY <1>1, <1>2, <1>4, FailOwn
<1> QED  BY <1>3, <1>4 DEF UpdateRegistry

LEMMA SendCommandOwn ==
    ASSUME EditsInv, NEW a \in Applies, SendCommand(a) PROVE Own(a)
<1> USE DEF EditsInv
<1>1. /\ at[a] = "write" /\ family = "collection" /\ Route(a)
      /\ Kind(a) \in {"update", "delete", "create", "clone"}
      /\ UNCHANGED <<family, job, before, seen, cause, edits>>
  BY DEF SendCommand, Routed, EditTypes, Kinds
<1> DEFINE new == IF Kind(a) = "clone" THEN Default ELSE After(a)
<1>2. new \in Objects
  BY <1>1, AfterFits, DefaultFits DEF Objects
<1>3. /\ faulty \in [Applies -> BOOLEAN]
      /\ [faulty EXCEPT ![a] = TRUE] \in [Applies -> BOOLEAN]
      /\ cause \in [Applies -> {None, "not_applied", "unknown"}]
  BY DEF EditTypes
<1>4. Executes(a) => Puts(a, new, FALSE)  BY DEF Executes
<1>5. Kind(a) # "clone" => new = After(a)  OBVIOUS
<1> HIDE DEF new
<1>6. CASE Executes(a) /\ UNCHANGED <<outcome, faulty>>
             /\ at' = [at EXCEPT ![a] = IF Kind(a) = "clone" THEN "filling" ELSE "verify"]
  <2>1. CASE Kind(a) = "clone"
    <3>1. at' = [at EXCEPT ![a] = "filling"]  BY <1>6, <2>1
    <3> QED  BY <1>1, <1>2, <1>3, <1>4, <1>6, <2>1, <3>1, WriteOwn
  <2>2. CASE Kind(a) # "clone"
    <3>1. at' = [at EXCEPT ![a] = "verify"]  BY <1>6, <2>2
    <3> QED  BY <1>1, <1>2, <1>3, <1>4, <1>5, <1>6, <2>2, <3>1, WriteOwn
  <2> QED  BY <2>1, <2>2
<1>7. CASE Executes(a) /\ Ends(a, "not_applied") /\ faulty' = [faulty EXCEPT ![a] = TRUE]
  BY <1>1, <1>2, <1>3, <1>4, <1>7, WriteEndsOwn DEF Outcomes, Succeeded
<1>8. CASE Keeps /\ Ends(a, "not_applied")
             /\ (UNCHANGED faulty \/ faulty' = [faulty EXCEPT ![a] = TRUE])
  BY <1>1, <1>3, <1>8, FailOwn
<1> QED  BY <1>6, <1>7, <1>8 DEF SendCommand

\* A step that leaves the object and goes to the undoing of the run.
LEMMA UndoOwn ==
    ASSUME EditsInv, NEW a \in Applies, at[a] \notin {"idle", "prepared", "done"}, Keeps,
           UNCHANGED <<family, job, before, seen, faulty, edits, outcome>>,
           at' = [at EXCEPT ![a] = "undo"],
           \/ Kind(a) = "clone" /\ UNCHANGED cause
           \/ Kind(a) = "file" /\ \E c \in {"not_applied", "unknown"} :
                                     cause' = [cause EXCEPT ![a] = c]
    PROVE  Own(a)
<1> USE DEF EditsInv
<1>1. Route(a) /\ Start(a)  BY DEF Routed, Started
<1>2. /\ cause' \in [Applies -> {None, "not_applied", "unknown"}]
      /\ Kind(a) = "file" => cause'[a] \in {"not_applied", "unknown"}
  <2>1. CASE Kind(a) = "clone" /\ UNCHANGED cause  BY <2>1 DEF EditTypes
  <2>2. ASSUME Kind(a) = "file", NEW c \in {"not_applied", "unknown"},
               cause' = [cause EXCEPT ![a] = c]
        PROVE  /\ cause' \in [Applies -> {None, "not_applied", "unknown"}]
               /\ cause'[a] = c
    BY <2>2 DEF EditTypes
  <2> QED  BY <2>1, <2>2
<1>3. Framed(a)  BY <1>2 DEF Framed, EditTypes, Keeps
<1>4. EditTypes' /\ at'[a] = "undo"  BY <1>3, GoesTyped DEF Places
<1>5. OthersStay(a)  BY QuietOthers DEF Keeps
<1>6. Route(a)' /\ Start(a)' /\ Calm(a)'
  BY <1>1, <1>2, <1>4 DEF Route, Start, Calm, Kind, Underway
<1> QED  BY <1>4, <1>5, <1>6 DEF Own

LEMMA FillCloneOwn == ASSUME EditsInv, NEW a \in Applies, FillClone(a) PROVE Own(a)
<1> USE DEF EditsInv
<1>1. /\ at[a] = "filling" /\ Kind(a) = "clone" /\ Route(a)
      /\ UNCHANGED <<family, job, before, seen, cause, faulty, edits>>
  BY DEF FillClone, Routed, Route
<1>2. After(a) \in Objects /\ faulty \in [Applies -> BOOLEAN]
      /\ cause \in [Applies -> {None, "not_applied", "unknown"}]
  BY <1>1, AfterFits DEF Objects, EditTypes
<1>3. CASE Puts(a, After(a), FALSE) /\ UNCHANGED outcome /\ at' = [at EXCEPT ![a] = "verify"]
  BY <1>1, <1>2, <1>3, WriteOwn
<1>4. CASE Keeps /\ UNCHANGED outcome /\ at' = [at EXCEPT ![a] = "undo"]
  BY <1>1, <1>4, UndoOwn
<1>5. CASE Keeps /\ Ends(a, "not_applied")  BY <1>1, <1>2, <1>5, FailOwn
<1> QED  BY <1>3, <1>4, <1>5 DEF FillClone, Goes

LEMMA CompensateOwn == ASSUME EditsInv, NEW a \in Applies, Compensate(a) PROVE Own(a)
<1> USE DEF EditsInv
<1>1. /\ at[a] = "undo" /\ Ends(a, "not_applied")
      /\ UNCHANGED <<family, job, before, seen, cause, edits>>
  BY DEF Compensate
<1>2. /\ faulty \in [Applies -> BOOLEAN] /\ Absent \in Objects
      /\ [faulty EXCEPT ![a] = TRUE] \in [Applies -> BOOLEAN]
      /\ cause \in [Applies -> {None, "not_applied", "unknown"}]
  BY DEF EditTypes, Objects
<1>3. CASE Puts(a, Absent, TRUE) /\ UNCHANGED faulty
  BY <1>1, <1>2, <1>3, WriteEndsOwn DEF Outcomes, Succeeded
<1>4. CASE Keeps /\ faulty' = [faulty EXCEPT ![a] = TRUE]
  BY <1>1, <1>2, <1>4, FailOwn
<1> QED  BY <1>3, <1>4 DEF Compensate

LEMMA CheckFileOwn == ASSUME EditsInv, NEW a \in Applies, CheckFile(a) PROVE Own(a)
<1> USE DEF EditsInv
<1>1. /\ at[a] = "write" /\ Kind(a) = "file" /\ Route(a) /\ Start(a) /\ Calm(a) /\ Keeps
      /\ UNCHANGED <<family, content, job, before, seen, outcome, disturbed, faulty, wrote,
                     lost, edits>>
  BY DEF CheckFile, Goes, past, Keeps, Routed, Started, Undisturbed
<1>2. CASE Matches(a) /\ UNCHANGED cause /\ at' = [at EXCEPT ![a] = "replace"]
  <2>1. Framed(a)  BY <1>1, <1>2 DEF Framed, EditTypes
  <2>2. EditTypes' /\ at'[a] = "replace"  BY <1>1, <1>2, <2>1, GoesTyped DEF Places
  <2>3. OthersStay(a)  BY <1>1, <1>2, QuietOthers
  <2>4. ~disturbed[a] => content = seen[a] /\ seen[a] = before[a]
    BY <1>1, <1>2 DEF Calm, Matches
  <2>5. Route(a)' /\ Start(a)' /\ Calm(a)'
    BY <1>1, <2>2, <2>4 DEF Route, Start, Calm, Kind, Underway
  <2> QED  BY <2>2, <2>3, <2>5 DEF Own
<1>3. CASE at' = [at EXCEPT ![a] = "undo"] /\ cause' = [cause EXCEPT ![a] = "not_applied"]
  BY <1>1, <1>3, UndoOwn
<1> QED  BY <1>2, <1>3 DEF CheckFile, Goes

LEMMA ReplaceFileOwn == ASSUME EditsInv, NEW a \in Applies, ReplaceFile(a) PROVE Own(a)
<1> USE DEF EditsInv
<1>1. /\ at[a] = "replace" /\ Kind(a) = "file" /\ Route(a) /\ Puts(a, After(a), FALSE)
      /\ at' = [at EXCEPT ![a] = "verify"]
      /\ UNCHANGED <<family, job, before, seen, cause, faulty, edits, outcome>>
  BY DEF ReplaceFile, Goes, Routed, Route
<1>2. After(a) \in Objects /\ faulty \in [Applies -> BOOLEAN]
  BY <1>1, AfterFits DEF Objects, EditTypes
<1> QED  BY <1>1, <1>2, WriteOwn

LEMMA FileBreaksOwn == ASSUME EditsInv, NEW a \in Applies, FileBreaks(a) PROVE Own(a)
BY UndoOwn DEF FileBreaks, Keeps, past

LEMMA RollBackFileOwn == ASSUME EditsInv, NEW a \in Applies, RollBackFile(a) PROVE Own(a)
<1> USE DEF EditsInv
<1>1. /\ at[a] = "undo" /\ Kind(a) = "file" /\ Route(a)
      /\ UNCHANGED <<family, job, before, seen, cause, faulty, edits>>
  BY DEF RollBackFile, Routed
<1>2. /\ cause[a] \in {"not_applied", "unknown"} /\ seen[a] \in Objects
      /\ faulty \in [Applies -> BOOLEAN]
      /\ cause \in [Applies -> {None, "not_applied", "unknown"}]
  BY <1>1 DEF Route, EditTypes
<1>3. CASE Puts(a, seen[a], TRUE) /\ Ends(a, cause[a])
  BY <1>1, <1>2, <1>3, WriteEndsOwn DEF Outcomes, Succeeded
<1>4. CASE Keeps /\ Ends(a, "unknown")  BY <1>1, <1>2, <1>4, FailOwn
<1> QED  BY <1>3, <1>4 DEF RollBackFile

LEMMA VerifyOwn == ASSUME EditsInv, NEW a \in Applies, Verify(a) PROVE Own(a)
<1> USE DEF EditsInv
<1>1. /\ at[a] = "verify" /\ Route(a) /\ Start(a) /\ Keeps
      /\ UNCHANGED <<family, job, before, seen, edits>>
  BY DEF Verify, Keeps, Routed, Started
<1>2. /\ faulty \in [Applies -> BOOLEAN]
      /\ [faulty EXCEPT ![a] = TRUE] \in [Applies -> BOOLEAN]
      /\ cause \in [Applies -> {None, "not_applied", "unknown"}]
      /\ [cause EXCEPT ![a] = "not_applied"] \in [Applies -> {None, "not_applied", "unknown"}]
  BY DEF EditTypes
<1>3. CASE UNCHANGED <<cause, faulty>>
             /\ Ends(a, IF Kind(a) = "file" THEN "applied_verified" ELSE "applied_unverified")
  <2>1. PICK o \in Succeeded : Ends(a, o)  BY <1>3 DEF Succeeded
  <2>2. Framed(a)  BY <1>1, <1>2, <1>3 DEF Framed, EditTypes, Keeps
  <2>3. EditTypes' /\ at'[a] = "done" /\ outcome'[a] = o
    BY <1>1, <2>1, <2>2, EndsTyped DEF Outcomes
  <2>4. OthersStay(a)  BY <1>1, <1>3, <2>1, QuietOthers DEF Ends, Keeps
  <2>5. Route(a)' /\ Start(a)' /\ Calm(a)'
    BY <1>1, <1>3, <2>3 DEF Route, Start, Calm, Kind, Underway, Keeps
  <2> QED  BY <2>3, <2>4, <2>5 DEF Own
<1>4. CASE Kind(a) = "file" /\ at' = [at EXCEPT ![a] = "undo"]
             /\ cause' = [cause EXCEPT ![a] = "not_applied"] /\ UNCHANGED <<outcome, faulty>>
  BY <1>1, <1>4, UndoOwn
<1>5. CASE Ends(a, "not_applied") /\ UNCHANGED cause
             /\ (UNCHANGED faulty \/ faulty' = [faulty EXCEPT ![a] = TRUE])
  BY <1>1, <1>2, <1>5, FailOwn
<1> QED  BY <1>3, <1>4, <1>5 DEF Verify, Goes

LEMMA StepOwn == ASSUME EditsInv, NEW a \in Applies, Step(a) PROVE Own(a)
BY CheckOwn, ReplaceDashboardOwn, ReadFileOwn, BackupOwn, SaveDashboardOwn,
   UpdateRegistryOwn, SendCommandOwn, FillCloneOwn, CompensateOwn, CheckFileOwn,
   ReplaceFileOwn, FileBreaksOwn, RollBackFileOwn, VerifyOwn DEF Step
--------------------------------------------------------------------------------
(* What the others know of the object outlives a step that is not theirs:  *)
(* it either leaves the object, or disturbs them.                          *)
LEMMA OthersKeep ==
    ASSUME EditsInv, NEW a, OthersStay(a), NEW b \in Applies \ {a}
    PROVE  (at'[b] # "idle" => Route(b)') /\ Start(b)' /\ Calm(b)'
<1>1. (at[b] # "idle" => Route(b)) /\ Start(b) /\ Calm(b)
  BY DEF EditsInv, Routed, Started, Undisturbed
<1>2. /\ at'[b] = at[b] /\ seen'[b] = seen[b] /\ cause'[b] = cause[b]
      /\ outcome'[b] = outcome[b] /\ before'[b] = before[b] /\ Kind(b)' = Kind(b)
      /\ After(b)' = After(b)
      /\ content' # content /\ Underway(b) => disturbed'[b]
      /\ disturbed[b] => disturbed'[b]
  BY DEF OthersStay, Kind, After
<1>3. at'[b] # "idle" => Route(b)'  BY <1>1, <1>2 DEF Route
<1>4. Start(b)'  BY <1>1, <1>2 DEF Start, Underway
<1>5. Calm(b)'  BY <1>1, <1>2 DEF Calm, Underway
<1> QED  BY <1>3, <1>4, <1>5

LEMMA PrepareKeeps ==
    ASSUME EditsInv, NEW a \in Applies, NEW kind, NEW c \in Changes, Prepare(a, kind, c)
    PROVE  EditsInv'
<1> USE DEF EditsInv
<1>1. /\ at[a] = "idle" /\ at' = [at EXCEPT ![a] = "prepared"]
      /\ kind \in Kinds[family] /\ (kind \in {"create", "clone"} <=> content = Absent)
      /\ job' = [job EXCEPT ![a] = [kind |-> kind, change |-> c]]
      /\ before' = [before EXCEPT ![a] = content]
      /\ UNCHANGED <<family, content, seen, cause, outcome, disturbed, faulty, wrote, lost,
                     edits>>
  BY DEF Prepare, Goes, past
<1>2. kind \in AllKinds
  BY <1>1, ChangesAssumption DEF Kinds, AllKinds, EditTypes
<1>3. /\ at'[a] = "prepared" /\ job'[a] = [kind |-> kind, change |-> c]
      /\ before'[a] = content
      /\ \A b \in Applies \ {a} : at'[b] = at[b] /\ job'[b] = job[b] /\ before'[b] = before[b]
  BY <1>1 DEF EditTypes
<1>4. EditTypes'
  <2>1. [kind |-> kind, change |-> c] \in Jobs  BY <1>2 DEF Jobs
  <2>2. /\ at' \in [Applies -> Places] /\ before' \in [Applies -> Objects]
        /\ job' \in [Applies -> Jobs \cup [kind : {None}]]
    BY <1>1, <2>1 DEF EditTypes, Places
  <2>3. \A b \in Applies : at'[b] # "idle" => job'[b] \in Jobs /\ Kind(b)' \in Kinds[family]
    BY <1>1, <1>3, <2>1 DEF EditTypes, Kind
  <2>4. \A b \in Applies : at'[b] = "done" <=> outcome'[b] \in Outcomes
    BY <1>1, <1>3 DEF EditTypes
  <2> QED  BY <1>1, <2>2, <2>3, <2>4 DEF EditTypes
<1>5. Route(a)' /\ Start(a)' /\ Calm(a)'
  BY <1>1, <1>3 DEF Route, Start, Calm, Kind, Underway
<1>6. ASSUME NEW b \in Applies \ {a}
      PROVE  (at'[b] # "idle" => Route(b)') /\ Start(b)' /\ Calm(b)'
  <2>1. (at[b] # "idle" => Route(b)) /\ Start(b) /\ Calm(b)
    BY DEF Routed, Started, Undisturbed
  <2>2. Kind(b)' = Kind(b) /\ After(b)' = After(b)  BY <1>3 DEF Kind, After
  <2> QED  BY <1>1, <1>3, <2>1, <2>2 DEF Route, Start, Calm, Underway
<1> QED  BY <1>4, <1>5, <1>6 DEF Routed, Started, Undisturbed

LEMMA EditKeeps ==
    ASSUME EditsInv, NEW new \in Objects, Edit(new)
    PROVE  EditsInv'
<1> USE DEF EditsInv
<1>1. /\ content' = new /\ edits' = edits + 1
      /\ disturbed' = [a \in Applies |-> disturbed[a] \/ Underway(a)]
      /\ UNCHANGED <<family, at, job, before, seen, cause, outcome, faulty, wrote, lost>>
  BY DEF Edit, places
<1>2. disturbed' \in [Applies -> BOOLEAN]
  <2>1. \A a \in Applies : (disturbed[a] \/ Underway(a)) \in BOOLEAN  OBVIOUS
  <2> QED  BY <1>1, <2>1, Zenon
<1>3. \A a \in Applies : disturbed'[a] = (disturbed[a] \/ Underway(a))
  BY <1>1, Zenon
<1>4. EditTypes'  BY <1>1, <1>2 DEF EditTypes, Kind
<1>5. Routed'  BY <1>1 DEF Routed, Route, Kind
<1>6. Started'  BY <1>1, <1>3 DEF Started, Start, Kind, Underway
<1>7. Undisturbed'  BY <1>1, <1>3 DEF Undisturbed, Calm, Underway
<1> QED  BY <1>4, <1>5, <1>6, <1>7

LEMMA EditsInit == Init => EditsInv
<1> SUFFICES ASSUME Init PROVE EditsInv
  OBVIOUS
<1>1. EditTypes
  BY DEF Init, EditTypes, Objects, Places, None, Outcomes, Succeeded
<1> QED  BY <1>1 DEF Init, EditsInv, Routed, Started, Start, Undisturbed, Calm, Underway, Kind

LEMMA EditsStep == EditsInv /\ [Next]_vars => EditsInv'
<1> SUFFICES ASSUME EditsInv, [Next]_vars PROVE EditsInv'
  OBVIOUS
<1>1. ASSUME NEW a \in Applies, Step(a) PROVE EditsInv'
  <2>1. Own(a)  BY <1>1, StepOwn
  <2>2. \A b \in Applies \ {a} : (at'[b] # "idle" => Route(b)') /\ Start(b)' /\ Calm(b)'
    BY <2>1, OthersKeep DEF Own
  <2> QED  BY <2>1, <2>2 DEF Own, EditsInv, Routed, Started, Undisturbed
<1>2. CASE UNCHANGED vars
  BY <1>2 DEF vars, places, past, EditsInv, EditTypes, Routed, Route, Started, Start,
              Undisturbed, Calm, Underway, Kind, After
<1> QED  BY <1>1, <1>2, PrepareKeeps, EditKeeps DEF Next, Objects

LEMMA EditsHold == Spec => []EditsInv
BY EditsInit, EditsStep, PTL DEF Spec
--------------------------------------------------------------------------------
(* Every variable keeps its type, and a run has an outcome when it is done *)
(* and only then.                                                          *)
THEOREM TypeCorrect == Spec => []TypeOK
<1>1. EditsInv => TypeOK
  BY DEF EditsInv, EditTypes, TypeOK, Jobs, Objects, Outcomes, Succeeded
<1> QED  BY <1>1, EditsHold, PTL

(* No mutation that was prepared against another content succeeds.         *)
THEOREM StaleIsRefused == Spec => []StaleRefused
<1>1. EditsInv => StaleRefused  BY DEF EditsInv, Started, Start, StaleRefused
<1> QED  BY <1>1, EditsHold, PTL

(* Where a run ends with success that nobody disturbed, the object is what *)
(* was prepared.                                                           *)
LEMMA ExactStep ==
    ASSUME EditsInv, NEW a \in Applies, Step(a), Finishes(a), outcome'[a] \in Succeeded,
           ~disturbed'[a]
    PROVE  content' = After(a) /\ seen'[a] = before[a]
<1> USE DEF EditsInv
<1>1. Own(a) /\ at[a] # "done" /\ at'[a] = "done"  BY StepOwn DEF Finishes
<1>2. Start(a)' /\ Start(a) /\ Calm(a) /\ ~disturbed[a] /\ Kind(a)' = Kind(a)
      /\ before' = before
  BY <1>1 DEF Own, OthersStay, Started, Undisturbed, Kind
<1>3. seen'[a] = before[a]  BY <1>1, <1>2 DEF Start
<1>4. ASSUME NEW o, Ends(a, o) PROVE outcome'[a] = o
  BY <1>4 DEF Ends, EditTypes
<1>5. ASSUME NEW from, NEW to, Goes(a, from, to) PROVE at'[a] = to
  BY <1>5 DEF Goes, EditTypes
<1>6. content' = After(a)
  <2>1. CASE Check(a)
    BY <1>1, <1>4, <2>1 DEF Check, Succeeded, EditTypes
  <2>2. CASE ReplaceDashboard(a)
    BY <1>4, <2>2 DEF ReplaceDashboard, Puts, Succeeded
  <2>3. CASE ReadFile(a)  BY <1>1, <1>5, <2>3 DEF ReadFile
  <2>4. CASE Backup(a)  BY <1>1, <1>4, <1>5, <2>4 DEF Backup, Succeeded
  <2>5. CASE SaveDashboard(a)
    BY <1>1, <1>4, <1>5, <2>5 DEF SaveDashboard, Succeeded
  <2>6. CASE UpdateRegistry(a)
    <3>1. content = before[a]
      BY <1>2, <2>6 DEF UpdateRegistry, Calm, Start, Underway
    <3> QED  BY <1>4, <2>6, <3>1 DEF UpdateRegistry, Succeeded, Puts, After
  <2>7. CASE SendCommand(a)
    BY <1>1, <1>4, <2>7 DEF SendCommand, Succeeded, EditTypes
  <2>8. CASE FillClone(a)  BY <1>1, <1>4, <1>5, <2>8 DEF FillClone, Succeeded
  <2>9. CASE Compensate(a)  BY <1>4, <2>9 DEF Compensate, Succeeded
  <2>10. CASE CheckFile(a)  BY <1>1, <1>5, <2>10 DEF CheckFile
  <2>11. CASE ReplaceFile(a)  BY <1>1, <1>5, <2>11 DEF ReplaceFile
  <2>12. CASE FileBreaks(a)  BY <1>1, <2>12 DEF FileBreaks, EditTypes
  <2>13. CASE RollBackFile(a)
    BY <1>4, <2>13 DEF RollBackFile, Succeeded, Routed, Route
  <2>14. CASE Verify(a)
    BY <1>2, <2>14 DEF Verify, Calm
  <2> QED
    BY <2>1, <2>2, <2>3, <2>4, <2>5, <2>6, <2>7, <2>8, <2>9, <2>10, <2>11, <2>12, <2>13,
       <2>14 DEF Step
<1> QED  BY <1>3, <1>6

\* Nobody else finishes by a step of run a, by a preparation or by a foreign write.
LEMMA WhoFinishes ==
    ASSUME EditsInv, [Next]_vars, NEW b \in Applies, Finishes(b)
    PROVE  Step(b)
<1>1. ASSUME NEW a \in Applies, Step(a), a # b PROVE FALSE
  BY <1>1, StepOwn DEF Own, OthersStay, Finishes
<1>2. ASSUME NEW a \in Applies, NEW c \in Changes, NEW kind, Prepare(a, kind, c) PROVE FALSE
  BY <1>2 DEF Prepare, Goes, Finishes, EditsInv, EditTypes
<1>3. ASSUME NEW new, Edit(new) PROVE FALSE
  BY <1>3 DEF Edit, places, Finishes
<1>4. CASE UNCHANGED vars  BY <1>4 DEF vars, places, Finishes
<1> QED  BY <1>1, <1>2, <1>3, <1>4 DEF Next

(* "Execute exactly the previously prepared mutation": success that nobody *)
(* disturbed means the prepared object, for every kind of object.          *)
THEOREM AppliesExactly == Spec => ExactApply
<1>1. EditsInv /\ [Next]_vars =>
         [\A a \in Applies : Finishes(a) /\ outcome'[a] \in Succeeded /\ ~disturbed'[a] =>
             content' = After(a) /\ seen'[a] = before[a]]_vars
  BY ExactStep, WhoFinishes
<1> QED  BY <1>1, EditsHold, PTL DEF Spec, ExactApply
(* Where a run ends without effect, and nothing was lost or disturbed, the *)
(* object is what the run found.                                           *)
LEMMA NothingStep ==
    ASSUME EditsInv, NEW a \in Applies, Step(a), Finishes(a), outcome'[a] = "not_applied",
           ~disturbed'[a], ~faulty'[a]
    PROVE  content' = seen'[a]
<1> USE DEF EditsInv
<1>1. Own(a) /\ at[a] # "done" /\ at'[a] = "done"  BY StepOwn DEF Finishes
<1>2. Start(a) /\ Calm(a) /\ ~disturbed[a] /\ (at[a] # "idle" => Route(a))
  BY <1>1 DEF Own, OthersStay, Routed, Started, Undisturbed
<1>3. ASSUME NEW o, Ends(a, o) PROVE o = "not_applied"
  BY <1>3 DEF Ends, EditTypes
<1>4. ASSUME NEW from, NEW to, Goes(a, from, to) PROVE to = "done"
  BY <1>1, <1>4 DEF Goes, EditTypes
<1>5. ASSUME faulty' = [faulty EXCEPT ![a] = TRUE] PROVE FALSE
  BY <1>5 DEF EditTypes
<1>6. CASE Check(a)  BY <1>6 DEF Check, EditTypes
<1>7. CASE ReplaceDashboard(a)
  BY <1>3, <1>7 DEF ReplaceDashboard, Keeps, EditTypes
<1>8. CASE ReadFile(a)  BY <1>4, <1>8 DEF ReadFile
<1>9. CASE Backup(a)  BY <1>3, <1>4, <1>9 DEF Backup
<1>10. CASE SaveDashboard(a)
  BY <1>2, <1>4, <1>10 DEF SaveDashboard, Keeps, Calm
<1>11. CASE UpdateRegistry(a)  BY <1>3, <1>11 DEF UpdateRegistry
<1>12. CASE SendCommand(a)
  <2>1. ~(at' = [at EXCEPT ![a] = IF Kind(a) = "clone" THEN "filling" ELSE "verify"])
    BY <1>1 DEF EditTypes
  <2> QED  BY <1>2, <1>5, <1>12, <2>1 DEF SendCommand, Keeps, Calm
<1>13. CASE FillClone(a)
  <2>1. Kind(a) = "clone" /\ seen[a] = before[a]
    BY <1>2, <1>13 DEF FillClone, Route, Start, Underway
  <2>2. seen[a] = Absent  BY <1>2, <1>13, <2>1 DEF FillClone, Route
  <2> QED  BY <1>4, <1>13, <2>2 DEF FillClone, Keeps
<1>14. CASE Compensate(a)
  <2>1. seen[a] = Absent  BY <1>2, <1>14 DEF Compensate, Route, Start, Underway
  <2> QED  BY <1>5, <1>14, <2>1 DEF Compensate, Puts
<1>15. CASE CheckFile(a)  BY <1>4, <1>15 DEF CheckFile
<1>16. CASE ReplaceFile(a)  BY <1>4, <1>16 DEF ReplaceFile
<1>17. CASE FileBreaks(a)  BY <1>1, <1>17 DEF FileBreaks, EditTypes
<1>18. CASE RollBackFile(a)  BY <1>3, <1>18 DEF RollBackFile, Puts
<1>19. CASE Verify(a)
  <2>1. content = After(a) /\ Kind(a) \notin {"registry", "replace"} /\ Kind(a) \in AllKinds
    BY <1>2, <1>19 DEF Verify, Calm, Route, EditTypes, Jobs, Kind
  <2>2. Kind(a) # "delete" => After(a) # Absent
    BY <1>2, <1>19, AfterFits, PresentIsNotAbsent DEF Verify
  <2>3. Kind(a) = "delete" => After(a) = Absent  BY DEF After
  <2>4. Verified(a)  BY <2>1, <2>2, <2>3 DEF Verified, AllKinds
  <2>5. Ends(a, "applied_verified") \/ Ends(a, "applied_unverified")
        \/ faulty' = [faulty EXCEPT ![a] = TRUE]
    BY <1>19, <2>4 DEF Verify
  <2> QED  BY <1>3, <1>5, <2>5
<1> QED
  BY <1>6, <1>7, <1>8, <1>9, <1>10, <1>11, <1>12, <1>13, <1>14, <1>15, <1>16, <1>17, <1>18,
     <1>19 DEF Step

(* All or nothing, whichever step of the run raised: the check, the save,  *)
(* the command, the filling of a clone, the verification or the rollback.  *)
THEOREM NothingOrAll == Spec => AllOrNothing
<1>1. EditsInv /\ [Next]_vars =>
         [\A a \in Applies : /\ Finishes(a) /\ outcome'[a] = "not_applied"
                             /\ ~disturbed'[a] /\ ~faulty'[a]
                             => content' = seen'[a]]_vars
  BY NothingStep, WhoFinishes
<1> QED  BY <1>1, EditsHold, PTL DEF Spec, AllOrNothing
--------------------------------------------------------------------------------
(***************************************************************************)
(* The changes of a registry entry, as long as nobody but the runs writes  *)
(* it: a run that reports success has written, and what it wrote is there, *)
(* field by field, unless another run that has written asked for the field.*)
(***************************************************************************)
Registered ==
    family = "registry" =>
        \A a \in Applies : /\ wrote[a] => at[a] # "idle"
                           /\ outcome[a] \in Succeeded => wrote[a]

Alone(a, f) == \A b \in Applies \ {a} : wrote[b] => f \notin DOMAIN job[b].change

Fielded ==
    family = "registry" /\ edits = 0 =>
        \A a \in Applies : wrote[a] =>
            \A f \in DOMAIN job[a].change : Alone(a, f) => content[f] = job[a].change[f]

SurviveInv == EditsInv /\ Registered /\ Fielded

\* Of the steps of a run, three are those of a registry change; one of them writes.
LEMMA RegistryStep ==
    ASSUME EditsInv, family = "registry", NEW a \in Applies, Step(a)
    PROVE  /\ at[a] # "idle" /\ at'[a] # "idle" /\ job[a].change \in Changes
           /\ \/ UNCHANGED <<content, wrote>> /\ outcome'[a] \notin Succeeded
              \/ /\ content \in Contents /\ content' = Merge(content, job[a].change)
                 /\ wrote'[a]
<1> USE DEF EditsInv
<1>1. /\ at[a] # "idle" /\ job[a] \in Jobs /\ Kind(a) = "registry" /\ Route(a)
      /\ outcome[a] \in Outcomes => at[a] = "done"
  <2>1. at[a] # "idle"
    BY DEF Step, Check, ReplaceDashboard, ReadFile, Backup, SaveDashboard, UpdateRegistry,
           SendCommand, FillClone, Compensate, CheckFile, ReplaceFile, FileBreaks,
           RollBackFile, Verify, Goes
  <2> QED  BY <2>1 DEF EditTypes, Kinds, Routed
<1>2. Check(a) \/ Backup(a) \/ UpdateRegistry(a)
  BY <1>1 DEF Step, ReplaceDashboard, ReadFile, SaveDashboard, SendCommand, FillClone,
              Compensate, CheckFile, ReplaceFile, FileBreaks, RollBackFile, Verify, Goes,
              Route
<1>3. job[a].change \in Changes  BY <1>1 DEF Jobs
<1>4. ASSUME NEW o, Ends(a, o) PROVE at'[a] = "done" /\ outcome'[a] = o
  BY <1>4 DEF Ends, EditTypes
<1>5. CASE Check(a)
  <2>1. at'[a] # "idle"  BY <1>4, <1>5 DEF Check, EditTypes
  <2>2. outcome'[a] \notin Succeeded
    BY <1>1, <1>4, <1>5 DEF Check, Succeeded, Outcomes
  <2> QED  BY <1>1, <1>3, <1>5, <2>1, <2>2 DEF Check, past
<1>6. CASE Backup(a)
  <2>1. at'[a] # "idle"  BY <1>4, <1>6 DEF Backup, Goes, EditTypes
  <2>2. outcome'[a] \notin Succeeded
    BY <1>1, <1>4, <1>6 DEF Backup, Succeeded, Outcomes
  <2> QED  BY <1>1, <1>3, <1>6, <2>1, <2>2 DEF Backup, past
<1>7. CASE UpdateRegistry(a)
  <2>1. CASE content # Absent /\ Puts(a, Merge(content, job[a].change), FALSE)
               /\ Ends(a, "applied_unverified")
    <3>1. content' = Merge(content, job[a].change) /\ wrote'[a]
      BY <2>1, PutsFrame
    <3>2. content \in Contents  BY <2>1 DEF EditTypes, Objects
    <3> QED  BY <1>1, <1>3, <1>4, <2>1, <3>1, <3>2
  <2>2. CASE Keeps /\ Ends(a, "unknown")
    BY <1>1, <1>3, <1>4, <2>2 DEF Keeps, Succeeded
  <2> QED  BY <1>7, <2>1, <2>2 DEF UpdateRegistry
<1> QED  BY <1>2, <1>5, <1>6, <1>7

LEMMA SurviveStep ==
    ASSUME SurviveInv, NEW a \in Applies, Step(a)
    PROVE  Registered' /\ Fielded'
<1> USE DEF SurviveInv
<1>1. OthersStay(a)  BY StepOwn DEF Own
<1>2. UNCHANGED <<family, job, edits>>
      /\ \A b \in Applies \ {a} : at'[b] = at[b] /\ outcome'[b] = outcome[b]
                                  /\ wrote'[b] = wrote[b]
  BY <1>1 DEF OthersStay
<1> SUFFICES ASSUME family = "registry" PROVE Registered' /\ Fielded'
  BY <1>2 DEF Registered, Fielded
<1>3. /\ at'[a] # "idle" /\ job[a].change \in Changes
      /\ \/ UNCHANGED <<content, wrote>> /\ outcome'[a] \notin Succeeded
         \/ /\ content \in Contents /\ content' = Merge(content, job[a].change)
            /\ wrote'[a]
  BY RegistryStep
<1>4. Registered'  BY <1>2, <1>3 DEF Registered
<1>5. Fielded'
  <2>1. CASE UNCHANGED <<content, wrote>>  BY <1>2, <2>1 DEF Fielded, Alone
  <2>2. CASE content \in Contents /\ content' = Merge(content, job[a].change) /\ wrote'[a]
    <3>1. \A f \in Fields : content'[f] = IF f \in DOMAIN job[a].change
                                          THEN job[a].change[f] ELSE content[f]
      BY <1>3, <2>2, MergeFits
    <3> SUFFICES ASSUME edits = 0, NEW b \in Applies, wrote'[b],
                        NEW f \in DOMAIN job[b].change, Alone(b, f)'
                 PROVE  content'[f] = job[b].change[f]
      BY <1>2 DEF Fielded
    <3>2. CASE b = a  BY <1>3, <3>1, <3>2, ChangeFits
    <3>3. CASE b # a
      <4>1. wrote[b] /\ f \notin DOMAIN job[a].change /\ Alone(b, f)
        BY <1>2, <2>2, <3>3 DEF Alone
      <4>2. content[f] = job[b].change[f]  BY <4>1 DEF Fielded
      <4>3. f \in Fields
        <5>1. at[b] # "idle"  BY <4>1 DEF Registered
        <5>2. job[b].change \in Changes  BY <5>1 DEF EditsInv, EditTypes, Jobs
        <5> QED  BY <5>2, ChangeFits
      <4> QED  BY <3>1, <4>1, <4>2, <4>3
    <3> QED  BY <3>2, <3>3
  <2> QED  BY <1>3, <2>1, <2>2
<1> QED  BY <1>4, <1>5

LEMMA SurviveNext == SurviveInv /\ [Next]_vars => SurviveInv'
<1> SUFFICES ASSUME SurviveInv, [Next]_vars PROVE SurviveInv'
  OBVIOUS
<1> USE DEF SurviveInv
<1>1. EditsInv'  BY EditsStep
<1>2. ASSUME NEW a \in Applies, Step(a) PROVE Registered' /\ Fielded'
  BY <1>2, SurviveStep
<1>3. ASSUME NEW a \in Applies, NEW c \in Changes, NEW kind, Prepare(a, kind, c)
      PROVE  Registered' /\ Fielded'
  <2>1. /\ at[a] = "idle" /\ UNCHANGED <<family, content, outcome, wrote, edits>>
        /\ at' = [at EXCEPT ![a] = "prepared"]
        /\ \A b \in Applies \ {a} : job'[b] = job[b]
    BY <1>3 DEF Prepare, Goes, past, EditsInv, EditTypes
  <2>2. Registered'  BY <2>1 DEF Registered, EditsInv, EditTypes
  <2>3. family = "registry" => \A b \in Applies : wrote[b] => job'[b] = job[b]
    BY <2>1 DEF Registered
  <2>4. Fielded'  BY <2>1, <2>3 DEF Fielded, Alone
  <2> QED  BY <2>2, <2>4
<1>4. ASSUME NEW new \in Objects, Edit(new) PROVE Registered' /\ Fielded'
  <2>1. edits' # 0 /\ UNCHANGED <<family, at, outcome, wrote>>
    BY <1>4 DEF Edit, places, EditsInv, EditTypes
  <2> QED  BY <2>1 DEF Registered, Fielded
<1>5. CASE UNCHANGED vars
  BY <1>1, <1>5 DEF vars, places, past, Registered, Fielded, Alone
<1> QED  BY <1>1, <1>2, <1>3, <1>4, <1>5 DEF Next, Objects

(* A registry change that succeeded stays in the entry, whatever other     *)
(* runs overlap with it.                                                   *)
THEOREM ChangesSurvive == Spec => []BothSurvive
<1>1. Init => SurviveInv
  BY EditsInit DEF Init, SurviveInv, Registered, Fielded, None, Succeeded
<1>2. SurviveInv => BothSurvive
  <2> SUFFICES ASSUME SurviveInv, NEW a \in Applies, Kind(a) = "registry", edits = 0,
                      outcome[a] \in Succeeded, NEW f \in DOMAIN job[a].change, Alone(a, f)
               PROVE  content[f] = job[a].change[f]
    BY DEF BothSurvive, Alone
  <2>1. at[a] # "idle" /\ Kind(a) \in Kinds[family] /\ family \in Families
    BY DEF SurviveInv, EditsInv, EditTypes, Outcomes
  <2>2. family = "registry"  BY <2>1, ChangesAssumption DEF Kinds
  <2> QED  BY <2>2 DEF SurviveInv, Registered, Fielded
<1> QED  BY <1>1, <1>2, SurviveNext, PTL DEF Spec
================================================================================
