------------------------------ MODULE ApplyEngine ------------------------------
(***************************************************************************)
(* engine.py: change.apply requests as they run through the audit log, the *)
(* idempotency store, the prepared store and an operation handler.  The    *)
(* event loop is single threaded: what a coroutine does between two awaits *)
(* that really suspend is one action.  Those awaits are the audit appends  *)
(* (a chain lock and a disk write) and the handlers themselves; neither    *)
(* store ever suspends.                                                    *)
(*                                                                         *)
(* A handler is any of the branches of apply_mutation: it may change Home  *)
(* Assistant once, and returns or raises.  An effect followed by an        *)
(* exception that carries no outcome marker is possible (lovelace.py:584,  *)
(* helpers.py:441, sequence.call's re-raise, a lost websocket answer).     *)
(*                                                                         *)
(* Home Assistant cancels a request whose client disconnects, and nothing  *)
(* in views.py shields it: CancelledError is raised at the await where it  *)
(* is, and passes every "except Exception".  A cancelled request stays at  *)
(* its place here, with all that it holds, and takes no further step.      *)
(***************************************************************************)
EXTENDS Naturals, FiniteSets

CONSTANTS Requests,    \* HTTP apply requests
          Keys,        \* idempotency_key values
          Prepares, Sessions, TTL, MaxTime,      \* as in PreparedStore
          Maximum,     \* capacity of the idempotency store
          Applies,     \* the argument records clients send
          MaxRestarts  \* bound on restarts, for TLC only

VARIABLES items, now, minted, running, uses,     \* PreparedStore
          entries, begun,                        \* IdempotencyStore
          pc,          \* where each request is
          arg,         \* its arguments, once it was received
          outcome,     \* the outcome of its handler, or of the replayed one
          receipt,     \* the newest audit result for each prepare_id
          effects,     \* history: changes made to Home Assistant per prepare_id
          ended,       \* history: outcome of the run of each prepare_id
          cancelled,   \* requests whose client disconnected before their end
          restarts

store == <<items, now, minted, running, uses>>
cache == <<entries, begun>>
request == <<pc, arg, outcome>>
stops == <<cancelled, restarts>>
past == <<effects, ended, stops>>
vars == <<store, cache, request, receipt, past>>

Succeeded == {"applied_verified", "applied_unverified"}
NotApplied == "not_applied"
Kept == {"applied_unverified", "partially_applied", "unknown"}
Outcomes == Succeeded \cup Kept \cup {NotApplied}
None == "none"

Prepared == INSTANCE PreparedStore

Apply == [route : {"dispatch", "direct"}, key : Keys, prepare : Prepares,
          call : Prepared!Call]

\* The dispatch route cannot carry a confirmation_text (engine.py:873-880).
ASSUME AppliesAssumption == /\ Applies \subseteq Apply
                            /\ \A a \in Applies :
                                  a.route = "dispatch" => ~a.call.phrase
ASSUME BoundsAssumption == /\ TTL \in Nat \ {0} /\ MaxTime \in Nat
                           /\ Maximum \in Nat \ {0} /\ MaxRestarts \in Nat
ASSUME KeysAssumption == "no result" \notin Keys

Fingerprint(a) == <<a.prepare, a.call>>
Fingerprints == Prepares \X Prepared!Call

Places == {"idle", "received", "granted", "started", "running", "changed",
           "failing", "settling", "failed", "completing", "replaying",
           "done", "refused", "lost"}

\* Requests that hold an in-flight entry of the idempotency store, the ones that
\* were cancelled with it included.
Executing == {"granted", "started", "running", "changed", "failing", "settling"}
Holds(r) == pc[r] \in Executing /\ arg[r].route = "dispatch"

\* What the idempotency store takes request r to be executing.
CallOf(r) == IF Holds(r)
             THEN [key |-> arg[r].key, fingerprint |-> Fingerprint(arg[r])]
             ELSE [key |-> "no result", fingerprint |-> "no result"]

Idem == INSTANCE IdempotencyStore
          WITH Callers <- Requests, Results <- Outcomes, Insertions <- Nat,
               calls <- [r \in Requests |-> CallOf(r)]

NoApply == [route |-> None]

Init == /\ Prepared!PreparedInit
        /\ entries = [k \in {} |-> 0]
        /\ begun = 0
        /\ pc = [r \in Requests |-> "idle"]
        /\ arg = [r \in Requests |-> NoApply]
        /\ outcome = [r \in Requests |-> None]
        /\ receipt = [p \in Prepares |-> None]
        /\ effects = [p \in Prepares |-> 0]
        /\ ended = [p \in Prepares |-> None]
        /\ cancelled = {}
        /\ restarts = 0
--------------------------------------------------------------------------------
Goes(r, from, to) == /\ pc[r] = from
                     /\ r \notin cancelled
                     /\ pc' = [pc EXCEPT ![r] = to]

\* audit.append of a record that names the prepare_id of request r.
Audits(r, result) == receipt' = [receipt EXCEPT ![arg[r].prepare] = result]

FailedAudit(o) == CASE o = NotApplied -> "failed_not_applied"
                    [] o \in Outcomes \ {NotApplied} -> "failed_kept"

\* One of the prepare operations (their reads of Home Assistant are elsewhere).
Prepare(p, session, phrase) ==
    /\ Prepared!Create(p, session, phrase)
    /\ UNCHANGED <<cache, request, receipt, past>>

PrepareStatus(p) == /\ Prepared!Status(p)
                    /\ UNCHANGED <<cache, request, receipt, past>>

Tick == /\ Prepared!Tick
        /\ UNCHANGED <<cache, request, receipt, past>>

\* _apply_request up to its first await: the "received" record.
Receive(r, a) ==
    /\ a.route = "dispatch"
    /\ Goes(r, "idle", "received")
    /\ arg' = [arg EXCEPT ![r] = a]
    /\ receipt' = [receipt EXCEPT ![a.prepare] = "received"]
    /\ UNCHANGED <<store, cache, outcome, past>>

\* The legacy apply endpoint calls apply_mutation without an idempotency key.
ReceiveDirect(r, a) ==
    /\ a.route = "direct"
    /\ Goes(r, "idle", "started")
    /\ arg' = [arg EXCEPT ![r] = a]
    /\ UNCHANGED <<store, cache, outcome, receipt, past>>

BeginKey(r) ==
    /\ Goes(r, "received", "granted")
    /\ Idem!BeginExecute(arg[r].key, Fingerprint(arg[r]))
    /\ UNCHANGED <<store, arg, outcome, receipt, past>>

ReplayKey(r) ==
    /\ Goes(r, "received", "replaying")
    /\ Idem!Replays(arg[r].key, Fingerprint(arg[r]))
    /\ outcome' = [outcome EXCEPT ![r] = entries[arg[r].key].result]
    /\ UNCHANGED <<store, cache, arg, receipt, past>>

\* IDEMPOTENCY_BUSY, _KEY_REUSED and _IN_PROGRESS leave no further record.
RefuseKey(r) ==
    /\ Goes(r, "received", "refused")
    /\ Idem!Refuses(arg[r].key, Fingerprint(arg[r]))
    /\ UNCHANGED <<store, cache, arg, outcome, receipt, past>>

AuditStarted(r) ==
    /\ Goes(r, "granted", "started")
    /\ Audits(r, "started")
    /\ UNCHANGED <<store, cache, arg, outcome, past>>

StartHandler(r) ==
    /\ Goes(r, "started", "running")
    /\ Prepared!BeginGranted(arg[r].prepare, arg[r].call)
    /\ UNCHANGED <<cache, arg, outcome, receipt, past>>

\* begin_apply refused: an unmarked contract error, so the key is dropped before
\* anything else can run.
RefuseStart(r) ==
    /\ Goes(r, "started", IF arg[r].route = "dispatch" THEN "failed" ELSE "refused")
    /\ Prepared!BeginRefused(arg[r].prepare, arg[r].call)
    /\ IF arg[r].route = "dispatch"
       THEN Idem!AbortEntry(arg[r].key, Fingerprint(arg[r]))
       ELSE UNCHANGED cache
    /\ outcome' = [outcome EXCEPT ![r] = NotApplied]
    /\ UNCHANGED <<arg, receipt, past>>

\* What the handler of request r asked for takes effect in Home Assistant.
TakesEffect(r) ==
    /\ effects' = [effects EXCEPT ![arg[r].prepare] = @ + 1]
    /\ UNCHANGED <<store, cache, arg, outcome, receipt, ended, stops>>

HandlerChanges(r) == Goes(r, "running", "changed") /\ TakesEffect(r)

\* Most handlers append their own "executed" record after the change.
HandlerAudits(r) ==
    /\ pc[r] = "changed" /\ r \notin cancelled
    /\ Audits(r, "executed")
    /\ UNCHANGED <<store, cache, request, past>>

\* The handler returned: the id is consumed and the key finished in one step.
HandlerReturns(r, o) ==
    /\ Goes(r, "changed", IF arg[r].route = "dispatch" THEN "completing" ELSE "done")
    /\ o \in Succeeded
    /\ Prepared!FinishApply(arg[r].prepare, TRUE)
    /\ IF arg[r].route = "dispatch"
       THEN Idem!FinishEntry(arg[r].key, Fingerprint(arg[r]), o)
       ELSE UNCHANGED cache
    /\ outcome' = [outcome EXCEPT ![r] = o]
    /\ ended' = [ended EXCEPT ![arg[r].prepare] = o]
    /\ UNCHANGED <<arg, receipt, effects, stops>>

\* Mutant of HandlerRaises: the prepared mutation is left in flight.
RaiseUnfinished(r, o) ==
    /\ pc[r] \in {"running", "changed"} /\ r \notin cancelled
    /\ pc' = [pc EXCEPT ![r] = "failing"]
    /\ o \in Kept \cup {NotApplied}
    /\ outcome' = [outcome EXCEPT ![r] = o]
    /\ ended' = [ended EXCEPT ![arg[r].prepare] = o]
    /\ UNCHANGED <<store, cache, arg, receipt, effects, stops>>

\* The handler raised; _failure_outcome reads the class from the exception.
HandlerRaises(r, o) ==
    /\ pc[r] \in {"running", "changed"} /\ r \notin cancelled
    /\ pc' = [pc EXCEPT ![r] = "failing"]
    /\ o \in Kept \cup {NotApplied}
    /\ o = "applied_unverified" => pc[r] = "changed"
    /\ Prepared!FinishApply(arg[r].prepare, TRUE)
    /\ outcome' = [outcome EXCEPT ![r] = o]
    /\ ended' = [ended EXCEPT ![arg[r].prepare] = o]
    /\ UNCHANGED <<cache, arg, receipt, effects, stops>>

\* apply_mutation's own record of the failure; the direct route ends with it.
AuditFailure(r) ==
    /\ Goes(r, "failing", IF arg[r].route = "dispatch" THEN "settling" ELSE "done")
    /\ Audits(r, FailedAudit(outcome[r]))
    /\ UNCHANGED <<store, cache, arg, outcome, past>>

\* Mutant of Settle: the key of a failure without an outcome is not dropped.
SettleKept(r) ==
    /\ Goes(r, "settling", "failed")
    /\ IF outcome[r] = NotApplied THEN UNCHANGED cache
       ELSE Idem!FinishEntry(arg[r].key, Fingerprint(arg[r]), outcome[r])
    /\ UNCHANGED <<store, arg, outcome, receipt, past>>

\* _apply_request's except clause: drop the key or keep the outcome under it.
Settle(r) ==
    /\ Goes(r, "settling", "failed")
    /\ IF outcome[r] = NotApplied
       THEN Idem!AbortEntry(arg[r].key, Fingerprint(arg[r]))
       ELSE Idem!FinishEntry(arg[r].key, Fingerprint(arg[r]), outcome[r])
    /\ UNCHANGED <<store, arg, outcome, receipt, past>>

\* Mutant of AuditReceipt: a replay is never answered.
ReceiptOfRuns(r) ==
    /\ \/ Goes(r, "failed", "done") /\ Audits(r, FailedAudit(outcome[r]))
       \/ Goes(r, "completing", "done") /\ Audits(r, "completed")
    /\ UNCHANGED <<store, cache, arg, outcome, past>>

AuditReceipt(r) ==
    /\ \/ Goes(r, "failed", "done") /\ Audits(r, FailedAudit(outcome[r]))
       \/ Goes(r, "completing", "done") /\ Audits(r, "completed")
       \/ Goes(r, "replaying", "done") /\ Audits(r, "replayed")
    /\ UNCHANGED <<store, cache, arg, outcome, past>>

Underway(r) == pc[r] \notin {"idle", "done", "refused", "lost"}

Live(r) == Underway(r) /\ r \notin cancelled

\* The client of request r disconnects.  No clause of the engine catches this: the
\* key is neither finished nor aborted, and the prepared mutation not finished.
Cancel(r) ==
    /\ Live(r)
    /\ cancelled' = cancelled \cup {r}
    /\ IF pc[r] \in {"running", "changed"} THEN Prepared!AbandonApply(arg[r].prepare)
       ELSE UNCHANGED store
    /\ UNCHANGED <<cache, request, receipt, effects, ended, restarts>>

\* What a cancelled handler had already asked of Home Assistant may still happen.
LateChange(r) ==
    /\ r \in cancelled
    /\ pc[r] = "running"
    /\ pc' = [pc EXCEPT ![r] = "changed"]
    /\ TakesEffect(r)

\* Only the audit log is on disk: both stores and the requests are gone.  What a
\* crash may take from the log itself is in AuditLog.
Restart ==
    /\ restarts < MaxRestarts
    /\ restarts' = restarts + 1
    /\ Prepared!RestartPrepared
    /\ entries' = [k \in {} |-> 0]
    /\ pc' = [r \in Requests |-> IF Underway(r) THEN "lost" ELSE pc[r]]
    /\ cancelled' = {}
    /\ UNCHANGED <<begun, arg, outcome, receipt, effects, ended>>

\* The steps the event loop takes for a request that was received.
Progress(r) == \/ BeginKey(r) \/ ReplayKey(r) \/ RefuseKey(r)
               \/ AuditStarted(r)
               \/ StartHandler(r) \/ RefuseStart(r)
               \/ HandlerChanges(r)
               \/ \E o \in Outcomes : HandlerReturns(r, o) \/ HandlerRaises(r, o)
               \/ AuditFailure(r) \/ Settle(r) \/ AuditReceipt(r)

Next == \/ \E p \in Prepares, s \in Sessions, f \in BOOLEAN : Prepare(p, s, f)
        \/ \E p \in Prepares : PrepareStatus(p)
        \/ \E r \in Requests, a \in Applies : Receive(r, a) \/ ReceiveDirect(r, a)
        \/ \E r \in Requests : Progress(r) \/ HandlerAudits(r)
        \/ \E r \in Requests : Cancel(r) \/ LateChange(r)
        \/ Tick
        \/ Restart

Spec == Init /\ [][Next]_vars

\* The loop runs every ready task, disk writes end, and Home Assistant's calls
\* return or time out: a request that can move does move.  No client has to stay.
FairSpec == Spec /\ \A r \in Requests : WF_vars(Progress(r))
--------------------------------------------------------------------------------
TypeOK == /\ Prepared!PreparedTypeOK
          /\ DOMAIN entries \subseteq Keys
          /\ \A k \in DOMAIN entries : entries[k] \in Idem!Entry
          /\ begun \in Nat
          /\ pc \in [Requests -> Places]
          /\ \A r \in Requests : pc[r] # "idle" => arg[r] \in Applies
          /\ outcome \in [Requests -> Outcomes \cup {None}]
          /\ effects \in [Prepares -> Nat]
          /\ ended \in [Prepares -> Outcomes \cup {None}]
          /\ cancelled \subseteq Requests
          /\ restarts \in Nat

(* "Mutations ... are single-use" (SECURITY.md:12): Home Assistant is      *)
(* changed at most once per prepare_id, whatever mix of routes, keys,      *)
(* retries, evictions, expiries and restarts the requests go through.      *)
AtMostOnce == \A p \in Prepares : effects[p] <= 1

(* The key of a request is a lock from begin to finish or abort: it has an *)
(* in-flight entry exactly while one request executes under it, or after a *)
(* request was cancelled while it executed (then until a restart).  No two *)
(* requests run under one key, and no refusal, failure, eviction or other  *)
(* request's abort drops or leaks one: a cancellation is the only leak.    *)
KeysOwned == Idem!InFlightOwned /\ Idem!OneCallerPerKey

(* A recorded outcome always comes after the prepared mutation is spent:   *)
(* when the key that protects it is evicted or lost, a retry under a fresh *)
(* key still finds it unusable.                                            *)
OutcomeMeansSpent ==
    \A k \in DOMAIN entries : ~entries[k].inFlight =>
        LET p == entries[k].fingerprint[1]
        IN  p \notin DOMAIN items \/ items[p].consumed

(* A replayed answer is the outcome of the one run of that prepared        *)
(* mutation, and a replayed success did change Home Assistant.             *)
ReplayTruthful ==
    \A r \in Requests : pc[r] = "replaying" =>
        /\ outcome[r] = ended[arg[r].prepare]
        /\ outcome[r] \in Succeeded => effects[arg[r].prepare] = 1

(* The store knows which handlers run: an id is in flight there only while *)
(* a request executes it, or after the request that executed it was        *)
(* cancelled (then until its time is up).  No path on which the handler    *)
(* returns or raises, and no prune, leaves an id locked.                   *)
FlightsExplained ==
    \A p \in DOMAIN items : items[p].inFlight =>
        \E r \in Requests : pc[r] \in {"running", "changed"} /\ arg[r].prepare = p

(* Every request the bridge accepted is answered, lost in a restart, or    *)
(* its client has gone; another client's cancellation never holds it up.   *)
Answered ==
    \A r \in Requests :
       pc[r] = "received" ~> pc[r] \in {"done", "refused", "lost"} \/ r \in cancelled

(* "Et apply-kald med denne idempotency_key udføres allerede"              *)
(* (idempotency.py:65-66: an apply with this key is already being          *)
(* executed): when begin is about to answer that to a request, some        *)
(* request that was not cancelled does execute under the key.              *)
InProgressTruthful ==
    \A r \in Requests :
       Live(r) /\ pc[r] = "received"
         /\ Idem!InProgress(arg[r].key, Fingerprint(arg[r])) =>
       \E q \in Requests : Live(q) /\ Holds(q) /\ arg[q].key = arg[r].key

(* "Recovery V2 provides ... system.apply.status lookups so the server-side *)
(* outcome can be recovered safely" (README.md:47): once an apply of p has *)
(* ended well and no request about p is under way or was cancelled, the    *)
(* newest record of p, which is what the lookup answers with, does not     *)
(* deny or hide it.                                                        *)
StatusTellsOutcome ==
    \A p \in Prepares :
        /\ ended[p] \in Succeeded
        /\ \A r \in Requests : Underway(r) => arg[r].prepare # p
        => receipt[p] \notin {"received", "started", "failed_not_applied"}

(* Every prepared mutation goes through the one-way life of OneShot, and,  *)
(* as its handler is fair, does not run for ever.                          *)
Promise == INSTANCE OneShot
             WITH phase <- [p \in Prepares |-> Prepared!PhaseOf(p)]
ImplementsOneShot == Promise!FairSpec
================================================================================
