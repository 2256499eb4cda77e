-------------------------- MODULE ApplyEngine_proofs --------------------------
(***************************************************************************)
(* Proofs about the apply engine for every set of requests, keys, prepared *)
(* mutations and sessions.  Every step of the engine is a step of each     *)
(* store or leaves it alone, so what is proved about the stores holds of   *)
(* the engine; the effects on Home Assistant then follow.                  *)
(***************************************************************************)
EXTENDS ApplyEngine, WellFoundedInduction, TLAPS

Stores == INSTANCE Stores_proofs
            WITH Callers <- Requests, Results <- Outcomes, Insertions <- Nat,
                 calls <- [r \in Requests |-> CallOf(r)]

LEMMA StoreAssumptions ==
    Stores!TimeAssumption /\ Stores!MaximumAssumption /\ Stores!IdleAssumption
  BY BoundsAssumption, KeysAssumption
     DEF Stores!TimeAssumption, Stores!MaximumAssumption, Stores!IdleAssumption,
         Stores!Nothing
-------------------------------------------------------------------------------
\* The engine's own variables: a request keeps the arguments it came with, has an
\* outcome once its handler failed, and a completed key has a result to replay.
Keyed == {"received", "granted", "settling", "failed", "completing", "replaying"}

Local == /\ pc \in [Requests -> Places]
         /\ arg \in [Requests -> Apply \cup {NoApply}]
         /\ outcome \in [Requests -> Outcomes \cup {None}]
         /\ \A r \in Requests : pc[r] # "idle" => arg[r] \in Applies
         /\ \A r \in Requests : pc[r] \in {"failing", "settling"} =>
               outcome[r] \in Outcomes
         /\ \A r \in Requests : pc[r] \in Keyed => arg[r].route = "dispatch"
         /\ begun \in Nat /\ restarts \in Nat
         /\ cancelled \subseteq Requests
         /\ ended \in [Prepares -> Outcomes \cup {None}]
         /\ \A k \in DOMAIN entries :
               ~entries[k].inFlight => entries[k].result \in Outcomes

LEMMA ArgumentFields ==
  ASSUME Local, NEW r \in Requests, pc[r] # "idle"
  PROVE  /\ arg[r] \in Apply
         /\ arg[r].key \in Keys /\ arg[r].prepare \in Prepares
         /\ arg[r].call \in Prepared!Call
         /\ Fingerprint(arg[r]) \in Fingerprints
<1>1. arg[r] \in Apply
  BY AppliesAssumption DEF Local
<1>2. QED
  BY <1>1 DEF Apply, Fingerprint, Fingerprints

LEMMA FinishKeepsResults ==
  ASSUME Local, NEW k, NEW f, NEW o \in Outcomes, Idem!FinishEntry(k, f, o)
  PROVE  \A q \in DOMAIN entries' :
            ~entries'[q].inFlight => entries'[q].result \in Outcomes
<1>1. ASSUME NEW q \in DOMAIN entries', ~entries'[q].inFlight
      PROVE  entries'[q].result \in Outcomes
  <2>1. q \in DOMAIN entries
    BY <1>1 DEF Idem!FinishEntry
  <2>2. CASE q = k /\ entries[q].fingerprint = f
    <3>1. entries'[q] = [entries[q] EXCEPT !.inFlight = FALSE, !.result = o]
      BY <2>1, <2>2 DEF Idem!FinishEntry
    <3>2. QED
      BY <1>1, <3>1
  <2>3. CASE ~(q = k /\ entries[q].fingerprint = f)
    BY <1>1, <2>1, <2>3 DEF Idem!FinishEntry, Local
  <2>4. QED
    BY <2>2, <2>3
<1>2. QED
  BY <1>1

LEMMA AbortKeepsResults ==
  ASSUME Local, NEW k, NEW f, Idem!AbortEntry(k, f)
  PROVE  \A q \in DOMAIN entries' :
            ~entries'[q].inFlight => entries'[q].result \in Outcomes
  BY DEF Local, Idem!AbortEntry

LEMMA BeginKeepsResults ==
  ASSUME Local, NEW k, NEW f, Idem!BeginExecute(k, f)
  PROVE  \A q \in DOMAIN entries' :
            ~entries'[q].inFlight => entries'[q].result \in Outcomes
<1>1. PICK evicted \in Idem!Evictions :
         entries' = [q \in (DOMAIN entries \ evicted) \cup {k} |->
                       IF q = k THEN [fingerprint |-> f, inFlight |-> TRUE,
                                      result |-> Idem!Nothing, at |-> begun]
                       ELSE entries[q]]
  BY DEF Idem!BeginExecute
<1>2. QED
  BY <1>1 DEF Local

LEMMA LocalStep == Local /\ [Next]_vars => Local'
<1> SUFFICES ASSUME Local, [Next]_vars
             PROVE  Local'
  OBVIOUS
<1> USE DEF Goes, Keyed, past, stops
<1>1. ASSUME NEW p \in Prepares, NEW s \in Sessions, NEW f \in BOOLEAN,
             Prepare(p, s, f)
      PROVE  Local'
  BY <1>1 DEF Prepare, cache, request, Local
<1>2. ASSUME NEW p \in Prepares, PrepareStatus(p)
      PROVE  Local'
  BY <1>2 DEF PrepareStatus, cache, request, Local
<1>3. CASE Tick
  BY <1>3 DEF Tick, cache, request, Local
<1>4. ASSUME NEW r \in Requests, NEW a \in Applies, Receive(r, a)
      PROVE  Local'
  BY <1>4, AppliesAssumption DEF Receive, cache, Local, Places
<1>5. ASSUME NEW r \in Requests, NEW a \in Applies, ReceiveDirect(r, a)
      PROVE  Local'
  BY <1>5, AppliesAssumption DEF ReceiveDirect, cache, Local, Places
<1>6. ASSUME NEW r \in Requests, BeginKey(r)
      PROVE  Local'
  BY <1>6, BeginKeepsResults DEF BeginKey, Idem!BeginExecute, Local, Places
<1>7. ASSUME NEW r \in Requests, ReplayKey(r)
      PROVE  Local'
  BY <1>7 DEF ReplayKey, Idem!Replays, cache, Local, Places
<1>8. ASSUME NEW r \in Requests, RefuseKey(r)
      PROVE  Local'
  BY <1>8 DEF RefuseKey, cache, Local, Places
<1>9. ASSUME NEW r \in Requests, AuditStarted(r)
      PROVE  Local'
  BY <1>9 DEF AuditStarted, cache, Local, Places
<1>10. ASSUME NEW r \in Requests, StartHandler(r)
       PROVE  Local'
  BY <1>10 DEF StartHandler, cache, Local, Places
<1>11. ASSUME NEW r \in Requests, RefuseStart(r)
       PROVE  Local'
  <2>1. \A q \in DOMAIN entries' :
           ~entries'[q].inFlight => entries'[q].result \in Outcomes
    BY <1>11, AbortKeepsResults DEF RefuseStart, cache, Local
  <2>2. QED
    BY <1>11, <2>1 DEF RefuseStart, Idem!AbortEntry, cache, Local, Places, Outcomes
<1>12. ASSUME NEW r \in Requests, HandlerChanges(r) \/ LateChange(r)
       PROVE  Local'
  BY <1>12 DEF HandlerChanges, LateChange, TakesEffect, cache, Local, Places
<1>13. ASSUME NEW r \in Requests, HandlerAudits(r)
       PROVE  Local'
  BY <1>13 DEF HandlerAudits, cache, request, Local
<1>14. ASSUME NEW r \in Requests, NEW o \in Outcomes, HandlerReturns(r, o)
       PROVE  Local'
  <2>1. \A q \in DOMAIN entries' :
           ~entries'[q].inFlight => entries'[q].result \in Outcomes
    BY <1>14, FinishKeepsResults DEF HandlerReturns, cache, Local
  <2>2. QED
    BY <1>14, <2>1 DEF HandlerReturns, Idem!FinishEntry, cache, Local, Places
<1>15. ASSUME NEW r \in Requests, NEW o \in Outcomes, HandlerRaises(r, o)
       PROVE  Local'
  BY <1>15 DEF HandlerRaises, cache, Local, Places
<1>16. ASSUME NEW r \in Requests, AuditFailure(r)
       PROVE  Local'
  BY <1>16 DEF AuditFailure, cache, Local, Places
<1>17. ASSUME NEW r \in Requests, Settle(r)
       PROVE  Local'
  <2>1. outcome[r] \in Outcomes
    BY <1>17 DEF Settle, Local
  <2>2. \A q \in DOMAIN entries' :
           ~entries'[q].inFlight => entries'[q].result \in Outcomes
    BY <1>17, <2>1, FinishKeepsResults, AbortKeepsResults DEF Settle
  <2>3. QED
    BY <1>17, <2>2 DEF Settle, Idem!AbortEntry, Idem!FinishEntry, Local, Places
<1>18. ASSUME NEW r \in Requests, AuditReceipt(r)
       PROVE  Local'
  BY <1>18 DEF AuditReceipt, cache, Local, Places
<1>19. CASE Restart
  BY <1>19 DEF Restart, Underway, Local, Places
<1>20. CASE UNCHANGED vars
  BY <1>20 DEF vars, cache, request, Local
<1>21. ASSUME NEW r \in Requests, Cancel(r)
       PROVE  Local'
  BY <1>21 DEF Cancel, cache, request, Local
<1>22. QED
  BY <1>1, <1>2, <1>3, <1>4, <1>5, <1>6, <1>7, <1>8, <1>9, <1>10, <1>11, <1>12,
     <1>13, <1>14, <1>15, <1>16, <1>17, <1>18, <1>19, <1>20, <1>21 DEF Next, Progress

LEMMA LocalHolds == Spec => []Local
<1>1. Init => Local
  BY BoundsAssumption DEF Init, Local, Keyed, Places
<1>2. QED
  BY <1>1, LocalStep, PTL DEF Spec
-------------------------------------------------------------------------------
\* The engine reaches the prepared store only through its operations: each step is
\* a step of the store or leaves it alone (engine.py:1054-1061, 1319, 1331).
LEMMA StoreStep == Local /\ [Next]_vars => [Stores!PreparedNext]_(Stores!preparedVars)
<1> SUFFICES ASSUME Local, [Next]_vars
             PROVE  [Stores!PreparedNext]_(Stores!preparedVars)
  OBVIOUS
<1> USE DEF Stores!preparedVars, store
<1>1. ASSUME NEW p \in Prepares, NEW s \in Sessions, NEW f \in BOOLEAN,
             Prepare(p, s, f)
      PROVE  Stores!PreparedNext
  <2>1. Stores!Create(p, s, f)
    BY <1>1 DEF Prepare, Prepared!Create, Stores!Create, Prepared!Fresh, Stores!Fresh,
         Prepared!Pruned, Stores!Pruned, Prepared!Stale, Stores!Stale
  <2>2. QED
    BY <2>1 DEF Stores!PreparedNext
<1>2. ASSUME NEW p \in Prepares, PrepareStatus(p)
      PROVE  Stores!PreparedNext
  <2>1. Stores!Status(p)
    BY <1>2 DEF PrepareStatus, Prepared!Status, Stores!Status, Prepared!Expired,
         Stores!Expired, Prepared!Without, Stores!Without, Prepared!Pruned,
         Stores!Pruned, Prepared!Stale, Stores!Stale, Prepared!history, Stores!history
  <2>2. QED
    BY <2>1 DEF Stores!PreparedNext
<1>3. CASE Tick
  BY <1>3 DEF Tick, Prepared!Tick, Prepared!history, Stores!PreparedNext, Stores!Tick, Stores!history
<1>4. ASSUME NEW r \in Requests, StartHandler(r)
      PROVE  Stores!PreparedNext
  <2>1. arg[r].prepare \in Prepares /\ arg[r].call \in Stores!Call
    BY <1>4, ArgumentFields DEF StartHandler, Goes, Prepared!Call, Stores!Call
  <2>2. Stores!BeginGranted(arg[r].prepare, arg[r].call)
    BY <1>4 DEF StartHandler, Prepared!BeginGranted, Stores!BeginGranted,
         Prepared!Readings, Stores!Readings, Prepared!Grants, Stores!Grants,
         Prepared!Accepts, Stores!Accepts, Prepared!Pruned, Stores!Pruned,
         Prepared!Stale, Stores!Stale
  <2>3. QED
    BY <2>1, <2>2 DEF Stores!PreparedNext
<1>5. ASSUME NEW r \in Requests, RefuseStart(r)
      PROVE  Stores!PreparedNext
  <2>1. arg[r].prepare \in Prepares /\ arg[r].call \in Stores!Call
    BY <1>5, ArgumentFields DEF RefuseStart, Goes, Prepared!Call, Stores!Call
  <2>2. Stores!BeginRefused(arg[r].prepare, arg[r].call)
    BY <1>5 DEF RefuseStart, Prepared!BeginRefused, Stores!BeginRefused,
         Prepared!Readings, Stores!Readings, Prepared!Grants, Stores!Grants,
         Prepared!Accepts, Stores!Accepts, Prepared!Pruned, Stores!Pruned,
         Prepared!Stale, Stores!Stale, Prepared!Expired, Stores!Expired,
         Prepared!Without, Stores!Without, Prepared!history, Stores!history
  <2>3. QED
    BY <2>1, <2>2 DEF Stores!PreparedNext
<1>6. ASSUME NEW r \in Requests, Prepared!FinishApply(arg[r].prepare, TRUE), pc[r] # "idle"
      PROVE  Stores!PreparedNext
  <2>1. Stores!FinishApply(arg[r].prepare, TRUE)
    BY <1>6 DEF Prepared!FinishApply, Stores!FinishApply
  <2>2. QED
    BY <1>6, <2>1, ArgumentFields DEF Stores!PreparedNext
<1>7. CASE Restart
  BY <1>7 DEF Restart, Prepared!RestartPrepared, Stores!RestartPrepared, Stores!PreparedNext
<1>8. ASSUME NEW r \in Requests,
             \/ BeginKey(r) \/ ReplayKey(r) \/ RefuseKey(r) \/ AuditStarted(r)
             \/ HandlerChanges(r) \/ LateChange(r) \/ HandlerAudits(r)
             \/ AuditFailure(r) \/ Settle(r) \/ AuditReceipt(r)
             \/ \E a \in Applies : Receive(r, a) \/ ReceiveDirect(r, a)
      PROVE  UNCHANGED Stores!preparedVars
  BY <1>8 DEF BeginKey, ReplayKey, RefuseKey, AuditStarted, HandlerChanges, LateChange,
       TakesEffect, HandlerAudits, AuditFailure, Settle, AuditReceipt, Receive, ReceiveDirect
<1>9. ASSUME NEW r \in Requests, NEW o \in Outcomes,
             HandlerReturns(r, o) \/ HandlerRaises(r, o)
      PROVE  Stores!PreparedNext
  BY <1>6, <1>9 DEF HandlerReturns, HandlerRaises, Goes
<1>10. CASE UNCHANGED vars
  BY <1>10 DEF vars
<1>11. ASSUME NEW r \in Requests, Cancel(r)
       PROVE  [Stores!PreparedNext]_(Stores!preparedVars)
  <2>1. arg[r].prepare \in Prepares
    BY <1>11, ArgumentFields DEF Cancel, Live, Underway
  <2>2. CASE pc[r] \in {"running", "changed"}
    <3>1. Stores!AbandonApply(arg[r].prepare)
      BY <1>11, <2>2 DEF Cancel, Prepared!AbandonApply, Stores!AbandonApply
    <3>2. QED
      BY <2>1, <3>1 DEF Stores!PreparedNext
  <2>3. CASE pc[r] \notin {"running", "changed"}
    BY <1>11, <2>3 DEF Cancel
  <2>4. QED
    BY <2>2, <2>3
<1>12. QED
  BY <1>1, <1>2, <1>3, <1>4, <1>5, <1>7, <1>8, <1>9, <1>10, <1>11 DEF Next, Progress

LEMMA EngineUsesStore == Spec => Stores!PreparedSpec
<1>1. Init => Stores!PreparedInit
  BY DEF Init, Prepared!PreparedInit, Stores!PreparedInit
<1>2. QED
  BY <1>1, StoreStep, LocalHolds, PTL DEF Spec, Stores!PreparedSpec
-------------------------------------------------------------------------------
\* The same of the idempotency store: a request is one of its callers from begin to
\* finish or abort (engine.py:868-916).
Calls == [r \in Requests |-> CallOf(r)]

LEMMA HolderCalls ==
  ASSUME NEW r \in Requests, Holds(r), Local
  PROVE  /\ CallOf(r) = [key |-> arg[r].key, fingerprint |-> Fingerprint(arg[r])]
         /\ CallOf(r) # Stores!Idle
<1>1. arg[r].key \in Keys
  BY ArgumentFields DEF Holds, Executing
<1>2. QED
  BY <1>1, KeysAssumption DEF CallOf, Stores!Idle, Stores!Nothing

\* A step of request r alone changes at most the call of r.
LEMMA OthersKeepCalls ==
  ASSUME Local, NEW r \in Requests, NEW to \in Places,
         pc' = [pc EXCEPT ![r] = to], arg' = [arg EXCEPT ![r] = arg'[r]]
  PROVE  Calls' = [Calls EXCEPT ![r] = CallOf(r)']
<1>1. ASSUME NEW q \in Requests, q # r
      PROVE  CallOf(q)' = CallOf(q)
  BY <1>1 DEF Local, CallOf, Holds, Fingerprint
<1>2. QED
  BY <1>1 DEF Calls

LEMMA QuietCall ==
  ASSUME Local, NEW r \in Requests, NEW to \in Places,
         pc' = [pc EXCEPT ![r] = to], arg' = [arg EXCEPT ![r] = arg'[r]],
         \/ ~Holds(r) /\ ~Holds(r)'
         \/ Holds(r) /\ Holds(r)' /\ arg'[r] = arg[r]
  PROVE  Calls' = Calls
<1>1. CallOf(r)' = CallOf(r)
  BY DEF CallOf, Fingerprint
<1>2. QED
  BY <1>1, OthersKeepCalls DEF Calls

LEMMA EndsCall ==
  ASSUME Local, NEW r \in Requests, NEW to \in Places \ Executing,
         pc' = [pc EXCEPT ![r] = to], arg' = arg
  PROVE  Calls' = [Calls EXCEPT ![r] = Stores!Idle]
<1>1. CallOf(r)' = Stores!Idle
  BY DEF Local, CallOf, Holds, Stores!Idle, Stores!Nothing
<1>2. QED
  BY <1>1, OthersKeepCalls DEF Local

\* The two names of Cardinality that the two instances bring along are one.
LEMMA SameCardinality ==
  \A S : Idem!Cardinality(S) = Stores!Cardinality(S)
  BY DEF Idem!Cardinality, Stores!Cardinality

LEMMA CacheStep == Local /\ [Next]_vars => [Stores!Next]_(Stores!vars)
<1> SUFFICES ASSUME Local, [Next]_vars
             PROVE  [Stores!Next]_(Stores!vars)
  OBVIOUS
<1> USE DEF Stores!vars, cache, Goes
<1>1. ASSUME UNCHANGED <<entries, begun, pc, arg>>
      PROVE  UNCHANGED Stores!vars
  BY <1>1 DEF CallOf, Holds, Fingerprint
<1>2. ASSUME UNCHANGED <<entries, begun>>, Calls' = Calls
      PROVE  UNCHANGED Stores!vars
  BY <1>2 DEF Calls
<1>3. ASSUME NEW r \in Requests, NEW o \in Outcomes,
             Holds(r), Calls' = [Calls EXCEPT ![r] = Stores!Idle],
             Idem!FinishEntry(arg[r].key, Fingerprint(arg[r]), o)
      PROVE  Stores!Next
  <2>1. Stores!Finish(r, o)
    <3>1. Stores!FinishEntry(arg[r].key, Fingerprint(arg[r]), o)
      BY <1>3 DEF Idem!FinishEntry, Stores!FinishEntry
    <3>2. QED
      BY <1>3, <3>1, HolderCalls DEF Calls, Stores!Finish
  <2>2. QED
    BY <2>1 DEF Stores!Next
<1>4. ASSUME NEW r \in Requests, Holds(r),
             Calls' = [Calls EXCEPT ![r] = Stores!Idle],
             Idem!AbortEntry(arg[r].key, Fingerprint(arg[r]))
      PROVE  Stores!Next
  <2>1. Stores!Abort(r)
    BY <1>4, HolderCalls DEF Calls, Stores!Abort, Idem!AbortEntry, Stores!AbortEntry,
         Idem!Aborts, Stores!Aborts
  <2>2. QED
    BY <2>1 DEF Stores!Next
<1>5. ASSUME NEW r \in Requests, BeginKey(r)
      PROVE  Stores!Next
  <2> DEFINE k == arg[r].key
             f == Fingerprint(arg[r])
  <2>1. k \in Keys /\ f \in Fingerprints
    BY <1>5, ArgumentFields DEF BeginKey
  <2>2. Stores!BeginExecute(k, f)
    <3>1. Idem!Evictions = Stores!Evictions
      BY SameCardinality DEF Idem!Evictions, Stores!Evictions, Idem!Full, Stores!Full,
           Idem!Completed, Stores!Completed, Idem!Oldest, Stores!Oldest
    <3>2. QED
      BY <1>5, <3>1 DEF BeginKey, Idem!BeginExecute, Stores!BeginExecute,
           Idem!Nothing, Stores!Nothing
  <2>3. CallOf(r) = Stores!Idle
    BY <1>5 DEF BeginKey, CallOf, Holds, Executing, Stores!Idle, Stores!Nothing
  <2>4. CallOf(r)' = [key |-> k, fingerprint |-> f]
    BY <1>5 DEF BeginKey, Local, Keyed, CallOf, Holds, Executing, Fingerprint
  <2>5. Calls' = [Calls EXCEPT ![r] = [key |-> k, fingerprint |-> f]]
    BY <1>5, <2>4, OthersKeepCalls DEF BeginKey, Local, Places
  <2>6. Stores!Begin(r, k, f)
    BY <2>2, <2>3, <2>5 DEF Calls, Stores!Begin, Local
  <2>7. QED
    BY <2>1, <2>6 DEF Stores!Next
<1>6. ASSUME NEW r \in Requests, RefuseStart(r)
      PROVE  [Stores!Next]_(Stores!vars)
  <2>1. Local /\ pc[r] = "started" /\ arg' = arg
    BY <1>6 DEF RefuseStart
  <2>2. CASE arg[r].route = "dispatch"
    <3>1. pc' = [pc EXCEPT ![r] = "failed"]
      BY <1>6, <2>2 DEF RefuseStart
    <3>2. Calls' = [Calls EXCEPT ![r] = Stores!Idle]
      BY <2>1, <3>1, EndsCall DEF Places, Executing
    <3>3. QED
      BY <1>4, <1>6, <2>1, <2>2, <3>2 DEF RefuseStart, Holds, Executing
  <2>3. CASE arg[r].route # "dispatch"
    <3>1. pc' = [pc EXCEPT ![r] = "refused"]
      BY <1>6, <2>3 DEF RefuseStart
    <3>2. ~Holds(r) /\ ~Holds(r)'
      BY <2>1, <2>3 DEF Holds
    <3>3. Calls' = Calls
      BY <2>1, <3>1, <3>2, QuietCall DEF Places, Local
    <3>4. QED
      BY <1>2, <1>6, <2>3, <3>3 DEF RefuseStart
  <2>4. QED
    BY <2>2, <2>3
<1>7. ASSUME NEW r \in Requests, NEW o \in Outcomes, HandlerReturns(r, o)
      PROVE  [Stores!Next]_(Stores!vars)
  <2>1. Local /\ pc[r] = "changed" /\ arg' = arg
    BY <1>7 DEF HandlerReturns
  <2>2. CASE arg[r].route = "dispatch"
    <3>1. pc' = [pc EXCEPT ![r] = "completing"]
      BY <1>7, <2>2 DEF HandlerReturns
    <3>2. Calls' = [Calls EXCEPT ![r] = Stores!Idle]
      BY <2>1, <3>1, EndsCall DEF Places, Executing
    <3>3. QED
      <4>1. Holds(r)
        BY <2>1, <2>2 DEF Holds, Executing
      <4>2. Idem!FinishEntry(arg[r].key, Fingerprint(arg[r]), o)
        BY <1>7, <2>2 DEF HandlerReturns
      <4>3. QED
        BY <1>3, <3>2, <4>1, <4>2
  <2>3. CASE arg[r].route # "dispatch"
    <3>1. pc' = [pc EXCEPT ![r] = "done"]
      BY <1>7, <2>3 DEF HandlerReturns
    <3>2. ~Holds(r) /\ ~Holds(r)'
      BY <2>1, <2>3 DEF Holds
    <3>3. Calls' = Calls
      BY <2>1, <3>1, <3>2, QuietCall DEF Places, Local
    <3>4. QED
      BY <1>2, <1>7, <2>3, <3>3 DEF HandlerReturns
  <2>4. QED
    BY <2>2, <2>3
<1>8. ASSUME NEW r \in Requests, Settle(r)
      PROVE  [Stores!Next]_(Stores!vars)
  <2>1. Holds(r) /\ outcome[r] \in Outcomes
    BY <1>8 DEF Settle, Holds, Executing, Local, Keyed
  <2>2. Calls' = [Calls EXCEPT ![r] = Stores!Idle]
    <3>1. pc' = [pc EXCEPT ![r] = "failed"] /\ arg' = arg
      BY <1>8 DEF Settle
    <3>2. QED
      BY <3>1, EndsCall DEF Places, Executing
  <2>3. CASE outcome[r] = NotApplied
    <3>1. Idem!AbortEntry(arg[r].key, Fingerprint(arg[r]))
      BY <1>8, <2>3 DEF Settle
    <3>2. QED
      BY <1>4, <2>1, <2>2, <3>1
  <2>4. CASE outcome[r] # NotApplied
    <3>1. Idem!FinishEntry(arg[r].key, Fingerprint(arg[r]), outcome[r])
      BY <1>8, <2>4 DEF Settle
    <3>2. QED
      BY <1>3, <2>1, <2>2, <3>1
  <2>5. QED
    BY <2>3, <2>4
<1>9. CASE Restart
  <2>1. Calls' = [r \in Requests |-> Stores!Idle]
    BY <1>9 DEF Restart, Underway, Calls, CallOf, Holds, Executing, Stores!Idle, Stores!Nothing
  <2>2. QED
    BY <1>9, <2>1 DEF Restart, Calls, Stores!Restart, Stores!Next
<1>10. ASSUME NEW r \in Requests, NEW a \in Applies,
              Receive(r, a) \/ ReceiveDirect(r, a)
       PROVE  UNCHANGED Stores!vars
  <2>1. PICK to \in {"received", "started"} : Goes(r, "idle", to)
    BY <1>10 DEF Receive, ReceiveDirect
  <2>2. arg' = [arg EXCEPT ![r] = arg'[r]] /\ (to = "started" => arg'[r].route = "direct")
    BY <1>10, <2>1 DEF Receive, ReceiveDirect, Local
  <2>3. ~Holds(r) /\ ~Holds(r)'
    BY <2>1, <2>2 DEF Holds, Executing, Local
  <2>4. Calls' = Calls
    BY <2>1, <2>2, <2>3, QuietCall DEF Places
  <2>5. QED
    BY <1>2, <1>10, <2>4 DEF Receive, ReceiveDirect
<1>11. ASSUME NEW r \in Requests, ReplayKey(r) \/ RefuseKey(r) \/ AuditReceipt(r)
       PROVE  UNCHANGED Stores!vars
  <2>1. PICK to \in {"replaying", "refused", "done"} :
           /\ pc[r] \notin Executing
           /\ pc' = [pc EXCEPT ![r] = to] /\ arg' = arg
    BY <1>11 DEF ReplayKey, RefuseKey, AuditReceipt, Executing
  <2>2. ~Holds(r) /\ ~Holds(r)'
    BY <2>1 DEF Holds, Executing, Local
  <2>3. Calls' = Calls
    BY <2>1, <2>2, QuietCall DEF Places, Local
  <2>4. QED
    BY <1>2, <1>11, <2>3 DEF ReplayKey, RefuseKey, AuditReceipt
<1>12. ASSUME NEW r \in Requests,
              \/ AuditStarted(r) \/ StartHandler(r) \/ HandlerChanges(r)
              \/ LateChange(r) \/ AuditFailure(r)
              \/ \E o \in Outcomes : HandlerRaises(r, o)
       PROVE  UNCHANGED Stores!vars
  <2>1. PICK to \in {"started", "running", "changed", "failing", "settling", "done"} :
           /\ pc[r] \in Executing
           /\ pc' = [pc EXCEPT ![r] = to] /\ arg' = arg
           /\ to = "done" => arg[r].route # "dispatch"
    BY <1>12 DEF AuditStarted, StartHandler, HandlerChanges, LateChange, TakesEffect,
         AuditFailure, HandlerRaises, Executing
  <2>2. Holds(r)' <=> Holds(r)
    BY <2>1 DEF Holds, Executing, Local
  <2>3. Calls' = Calls
    BY <2>1, <2>2, QuietCall DEF Places, Local
  <2>4. QED
    BY <1>2, <1>12, <2>3 DEF AuditStarted, StartHandler, HandlerChanges, LateChange,
         TakesEffect, AuditFailure, HandlerRaises
<1>13. ASSUME \/ \E p \in Prepares, s \in Sessions, f \in BOOLEAN : Prepare(p, s, f)
              \/ \E p \in Prepares : PrepareStatus(p)
              \/ Tick
              \/ \E r \in Requests : HandlerAudits(r) \/ Cancel(r)
              \/ UNCHANGED vars
       PROVE  UNCHANGED Stores!vars
  BY <1>1, <1>13 DEF Prepare, PrepareStatus, Tick, HandlerAudits, Cancel, vars, request
<1>14. QED
  BY <1>5, <1>6, <1>7, <1>8, <1>9, <1>10, <1>11, <1>12, <1>13 DEF Next, Progress

LEMMA EngineUsesCache == Spec => Stores!Spec
<1>1. Init => Stores!Init
  BY DEF Init, Stores!Init, CallOf, Holds, Executing, Stores!Idle, Stores!Nothing
<1>2. QED
  BY <1>1, CacheStep, LocalHolds, PTL DEF Spec, Stores!Spec
-------------------------------------------------------------------------------
\* What makes AtMostOnce inductive: handlers run only for ids that were handed out,
\* no two for one id, and the one that is about to change Home Assistant is the first.
Handling(r) == pc[r] \in {"running", "changed"}

Effective ==
    /\ effects \in [Prepares -> Nat]
    /\ \A r \in Requests : Handling(r) => uses[arg[r].prepare] > 0
    /\ \A r, q \in Requests :
          Handling(r) /\ Handling(q) /\ arg[r].prepare = arg[q].prepare => r = q
    /\ \A p \in Prepares : effects[p] > 0 => uses[p] > 0
    /\ \A r \in Requests : pc[r] = "running" => effects[arg[r].prepare] = 0
    /\ AtMostOnce

\* Steps that start no handler and change nothing in Home Assistant.
LEMMA CalmStep ==
  ASSUME Local, Effective, uses' = uses, effects' = effects,
         \A r \in Requests : Handling(r)' => /\ arg'[r] = arg[r] /\ Handling(r)
                                             /\ pc'[r] = pc[r]
  PROVE  Effective'
  BY DEF Effective, AtMostOnce, Handling

LEMMA EffectiveStep ==
  ASSUME Local, Effective, Stores!PreparedTypeOK, Stores!SingleUse, Stores!SingleUse', [Next]_vars
  PROVE  Effective'
<1> USE DEF Goes
<1>1. ASSUME NEW r \in Requests, StartHandler(r)
      PROVE  Effective'
  <2> DEFINE p == arg[r].prepare
  <2>1. p \in Prepares
    BY <1>1, ArgumentFields DEF StartHandler
  <2>2. uses' = [uses EXCEPT ![p] = @ + 1] /\ uses \in [Prepares -> Nat]
    BY <1>1 DEF StartHandler, Prepared!BeginGranted, Stores!PreparedTypeOK
  <2>3. uses[p] = 0
    BY <2>1, <2>2 DEF Stores!SingleUse
  <2>4. effects' = effects /\ arg' = arg /\ pc' = [pc EXCEPT ![r] = "running"]
    BY <1>1 DEF StartHandler, past
  <2>5. effects[p] = 0
    BY <2>1, <2>3 DEF Effective
  <2>6. \A q \in Requests : Handling(q) => arg[q].prepare # p
    BY <2>3 DEF Effective
  <2>7. \A q \in Requests : Handling(q)' <=> Handling(q) \/ q = r
    BY <2>4 DEF Handling, Local
  <2>8. \A q \in Prepares : uses'[q] > 0 <=> uses[q] > 0 \/ q = p
    BY <2>1, <2>2
  <2>9. \A q \in Requests : pc'[q] = "running" => pc[q] = "running" \/ q = r
    BY <2>4 DEF Local
  <2>10. \A q \in Requests : Handling(q) => arg[q].prepare \in Prepares
    BY ArgumentFields DEF Handling
  <2>11. QED
    BY <2>1, <2>4, <2>5, <2>6, <2>7, <2>8, <2>9, <2>10 DEF Effective, AtMostOnce
<1>2. ASSUME NEW r \in Requests, HandlerChanges(r) \/ LateChange(r)
      PROVE  Effective'
  <2> DEFINE p == arg[r].prepare
  <2>1. p \in Prepares
    BY <1>2, ArgumentFields DEF HandlerChanges, LateChange
  <2>2. /\ uses' = uses /\ arg' = arg /\ pc' = [pc EXCEPT ![r] = "changed"]
        /\ effects' = [effects EXCEPT ![p] = @ + 1]
        /\ pc[r] = "running"
    BY <1>2 DEF HandlerChanges, LateChange, TakesEffect, store
  <2>3. effects[p] = 0 /\ uses[p] > 0
    BY <2>2 DEF Effective, Handling
  <2>4. \A q \in Requests : Handling(q)' <=> Handling(q)
    BY <2>2 DEF Handling, Local
  <2>5. \A q \in Requests : pc'[q] = "running" => pc[q] = "running" /\ arg[q].prepare # p
    BY <2>2 DEF Effective, Handling, Local
  <2>6. QED
    BY <2>1, <2>2, <2>3, <2>4, <2>5 DEF Effective, AtMostOnce
<1>3. ASSUME NEW r \in Requests,
             \/ BeginKey(r) \/ ReplayKey(r) \/ RefuseKey(r) \/ AuditStarted(r)
             \/ RefuseStart(r) \/ AuditFailure(r) \/ Settle(r) \/ AuditReceipt(r)
             \/ \E o \in Outcomes : HandlerReturns(r, o) \/ HandlerRaises(r, o)
             \/ \E a \in Applies : Receive(r, a) \/ ReceiveDirect(r, a)
      PROVE  Effective'
  <2>1. PICK to \in Places \ {"running", "changed"} : pc' = [pc EXCEPT ![r] = to]
    BY <1>3 DEF BeginKey, ReplayKey, RefuseKey, AuditStarted, RefuseStart,
         AuditFailure, Settle, AuditReceipt, HandlerReturns, HandlerRaises, Receive,
         ReceiveDirect, Places
  <2>2. \A q \in Requests \ {r} : arg'[q] = arg[q]
    BY <1>3 DEF BeginKey, ReplayKey, RefuseKey, AuditStarted, RefuseStart,
         AuditFailure, Settle, AuditReceipt, HandlerReturns, HandlerRaises, Receive,
         ReceiveDirect, Local
  <2>3. effects' = effects /\ uses' = uses
    BY <1>3 DEF BeginKey, ReplayKey, RefuseKey, AuditStarted, RefuseStart,
         AuditFailure, Settle, AuditReceipt, HandlerReturns, HandlerRaises, Receive,
         ReceiveDirect, store, past, Prepared!BeginRefused, Prepared!history,
         Prepared!FinishApply
  <2>4. QED
    BY <2>1, <2>2, <2>3, CalmStep DEF Handling, Local
<1>4. ASSUME \/ \E p \in Prepares, s \in Sessions, f \in BOOLEAN : Prepare(p, s, f)
             \/ \E p \in Prepares : PrepareStatus(p)
             \/ Tick
             \/ \E r \in Requests : HandlerAudits(r) \/ Cancel(r)
             \/ UNCHANGED vars
      PROVE  Effective'
  <2>1. pc' = pc /\ arg' = arg /\ effects' = effects /\ uses' = uses
    BY <1>4 DEF Prepare, PrepareStatus, Tick, HandlerAudits, Cancel, vars, request, past, store,
         Prepared!Create, Prepared!Status, Prepared!Tick, Prepared!AbandonApply,
         Prepared!history
  <2>2. QED
    BY <2>1, CalmStep DEF Handling
<1>5. CASE Restart
  <2>1. effects' = effects /\ uses' = uses /\ arg' = arg
    BY <1>5 DEF Restart, Prepared!RestartPrepared
  <2>2. \A r \in Requests : ~Handling(r)'
    BY <1>5 DEF Restart, Underway, Handling
  <2>3. QED
    BY <2>1, <2>2, CalmStep
<1>6. QED
  BY <1>1, <1>2, <1>3, <1>4, <1>5 DEF Next, Progress

(* Single use, end to end: for any number of requests, keys, prepared      *)
(* mutations, ticks and restarts, Home Assistant is changed at most once   *)
(* per prepare_id (AtMostOnce).                                            *)
THEOREM EffectsAtMostOnce == Spec => []AtMostOnce
<1>1. Init => Effective
  BY DEF Init, Effective, Handling, AtMostOnce
<1>2. Spec => [](Stores!PreparedTypeOK /\ Stores!SingleUse)
  BY EngineUsesStore, Stores!PreparedTypeCorrect, Stores!SingleUseHolds, StoreAssumptions, PTL
<1>3. Effective => AtMostOnce
  BY DEF Effective
<1>4. QED
  BY <1>1, <1>2, <1>3, LocalHolds, EffectiveStep, PTL DEF Spec

(* The key of a request is a lock from begin to finish or abort, or for    *)
(* good once the request was cancelled in between (KeysOwned), whatever    *)
(* else the engine does.                                                   *)
THEOREM KeysAreOwned == Spec => []KeysOwned
<1>1. Stores!InFlightOwned /\ Stores!OneCallerPerKey => KeysOwned
  BY DEF Stores!InFlightOwned, Stores!OneCallerPerKey, KeysOwned, Idem!InFlightOwned,
       Idem!OneCallerPerKey, Stores!Idle, Idem!Idle, Stores!Nothing, Idem!Nothing
<1>2. QED
  BY <1>1, EngineUsesCache, Stores!Ownership, StoreAssumptions, PTL

(* Every variable keeps its type (TypeOK).                                 *)
THEOREM TypeCorrect == Spec => []TypeOK
<1>1. Stores!PreparedTypeOK => Prepared!PreparedTypeOK
  BY DEF Stores!PreparedTypeOK, Prepared!PreparedTypeOK, Stores!Item, Prepared!Item
<1>2. Stores!TypeOK => /\ DOMAIN entries \subseteq Keys
                      /\ \A k \in DOMAIN entries : entries[k] \in Idem!Entry
  BY DEF Stores!TypeOK, Stores!Entry, Idem!Entry, Stores!Nothing, Idem!Nothing
<1>3. Local /\ Effective /\ Stores!PreparedTypeOK /\ Stores!TypeOK => TypeOK
  BY <1>1, <1>2 DEF TypeOK, Local, Effective
<1>4. Init => Effective
  BY DEF Init, Effective, Handling, AtMostOnce
<1>5. QED
  BY <1>3, <1>4, EngineUsesStore, EngineUsesCache, Stores!PreparedTypeCorrect, Stores!SingleUseHolds,
     Stores!IdempotencyTypeCorrect, StoreAssumptions, LocalHolds, EffectiveStep, PTL
     DEF Spec

(* Whatever the requests do, each prepared mutation goes through the       *)
(* one-way life of OneShot (the safety part of ImplementsOneShot).         *)
THEOREM Refinement == Spec => Promise!Spec
<1> DEFINE mine == [p \in Prepares |-> Prepared!PhaseOf(p)]
           theirs == [p \in Prepares |-> Stores!PhaseOf(p)]
<1>1. mine = theirs /\ mine' = theirs'
  BY DEF Prepared!PhaseOf, Stores!PhaseOf, Prepared!Open, Stores!Open
<1>2. Stores!Promise!Init => Promise!Init
  BY <1>1 DEF Stores!Promise!Init, Promise!Init
<1>3. [Stores!Promise!Next]_theirs => [Promise!Next]_mine
  BY <1>1 DEF Stores!Promise!Next, Promise!Next, Stores!Promise!Phases, Promise!Phases,
     Stores!Promise!Moves, Promise!Moves
<1>4. Stores!Promise!Spec => Promise!Spec
  BY <1>2, <1>3, PTL DEF Stores!Promise!Spec, Promise!Spec
<1>5. QED
  BY <1>4, EngineUsesStore, Stores!Refinement, StoreAssumptions, PTL
     DEF Stores!ImplementsOneShot
-------------------------------------------------------------------------------
\* A step that starts no item and drops no handler.
LEMMA FlightsStay ==
  ASSUME FlightsExplained,
         \A p \in DOMAIN items' : items'[p].inFlight =>
            p \in DOMAIN items /\ items[p].inFlight,
         \A r \in Requests : Handling(r) => Handling(r)' /\ arg'[r] = arg[r]
  PROVE  FlightsExplained'
  BY DEF FlightsExplained, Handling

\* The same, when the handler that goes was the one of an item that ended.
LEMMA FlightEnds ==
  ASSUME FlightsExplained, NEW r \in Requests,
         Prepared!FinishApply(arg[r].prepare, TRUE),
         Prepared!PreparedTypeOK,
         \A q \in Requests \ {r} : Handling(q) => Handling(q)' /\ arg'[q] = arg[q]
  PROVE  FlightsExplained'
<1>1. \A p \in DOMAIN items' : items'[p].inFlight =>
         p \in DOMAIN items /\ items[p].inFlight /\ p # arg[r].prepare
  BY DEF Prepared!FinishApply, Prepared!PreparedTypeOK, Prepared!Item
<1>2. QED
  BY <1>1 DEF FlightsExplained, Handling

LEMMA FlightStep ==
  ASSUME Local, Prepared!PreparedTypeOK, FlightsExplained, [Next]_vars
  PROVE  FlightsExplained'
<1> USE DEF Goes
<1>1. ASSUME NEW p \in Prepares, NEW s \in Sessions, NEW f \in BOOLEAN,
             Prepare(p, s, f)
      PROVE  FlightsExplained'
  <2>1. \A q \in DOMAIN items' : items'[q].inFlight =>
           q \in DOMAIN items /\ items[q].inFlight
    BY <1>1 DEF Prepare, Prepared!Create, Prepared!Pruned, Prepared!Fresh
  <2>2. QED
    BY <1>1, <2>1, FlightsStay DEF Prepare, request, Handling
<1>2. ASSUME NEW r \in Requests, StartHandler(r)
      PROVE  FlightsExplained'
  <2> DEFINE p == arg[r].prepare
  <2>1. PICK later \in Prepared!Readings :
           items' = [Prepared!Pruned EXCEPT ![p].inFlight = TRUE]
    BY <1>2 DEF StartHandler, Prepared!BeginGranted
  <2>2. arg' = arg /\ \A q \in Requests : Handling(q)' <=> Handling(q) \/ q = r
    BY <1>2 DEF StartHandler, Handling, Local
  <2>3. \A q \in DOMAIN items' : q # p => q \in DOMAIN items /\ items'[q] = items[q]
    BY <2>1 DEF Prepared!Pruned
  <2>4. QED
    BY <2>2, <2>3 DEF FlightsExplained, Handling
<1>3. ASSUME NEW r \in Requests,
             \/ RefuseStart(r)
             \/ \E a \in Applies : Receive(r, a) \/ ReceiveDirect(r, a)
             \/ BeginKey(r) \/ ReplayKey(r) \/ RefuseKey(r) \/ AuditStarted(r)
             \/ AuditFailure(r) \/ Settle(r) \/ AuditReceipt(r)
             \/ HandlerChanges(r) \/ LateChange(r)
      PROVE  FlightsExplained'
  <2>1. \A q \in DOMAIN items' : q \in DOMAIN items /\ items'[q] = items[q]
    BY <1>3 DEF RefuseStart, Prepared!BeginRefused, Prepared!Pruned, Prepared!Without,
         Receive, ReceiveDirect, BeginKey, ReplayKey, RefuseKey, AuditStarted,
         AuditFailure, Settle, AuditReceipt, HandlerChanges, LateChange, TakesEffect,
         store
  <2>2. \A q \in Requests : Handling(q) => Handling(q)' /\ arg'[q] = arg[q]
    BY <1>3 DEF RefuseStart, Receive, ReceiveDirect, BeginKey, ReplayKey, RefuseKey,
         AuditStarted, AuditFailure, Settle, AuditReceipt, HandlerChanges, LateChange,
         TakesEffect, Handling, Local
  <2>3. QED
    BY <2>1, <2>2, FlightsStay
<1>4. ASSUME NEW r \in Requests, NEW o \in Outcomes,
             HandlerReturns(r, o) \/ HandlerRaises(r, o)
      PROVE  FlightsExplained'
  <2>1. \A q \in Requests \ {r} : Handling(q) => Handling(q)' /\ arg'[q] = arg[q]
    BY <1>4 DEF HandlerReturns, HandlerRaises, Handling, Local
  <2>2. QED
    BY <1>4, <2>1, FlightEnds DEF HandlerReturns, HandlerRaises
<1>5. ASSUME \/ \E p \in Prepares : PrepareStatus(p)
             \/ Tick
             \/ \E r \in Requests : HandlerAudits(r) \/ Cancel(r)
             \/ UNCHANGED vars
      PROVE  FlightsExplained'
  <2>1. \A q \in DOMAIN items' : q \in DOMAIN items /\ items'[q] = items[q]
    BY <1>5 DEF PrepareStatus, Prepared!Status, Prepared!Pruned, Prepared!Without, Tick,
         Prepared!Tick, HandlerAudits, Cancel, Prepared!AbandonApply, vars, store
  <2>2. pc' = pc /\ arg' = arg
    BY <1>5 DEF PrepareStatus, Tick, HandlerAudits, Cancel, vars, request
  <2>3. QED
    BY <2>1, <2>2, FlightsStay DEF Handling
<1>6. CASE Restart
  BY <1>6 DEF Restart, Prepared!RestartPrepared, FlightsExplained
<1>7. QED
  BY <1>1, <1>2, <1>3, <1>4, <1>5, <1>6 DEF Next, Progress

(* What the store has in flight is being handled by a request, or by one   *)
(* that was cancelled while it did (FlightsExplained): no return, failure, *)
(* refusal, prune or restart leaves a prepared mutation locked.            *)
THEOREM FlightsAreExplained == Spec => []FlightsExplained
<1>1. Init => FlightsExplained
  BY DEF Init, Prepared!PreparedInit, FlightsExplained
<1>2. Stores!PreparedTypeOK => Prepared!PreparedTypeOK
  BY DEF Stores!PreparedTypeOK, Prepared!PreparedTypeOK, Stores!Item, Prepared!Item
<1>3. QED
  BY <1>1, <1>2, LocalHolds, EngineUsesStore, Stores!PreparedTypeCorrect, StoreAssumptions,
     FlightStep, PTL DEF Spec
-------------------------------------------------------------------------------
\* The one run of p has ended, and what is said about it is so.
Over(p) == /\ p \in Prepares
           /\ uses[p] > 0
           /\ \A r \in Requests : Handling(r) => arg[r].prepare # p

Tells(p, o) == /\ Over(p)
               /\ o = ended[p]
               /\ o \in Succeeded => effects[p] = 1

Reporting == {"failing", "settling", "replaying"}

Truthful ==
    /\ \A r \in Requests : pc[r] \in Reporting => Tells(arg[r].prepare, outcome[r])
    /\ \A k \in DOMAIN entries : ~entries[k].inFlight =>
          Tells(entries[k].fingerprint[1], entries[k].result)
    /\ \A r \in Requests : pc[r] = "changed" => effects[arg[r].prepare] = 1

\* Tells in the next state, of values of either.
Then(p, o) == /\ p \in Prepares
              /\ uses'[p] > 0
              /\ \A r \in Requests : Handling(r)' => arg'[r].prepare # p
              /\ o = ended'[p]
              /\ o \in Succeeded => effects'[p] = 1

LEMMA TruthfulThen ==
  ASSUME \A r \in Requests : pc'[r] \in Reporting =>
            Then(arg'[r].prepare, outcome'[r]),
         \A k \in DOMAIN entries' : ~entries'[k].inFlight =>
            Then(entries'[k].fingerprint[1], entries'[k].result),
         \A r \in Requests : pc'[r] = "changed" => effects'[arg'[r].prepare] = 1
  PROVE  Truthful'
  BY DEF Truthful, Tells, Over, Then

\* What is over stays over, with its outcome and its effect: there is no second use.
LEMMA OverStays ==
  ASSUME Local, Effective, Stores!PreparedTypeOK, Stores!SingleUse', [Next]_vars,
         NEW p, Over(p)
  PROVE  Over(p)' /\ ended'[p] = ended[p] /\ effects'[p] = effects[p]
<1> USE DEF Goes
<1>1. ASSUME NEW r \in Requests, StartHandler(r)
      PROVE  Over(p)' /\ ended'[p] = ended[p] /\ effects'[p] = effects[p]
  <2>1. arg[r].prepare \in Prepares
    BY <1>1, ArgumentFields DEF StartHandler
  <2>2. uses' = [uses EXCEPT ![arg[r].prepare] = @ + 1] /\ uses \in [Prepares -> Nat]
    BY <1>1 DEF StartHandler, Prepared!BeginGranted, Stores!PreparedTypeOK
  <2>3. arg[r].prepare # p
    BY <2>1, <2>2 DEF Over, Stores!SingleUse
  <2>4. uses'[p] = uses[p]
    BY <2>2, <2>3 DEF Over
  <2>5. arg' = arg /\ effects' = effects /\ ended' = ended
    BY <1>1 DEF StartHandler, past
  <2>6. \A q \in Requests : Handling(q)' <=> Handling(q) \/ q = r
    BY <1>1 DEF StartHandler, Handling, Local
  <2>7. QED
    BY <2>3, <2>4, <2>5, <2>6 DEF Over
<1>2. ASSUME NEW r \in Requests,
             \/ HandlerChanges(r) \/ LateChange(r)
             \/ \E o \in Outcomes : HandlerReturns(r, o) \/ HandlerRaises(r, o)
      PROVE  Over(p)' /\ ended'[p] = ended[p] /\ effects'[p] = effects[p]
  <2>1. arg[r].prepare # p
    BY <1>2 DEF HandlerChanges, LateChange, HandlerReturns, HandlerRaises, Handling,
       Over
  <2>2. /\ uses' = uses /\ arg' = arg
        /\ ended'[p] = ended[p] /\ effects'[p] = effects[p]
    BY <1>2, <2>1 DEF HandlerChanges, LateChange, TakesEffect, HandlerReturns, HandlerRaises, store,
       Prepared!FinishApply, Effective, Local, Over
  <2>3. \A q \in Requests : Handling(q)' => Handling(q)
    BY <1>2 DEF HandlerChanges, LateChange, HandlerReturns, HandlerRaises, Handling,
       Local
  <2>4. QED
    BY <2>2, <2>3 DEF Over
<1>3. ASSUME NEW r \in Requests,
             \/ BeginKey(r) \/ ReplayKey(r) \/ RefuseKey(r) \/ AuditStarted(r)
             \/ RefuseStart(r) \/ AuditFailure(r) \/ Settle(r) \/ AuditReceipt(r)
             \/ \E a \in Applies : Receive(r, a) \/ ReceiveDirect(r, a)
      PROVE  Over(p)' /\ ended'[p] = ended[p] /\ effects'[p] = effects[p]
  <2>1. PICK to \in Places \ {"running", "changed"} : pc' = [pc EXCEPT ![r] = to]
    BY <1>3 DEF BeginKey, ReplayKey, RefuseKey, AuditStarted, RefuseStart,
         AuditFailure, Settle, AuditReceipt, Receive, ReceiveDirect, Places
  <2>2. \A q \in Requests \ {r} : arg'[q] = arg[q]
    BY <1>3 DEF BeginKey, ReplayKey, RefuseKey, AuditStarted, RefuseStart,
         AuditFailure, Settle, AuditReceipt, Receive, ReceiveDirect, Local
  <2>3. effects' = effects /\ uses' = uses /\ ended' = ended
    BY <1>3 DEF BeginKey, ReplayKey, RefuseKey, AuditStarted, RefuseStart,
         AuditFailure, Settle, AuditReceipt, Receive, ReceiveDirect, store, past,
         Prepared!BeginRefused, Prepared!history
  <2>4. QED
    BY <2>1, <2>2, <2>3 DEF Over, Handling, Local
<1>4. ASSUME \/ \E q \in Prepares, s \in Sessions, f \in BOOLEAN : Prepare(q, s, f)
             \/ \E q \in Prepares : PrepareStatus(q)
             \/ Tick
             \/ \E r \in Requests : HandlerAudits(r) \/ Cancel(r)
             \/ UNCHANGED vars
      PROVE  Over(p)' /\ ended'[p] = ended[p] /\ effects'[p] = effects[p]
  BY <1>4 DEF Prepare, PrepareStatus, Tick, HandlerAudits, Cancel, vars, request, past, store,
     Prepared!Create, Prepared!Status, Prepared!Tick, Prepared!AbandonApply,
     Prepared!history, Over, Handling
<1>5. CASE Restart
  BY <1>5 DEF Restart, Prepared!RestartPrepared, Underway, Handling, Over
<1>6. QED
  BY <1>1, <1>2, <1>3, <1>4, <1>5 DEF Next, Progress

\* A key that is finished with a truth tells it; the other keys are as they were.
LEMMA FinishTells ==
  ASSUME NEW k, NEW f, NEW o, Idem!FinishEntry(k, f, o), Then(f[1], o),
         \A q \in DOMAIN entries : entries[q] \in Idem!Entry,
         \A q \in DOMAIN entries : ~entries[q].inFlight =>
            Then(entries[q].fingerprint[1], entries[q].result)
  PROVE  \A q \in DOMAIN entries' : ~entries'[q].inFlight =>
            Then(entries'[q].fingerprint[1], entries'[q].result)
<1>1. ASSUME NEW q \in DOMAIN entries', ~entries'[q].inFlight
      PROVE  Then(entries'[q].fingerprint[1], entries'[q].result)
  <2>1. q \in DOMAIN entries
    BY <1>1 DEF Idem!FinishEntry
  <2>2. CASE q = k /\ entries[q].fingerprint = f
    <3>1. entries'[q] = [entries[q] EXCEPT !.inFlight = FALSE, !.result = o]
      BY <2>1, <2>2 DEF Idem!FinishEntry
    <3>2. entries'[q].fingerprint = f /\ entries'[q].result = o
      BY <2>1, <2>2, <3>1 DEF Idem!Entry
    <3>3. QED
      BY <3>2
  <2>3. CASE ~(q = k /\ entries[q].fingerprint = f)
    <3>1. entries'[q] = entries[q]
      BY <2>1, <2>3 DEF Idem!FinishEntry
    <3>2. QED
      BY <1>1, <2>1, <3>1
  <2>4. QED
    BY <2>2, <2>3
<1>2. QED
  BY <1>1

\* A step after which no request and no key tells anything new.
LEMMA QuietTells ==
  ASSUME Truthful,
         \A p : Over(p) =>
            Over(p)' /\ ended'[p] = ended[p] /\ effects'[p] = effects[p],
         \A r \in Requests : pc'[r] \in Reporting =>
            /\ pc[r] \in Reporting
            /\ arg'[r] = arg[r] /\ outcome'[r] = outcome[r],
         \A k \in DOMAIN entries' : ~entries'[k].inFlight =>
            k \in DOMAIN entries /\ entries'[k] = entries[k],
         \A r \in Requests : pc'[r] = "changed" =>
            /\ pc[r] = "changed" /\ arg'[r] = arg[r]
            /\ effects'[arg[r].prepare] = effects[arg[r].prepare]
  PROVE  Truthful'
<1>1. ASSUME NEW p, NEW o, Tells(p, o)
      PROVE  Then(p, o)
  BY <1>1 DEF Tells, Over, Then
<1>2. \A r \in Requests :
         pc'[r] \in Reporting => Then(arg'[r].prepare, outcome'[r])
  BY <1>1 DEF Truthful
<1>3. \A k \in DOMAIN entries' : ~entries'[k].inFlight =>
         Then(entries'[k].fingerprint[1], entries'[k].result)
  BY <1>1 DEF Truthful
<1>4. \A r \in Requests : pc'[r] = "changed" => effects'[arg'[r].prepare] = 1
  BY DEF Truthful
<1>5. QED
  BY <1>2, <1>3, <1>4, TruthfulThen

LEMMA TruthStep ==
  ASSUME Local, Effective, Truthful, Stores!PreparedTypeOK,
         \A k \in DOMAIN entries : entries[k] \in Idem!Entry,
         Stores!SingleUse', Effective', [Next]_vars
  PROVE  Truthful'
<1> USE DEF Goes
<1>1. \A p : Over(p) =>
         Over(p)' /\ ended'[p] = ended[p] /\ effects'[p] = effects[p]
  BY OverStays
<1>2. \A p, o : Tells(p, o) => Then(p, o)
  BY <1>1 DEF Tells, Over, Then
<1>3. \A k \in DOMAIN entries : ~entries[k].inFlight =>
         Then(entries[k].fingerprint[1], entries[k].result)
  BY <1>2 DEF Truthful
<1>4. ASSUME NEW r \in Requests, HandlerChanges(r) \/ LateChange(r)
      PROVE  Truthful'
  <2>1. /\ pc' = [pc EXCEPT ![r] = "changed"] /\ arg' = arg /\ outcome' = outcome
        /\ effects' = [effects EXCEPT ![arg[r].prepare] = @ + 1]
        /\ entries' = entries /\ pc[r] = "running"
    BY <1>4 DEF HandlerChanges, LateChange, TakesEffect, cache
  <2>2. arg[r].prepare \in Prepares /\ effects[arg[r].prepare] = 0
    BY <2>1, ArgumentFields DEF Effective
  <2>3. effects'[arg[r].prepare] = 1
    BY <2>1, <2>2 DEF Effective
  <2>4. \A q \in Requests : pc'[q] = "changed" => effects'[arg[q].prepare] = 1
    <3>1. \A q \in Requests \ {r} : pc'[q] = "changed" =>
             pc[q] = "changed" /\ arg[q].prepare # arg[r].prepare
      BY <2>1 DEF Effective, Handling, Local
    <3>2. QED
      BY <2>1, <2>2, <2>3, <3>1 DEF Truthful, Effective
  <2>5. \A q \in Requests : pc'[q] \in Reporting => pc[q] \in Reporting
    BY <2>1 DEF Local, Reporting
  <2>6. \A q \in Requests : pc'[q] \in Reporting =>
           Then(arg'[q].prepare, outcome'[q])
    BY <1>2, <2>1, <2>5 DEF Truthful
  <2>7. QED
    BY <1>3, <2>1, <2>4, <2>6, TruthfulThen
<1>5. ASSUME NEW r \in Requests, NEW o \in Outcomes,
             HandlerReturns(r, o) \/ HandlerRaises(r, o)
      PROVE  Truthful'
  <2> DEFINE p == arg[r].prepare
  <2>1. /\ arg' = arg /\ outcome' = [outcome EXCEPT ![r] = o]
        /\ ended' = [ended EXCEPT ![p] = o]
        /\ effects' = effects /\ uses' = uses
        /\ Handling(r)
        /\ o \in Succeeded => pc[r] = "changed"
    BY <1>5 DEF HandlerReturns, HandlerRaises, Prepared!FinishApply, Handling,
       Succeeded, Kept, NotApplied
  <2>2. PICK to \in {"completing", "done", "failing"} : pc' = [pc EXCEPT ![r] = to]
    BY <1>5 DEF HandlerReturns, HandlerRaises
  <2>3. p \in Prepares /\ uses[p] > 0
    BY <2>1, ArgumentFields DEF Effective, Handling
  <2>4. \A q \in Requests : Handling(q)' => arg'[q].prepare # p
    <3>1. \A q \in Requests : Handling(q)' => Handling(q) /\ q # r
      BY <2>2 DEF Handling, Local
    <3>2. QED
      BY <2>1, <3>1 DEF Effective
  <2>5. Then(p, o)
    <3>1. ended'[p] = o
      BY <2>1, <2>3 DEF Local
    <3>2. o \in Succeeded => effects'[p] = 1
      BY <2>1 DEF Truthful
    <3>3. QED
      BY <2>1, <2>3, <2>4, <3>1, <3>2 DEF Then
  <2>6. \A q \in Requests : pc'[q] \in Reporting =>
           Then(arg'[q].prepare, outcome'[q])
    <3>1. outcome'[r] = o
      BY <2>1 DEF Local
    <3>2. \A q \in Requests \ {r} : pc'[q] = pc[q] /\ outcome'[q] = outcome[q]
      BY <2>1, <2>2 DEF Local
    <3>3. QED
      BY <1>2, <2>1, <2>5, <3>1, <3>2 DEF Truthful
  <2>7. \A k \in DOMAIN entries' : ~entries'[k].inFlight =>
           Then(entries'[k].fingerprint[1], entries'[k].result)
    <3>1. CASE entries' = entries
      BY <1>3, <3>1
    <3>2. CASE Idem!FinishEntry(arg[r].key, Fingerprint(arg[r]), o)
      <4>1. Fingerprint(arg[r])[1] = p
        BY DEF Fingerprint
      <4>2. Then(Fingerprint(arg[r])[1], o)
        BY <2>5, <4>1
      <4>3. QED
        BY <1>3, <3>2, <4>2, FinishTells
    <3>3. QED
      BY <1>5, <3>1, <3>2 DEF HandlerReturns, HandlerRaises, cache
  <2>8. \A q \in Requests : pc'[q] = "changed" => effects'[arg'[q].prepare] = 1
    BY <2>1, <2>2 DEF Truthful, Local
  <2>9. QED
    BY <2>6, <2>7, <2>8, TruthfulThen
<1>6. ASSUME NEW r \in Requests, Settle(r), outcome[r] # NotApplied
      PROVE  Truthful'
  <2>1. /\ arg' = arg /\ outcome' = outcome /\ effects' = effects
        /\ pc' = [pc EXCEPT ![r] = "failed"] /\ pc[r] = "settling"
        /\ Idem!FinishEntry(arg[r].key, Fingerprint(arg[r]), outcome[r])
    BY <1>6 DEF Settle, past
  <2>2. Then(Fingerprint(arg[r])[1], outcome[r])
    <3>1. Fingerprint(arg[r])[1] = arg[r].prepare
      BY DEF Fingerprint
    <3>2. Tells(arg[r].prepare, outcome[r])
      BY <2>1 DEF Truthful, Reporting
    <3>3. QED
      BY <1>2, <3>1, <3>2
  <2>3. \A k \in DOMAIN entries' : ~entries'[k].inFlight =>
           Then(entries'[k].fingerprint[1], entries'[k].result)
    BY <1>3, <2>1, <2>2, FinishTells
  <2>4. \A q \in Requests : /\ pc'[q] \in Reporting => pc[q] \in Reporting
                            /\ pc'[q] = "changed" => pc[q] = "changed"
    BY <2>1 DEF Local, Reporting
  <2>5. \A q \in Requests : pc'[q] \in Reporting =>
           Then(arg'[q].prepare, outcome'[q])
    BY <1>2, <2>1, <2>4 DEF Truthful
  <2>6. \A q \in Requests : pc'[q] = "changed" => effects'[arg'[q].prepare] = 1
    BY <2>1, <2>4 DEF Truthful
  <2>7. QED
    BY <2>3, <2>5, <2>6, TruthfulThen
<1>7. ASSUME NEW r \in Requests, ReplayKey(r)
      PROVE  Truthful'
  <2> DEFINE k == arg[r].key
  <2>1. /\ arg' = arg /\ effects' = effects /\ entries' = entries
        /\ pc' = [pc EXCEPT ![r] = "replaying"]
        /\ outcome' = [outcome EXCEPT ![r] = entries[k].result]
        /\ k \in DOMAIN entries /\ ~entries[k].inFlight
        /\ entries[k].fingerprint = Fingerprint(arg[r])
    BY <1>7 DEF ReplayKey, Idem!Replays, cache, past
  <2>2. entries[k].fingerprint[1] = arg[r].prepare
    BY <2>1 DEF Fingerprint
  <2>3. Then(arg[r].prepare, entries[k].result)
    BY <1>3, <2>1, <2>2
  <2>4. outcome'[r] = entries[k].result
    BY <2>1 DEF Local
  <2>5. \A q \in Requests \ {r} : pc'[q] = pc[q] /\ outcome'[q] = outcome[q]
    BY <2>1 DEF Local
  <2>6. \A q \in Requests : pc'[q] \in Reporting =>
           Then(arg'[q].prepare, outcome'[q])
    BY <1>2, <2>1, <2>3, <2>4, <2>5 DEF Truthful
  <2>7. \A q \in Requests : pc'[q] = "changed" => effects'[arg'[q].prepare] = 1
    BY <2>1 DEF Local, Truthful
  <2>8. QED
    BY <1>3, <2>1, <2>6, <2>7, TruthfulThen
<1>8. ASSUME NEW r \in Requests,
             \/ BeginKey(r) \/ RefuseKey(r) \/ AuditStarted(r)
             \/ StartHandler(r) \/ RefuseStart(r) \/ AuditFailure(r)
             \/ Settle(r) /\ outcome[r] = NotApplied
             \/ AuditReceipt(r)
             \/ \E a \in Applies : Receive(r, a) \/ ReceiveDirect(r, a)
      PROVE  Truthful'
  <2>1. effects' = effects
    BY <1>8 DEF BeginKey, RefuseKey, AuditStarted, StartHandler, RefuseStart,
         AuditFailure, Settle, AuditReceipt, Receive, ReceiveDirect, past
  <2>2. \A q \in Requests \ {r} :
           pc'[q] = pc[q] /\ arg'[q] = arg[q] /\ outcome'[q] = outcome[q]
    BY <1>8 DEF BeginKey, RefuseKey, AuditStarted, StartHandler, RefuseStart,
         AuditFailure, Settle, AuditReceipt, Receive, ReceiveDirect, Local
  <2>3. /\ pc'[r] # "changed"
        /\ pc'[r] \in Reporting =>
              pc[r] \in Reporting /\ arg'[r] = arg[r] /\ outcome'[r] = outcome[r]
    BY <1>8 DEF BeginKey, RefuseKey, AuditStarted, StartHandler, RefuseStart,
         AuditFailure, Settle, AuditReceipt, Receive, ReceiveDirect, Local, Reporting
  <2>4. \A k \in DOMAIN entries' : ~entries'[k].inFlight =>
           k \in DOMAIN entries /\ entries'[k] = entries[k]
    <3>1. CASE entries' = entries
      BY <3>1
    <3>2. CASE BeginKey(r)
      <4>1. PICK evicted \in Idem!Evictions :
               entries' = [q \in (DOMAIN entries \ evicted) \cup {arg[r].key} |->
                             IF q = arg[r].key
                             THEN [fingerprint |-> Fingerprint(arg[r]),
                                   inFlight |-> TRUE,
                                   result |-> Idem!Nothing, at |-> begun]
                             ELSE entries[q]]
        BY <3>2 DEF BeginKey, Idem!BeginExecute
      <4>2. QED
        BY <4>1
    <3>3. CASE Idem!AbortEntry(arg[r].key, Fingerprint(arg[r]))
      BY <3>3 DEF Idem!AbortEntry
    <3>4. QED
      BY <1>8, <3>1, <3>2, <3>3 DEF RefuseKey, AuditStarted, StartHandler, RefuseStart,
         AuditFailure, Settle, AuditReceipt, Receive, ReceiveDirect, cache
  <2>5. QED
    BY <1>1, <2>1, <2>2, <2>3, <2>4, QuietTells
<1>9. ASSUME \/ \E q \in Prepares, s \in Sessions, f \in BOOLEAN : Prepare(q, s, f)
             \/ \E q \in Prepares : PrepareStatus(q)
             \/ Tick
             \/ \E r \in Requests : HandlerAudits(r) \/ Cancel(r)
             \/ UNCHANGED vars
      PROVE  Truthful'
  <2>1. /\ pc' = pc /\ arg' = arg /\ outcome' = outcome
        /\ effects' = effects /\ entries' = entries
    BY <1>9 DEF Prepare, PrepareStatus, Tick, HandlerAudits, Cancel, vars, request, past, cache
  <2>2. QED
    BY <1>1, <2>1, QuietTells
<1>10. CASE Restart
  <2>1. /\ DOMAIN entries' = {} /\ arg' = arg /\ outcome' = outcome
        /\ \A r \in Requests : pc'[r] \notin Reporting /\ pc'[r] # "changed"
    BY <1>10 DEF Restart, Underway, Reporting
  <2>2. QED
    BY <1>1, <2>1, QuietTells
<1>11. QED
  BY <1>4, <1>5, <1>6, <1>7, <1>8, <1>9, <1>10 DEF Next, Progress

\* Everything that is told in a reachable state is so.
LEMMA TruthHolds == Spec => [](Effective /\ Truthful)
<1>1. Init => Effective /\ Truthful
  BY DEF Init, Effective, Handling, AtMostOnce, Truthful, Reporting
<1>2. Stores!TypeOK => \A k \in DOMAIN entries : entries[k] \in Idem!Entry
  BY DEF Stores!TypeOK, Stores!Entry, Idem!Entry, Stores!Nothing, Idem!Nothing
<1>3. QED
  BY <1>1, <1>2, LocalHolds, EngineUsesStore, EngineUsesCache, Stores!PreparedTypeCorrect,
     Stores!SingleUseHolds, Stores!IdempotencyTypeCorrect, StoreAssumptions,
     EffectiveStep, TruthStep, PTL DEF Spec

(* A replay repeats the outcome of the one run there was, and a replayed   *)
(* success did change Home Assistant (ReplayTruthful).                     *)
THEOREM ReplaysAreTruthful == Spec => []ReplayTruthful
<1>1. Truthful => ReplayTruthful
  BY DEF Truthful, Tells, Reporting, ReplayTruthful
<1>2. QED
  BY <1>1, TruthHolds, PTL

(* A recorded outcome means that the prepared mutation is spent, so the    *)
(* record may be evicted or lost without a second run (OutcomeMeansSpent). *)
THEOREM OutcomesMeanSpent == Spec => []OutcomeMeansSpent
<1>1. Truthful /\ FlightsExplained /\ Stores!SpentMarked => OutcomeMeansSpent
  BY DEF Truthful, Tells, Over, Handling, FlightsExplained, Stores!SpentMarked,
     OutcomeMeansSpent
<1>2. QED
  BY <1>1, TruthHolds, FlightsAreExplained, EngineUsesStore, Stores!SingleUseHolds,
     StoreAssumptions, PTL
-------------------------------------------------------------------------------
(***************************************************************************)
(* The safety half of Answered: a request under way always has a step to   *)
(* take, and every step it takes brings it nearer to its answer.           *)
(***************************************************************************)

\* How far a request has come.
Stage(place) == CASE place = "idle" -> 0
                  [] place = "received" -> 1
                  [] place = "granted" -> 2
                  [] place = "started" -> 3
                  [] place = "running" -> 4
                  [] place = "changed" -> 5
                  [] place = "failing" -> 6
                  [] place = "settling" -> 7
                  [] place \in {"failed", "completing", "replaying"} -> 8
                  [] place \in {"done", "refused", "lost"} -> 9

OnlyForward == [][\A r \in Requests : pc'[r] = pc[r] \/ Stage(pc[r]) < Stage(pc'[r])]_vars

\* begin() finds a way to answer: replay, refusal or a new entry.  It makes room for
\* the entry when the cache is full, and the clock may still be read.  Elsewhere a
\* request waits for nothing but its own await.
HasAnswer(k, f) == \/ Idem!Replays(k, f)
                   \/ Idem!Refuses(k, f)
                   \/ k \notin DOMAIN entries /\ Idem!Evictions # {}

NeverStuck ==
    \A r \in Requests :
       /\ pc[r] = "received" => HasAnswer(arg[r].key, Fingerprint(arg[r]))
       /\ pc[r] = "started" => Prepared!Readings # {}

LEMMA StagesRise ==
  ASSUME Local, Next, NEW r \in Requests
  PROVE  pc'[r] = pc[r] \/ Stage(pc[r]) < Stage(pc'[r])
<1> USE DEF Goes, Stage
<1>0. pc \in [Requests -> Places]  BY DEF Local
<1>1. ASSUME NEW q \in Requests,
             \E a \in Applies : Receive(q, a) \/ ReceiveDirect(q, a)
      PROVE  pc'[r] = pc[r] \/ Stage(pc[r]) < Stage(pc'[r])
  <2>1. \E to \in {"received", "started"} : Goes(q, "idle", to)
    BY <1>1 DEF Receive, ReceiveDirect
  <2> QED  BY <1>0, <2>1
<1>2. ASSUME NEW q \in Requests, BeginKey(q) \/ ReplayKey(q) \/ RefuseKey(q)
      PROVE  pc'[r] = pc[r] \/ Stage(pc[r]) < Stage(pc'[r])
  <2>1. \E to \in {"granted", "replaying", "refused"} : Goes(q, "received", to)
    BY <1>2 DEF BeginKey, ReplayKey, RefuseKey
  <2> QED  BY <1>0, <2>1
<1>3. ASSUME NEW q \in Requests, AuditStarted(q)
      PROVE  pc'[r] = pc[r] \/ Stage(pc[r]) < Stage(pc'[r])
  BY <1>0, <1>3 DEF AuditStarted
<1>4. ASSUME NEW q \in Requests, StartHandler(q) \/ RefuseStart(q)
      PROVE  pc'[r] = pc[r] \/ Stage(pc[r]) < Stage(pc'[r])
  <2>1. \E to \in {"running", "failed", "refused"} : Goes(q, "started", to)
    BY <1>4 DEF StartHandler, RefuseStart
  <2> QED  BY <1>0, <2>1
<1>5. ASSUME NEW q \in Requests, HandlerChanges(q) \/ LateChange(q)
      PROVE  pc'[r] = pc[r] \/ Stage(pc[r]) < Stage(pc'[r])
  BY <1>0, <1>5 DEF HandlerChanges, LateChange
<1>6. ASSUME NEW q \in Requests, NEW o \in Outcomes, HandlerReturns(q, o)
      PROVE  pc'[r] = pc[r] \/ Stage(pc[r]) < Stage(pc'[r])
  <2>1. \E to \in {"completing", "done"} : Goes(q, "changed", to)
    BY <1>6 DEF HandlerReturns
  <2> QED  BY <1>0, <2>1
<1>7. ASSUME NEW q \in Requests, NEW o \in Outcomes, HandlerRaises(q, o)
      PROVE  pc'[r] = pc[r] \/ Stage(pc[r]) < Stage(pc'[r])
  <2>1. \E from \in {"running", "changed"} : Goes(q, from, "failing")
    BY <1>7 DEF HandlerRaises
  <2> QED  BY <1>0, <2>1
<1>8. ASSUME NEW q \in Requests, AuditFailure(q) \/ Settle(q) \/ AuditReceipt(q)
      PROVE  pc'[r] = pc[r] \/ Stage(pc[r]) < Stage(pc'[r])
  <2>1. \/ \E to \in {"settling", "done"} : Goes(q, "failing", to)
        \/ Goes(q, "settling", "failed")
        \/ \E from \in {"failed", "completing", "replaying"} : Goes(q, from, "done")
    BY <1>8 DEF AuditFailure, Settle, AuditReceipt
  <2> QED  BY <1>0, <2>1
<1>9. CASE Restart
  <2>1. pc'[r] = IF Underway(r) THEN "lost" ELSE pc[r]  BY <1>9 DEF Restart
  <2>2. pc[r] \in Places  BY <1>0
  <2> QED  BY <2>1, <2>2 DEF Underway, Places
<1>10. ASSUME pc' = pc
       PROVE  pc'[r] = pc[r] \/ Stage(pc[r]) < Stage(pc'[r])
  BY <1>10
<1>11. ASSUME \/ \E p \in Prepares, s \in Sessions, f \in BOOLEAN : Prepare(p, s, f)
              \/ \E p \in Prepares : PrepareStatus(p)
              \/ \E q \in Requests : HandlerAudits(q) \/ Cancel(q)
              \/ Tick
       PROVE  pc' = pc
  BY <1>11 DEF Prepare, PrepareStatus, HandlerAudits, Cancel, Tick, request
<1> QED
  BY <1>1, <1>2, <1>3, <1>4, <1>5, <1>6, <1>7, <1>8, <1>9, <1>10, <1>11
     DEF Next, Progress

\* A full cache that is not all in flight has an oldest completed entry.
LEMMA OldestExists ==
  ASSUME \A k \in DOMAIN entries : entries[k].at \in Nat, Idem!Completed # {}
  PROVE  \E k \in Idem!Completed : Idem!Oldest(k)
<1> DEFINE ages == {entries[k].at : k \in Idem!Completed}
<1>1. Idem!Completed \subseteq DOMAIN entries  BY DEF Idem!Completed
<1>2. ages \in SUBSET Nat /\ ages # {}  BY <1>1
<1>3. PICK n \in ages : \A m \in ages : n <= m
  <2> HIDE DEF ages
  <2>1. PICK n \in ages : \A m \in ages : <<m, n>> \notin OpToRel(<, Nat)
    BY <1>2, NatLessThanWellFounded, WFMin
  <2>2. \A m, l \in Nat : m < l => <<m, l>> \in OpToRel(<, Nat)  BY DEF OpToRel
  <2>3. \A m \in ages : m \in Nat /\ n \in Nat /\ ~(m < n)  BY <1>2, <2>1, <2>2
  <2>4. \A m \in ages : n <= m  BY <2>3
  <2> QED  BY <2>4
<1>4. PICK k \in Idem!Completed : entries[k].at = n  BY <1>3
<1> QED  BY <1>3, <1>4 DEF Idem!Oldest

\* The model's clock stays within its bound.
InTime == now <= MaxTime

LEMMA ClockBounded == Spec => []InTime
<1>1. Stores!PreparedInit => InTime
  BY BoundsAssumption DEF InTime, Stores!PreparedInit
<1>2. Stores!PreparedTypeOK /\ InTime /\ [Stores!PreparedNext]_(Stores!preparedVars) => InTime'
  <2> SUFFICES ASSUME Stores!PreparedTypeOK, InTime,
                      [Stores!PreparedNext]_(Stores!preparedVars)
               PROVE  now' <= MaxTime
    BY DEF InTime
  <2>1. ASSUME NEW p, NEW call, Stores!BeginGranted(p, call) \/ Stores!BeginRefused(p, call)
        PROVE  now' <= MaxTime
    BY <2>1 DEF Stores!BeginGranted, Stores!BeginRefused, Stores!Readings
  <2>2. CASE Stores!Tick
    <3>1. now \in Nat  BY DEF Stores!PreparedTypeOK
    <3> QED  BY <2>2, <3>1, BoundsAssumption DEF Stores!Tick
  <2>3. ASSUME \/ \E p, s, f : Stores!Create(p, s, f)
               \/ \E p, c : Stores!FinishApply(p, c) \/ Stores!AbandonApply(p)
               \/ \E p : Stores!Status(p)
               \/ Stores!RestartPrepared
        PROVE  now' = now
    BY <2>3 DEF Stores!Create, Stores!FinishApply, Stores!AbandonApply, Stores!Status,
         Stores!RestartPrepared
  <2>4. CASE UNCHANGED Stores!preparedVars
    BY <2>4 DEF Stores!preparedVars, InTime
  <2> QED  BY <2>1, <2>2, <2>3, <2>4 DEF Stores!PreparedNext, InTime
<1>3. Spec => []Stores!PreparedTypeOK
  BY EngineUsesStore, Stores!PreparedTypeCorrect, StoreAssumptions, PTL
<1> QED
  BY <1>1, <1>2, <1>3, EngineUsesStore, PTL DEF Stores!PreparedSpec

(* A request only goes forward: no answer, failure, replay or restart puts *)
(* it back to a place it has left, so it moves at most eight more times.   *)
THEOREM RequestsOnlyAdvance == Spec => OnlyForward
<1>1. Local /\ [Next]_vars =>
        [\A r \in Requests : pc'[r] = pc[r] \/ Stage(pc[r]) < Stage(pc'[r])]_vars
  BY StagesRise
<1> QED  BY <1>1, LocalHolds, PTL DEF Spec, OnlyForward

(* A request under way is never stuck: whatever fills the idempotency      *)
(* store, begin replays, refuses or finds room for the key.                *)
THEOREM RequestsCanMove == Spec => []NeverStuck
<1>1. ASSUME Stores!TypeOK, NEW k, NEW f  PROVE HasAnswer(k, f)
  <2>1. \A q \in DOMAIN entries : entries[q].at \in Nat
    BY <1>1 DEF Stores!TypeOK, Stores!Entry
  <2>2. CASE k \in DOMAIN entries
    BY <2>2 DEF HasAnswer, Idem!Replays, Idem!Refuses, Idem!KeyReused, Idem!InProgress
  <2>3. CASE k \notin DOMAIN entries /\ Idem!Full /\ Idem!Completed = {}
    BY <2>3 DEF HasAnswer, Idem!Refuses, Idem!Busy
  <2>4. CASE k \notin DOMAIN entries /\ Idem!Full /\ Idem!Completed # {}
    BY <2>1, <2>4, OldestExists DEF HasAnswer, Idem!Evictions
  <2>5. CASE k \notin DOMAIN entries /\ ~Idem!Full
    BY <2>5 DEF HasAnswer, Idem!Evictions
  <2> QED  BY <2>2, <2>3, <2>4, <2>5
<1>2. Stores!PreparedTypeOK /\ InTime => Prepared!Readings # {}
  BY DEF InTime, Stores!PreparedTypeOK, Prepared!Readings
<1>3. Stores!TypeOK /\ Stores!PreparedTypeOK /\ InTime => NeverStuck
  BY <1>1, <1>2 DEF NeverStuck
<1> QED
  BY <1>3, ClockBounded, EngineUsesStore, EngineUsesCache, Stores!PreparedTypeCorrect,
     Stores!IdempotencyTypeCorrect, StoreAssumptions, PTL
===============================================================================
