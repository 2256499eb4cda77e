------------------------------- MODULE MCStores -------------------------------
(***************************************************************************)
(* The four components that keep their state in memory, for TLC: the       *)
(* prepared store, the idempotency store, the audit log and the rate       *)
(* limit.  They share nothing, so their behaviours need not be interleaved *)
(* here: a behaviour picks one of them as its subject and leaves the       *)
(* others as they begin.  (ApplyEngine composes the two stores.)           *)
(***************************************************************************)
EXTENDS PreparedStore, IdempotencyStore, AuditLog, RateLimit

VARIABLE subject

allVars == <<subject, preparedVars, vars, auditVars, rateVars>>

MCInit == /\ subject \in {"prepared", "idempotency", "audit", "rate"}
          /\ PreparedInit /\ Init /\ AuditInit /\ RateInit

Prepare == /\ subject = "prepared" /\ PreparedNext
           /\ UNCHANGED <<subject, vars, auditVars, rateVars>>

Remember == /\ subject = "idempotency" /\ Next
            /\ UNCHANGED <<subject, preparedVars, auditVars, rateVars>>

Log(Step) == /\ subject = "audit" /\ Step
             /\ UNCHANGED <<subject, preparedVars, vars, rateVars>>

Limits == /\ subject = "rate" /\ RateNext
          /\ UNCHANGED <<subject, preparedVars, vars, auditVars>>

MCNext == Prepare \/ Remember \/ Log(AuditNext) \/ Limits

\* The fairness of AuditFairSpec; no other component asks for any.
MCSpec == /\ MCInit /\ [][MCNext]_allVars
          /\ \A t \in Tasks : WF_allVars(Log(Proceed(t)))

\* Two calls per window for one kind of call, one for another.
Limits2 == [b \in Buckets |-> IF b = "read" THEN 2 ELSE 1]
================================================================================
