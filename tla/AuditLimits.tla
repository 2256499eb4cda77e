------------------------------ MODULE AuditLimits ------------------------------
(* The tasks that append to the audit log, and its size (const.py). *)
EXTENDS Naturals

CONSTANTS Tasks,        \* the coroutines that append a record
          MaxEntries,   \* AUDIT_MAX_ENTRIES
          MaxRecords, MaxRestarts    \* bounds, for TLC only

ASSUME AuditAssumption == /\ MaxEntries \in Nat \ {0}
                          /\ MaxRecords \in Nat /\ MaxRestarts \in Nat
================================================================================
