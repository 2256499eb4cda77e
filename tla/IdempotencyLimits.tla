--------------------------- MODULE IdempotencyLimits ---------------------------
(* The constants of the idempotency store. *)
EXTENDS Naturals

CONSTANTS Keys,          \* idempotency_key values
          Fingerprints,  \* the arguments and the session of an apply
          Results,       \* what a finished apply leaves behind
          Maximum,       \* capacity of the store
          Callers,       \* the apply requests
          Insertions     \* the numbers of insertions: Nat, cut short for TLC

ASSUME MaximumAssumption == Maximum \in Nat \ {0}

Nothing == "no result"

\* No key looks like the mark of an idle caller.
ASSUME IdleAssumption == Nothing \notin Keys
================================================================================
