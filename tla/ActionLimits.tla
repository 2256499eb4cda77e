------------------------------ MODULE ActionLimits ------------------------------
(* How long a sequence of actions may be, and a bound on the compile jobs. *)
EXTENDS Naturals

CONSTANTS MaxActions,   \* 25 in the code
          MaxBuilds     \* bound, for TLC only

ASSUME ActionsAssumption == MaxActions \in Nat
================================================================================
