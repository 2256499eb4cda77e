---------------------------- MODULE PreparedLimits ----------------------------
(* The ids, sessions and life time (const.py) of prepared mutations. *)
EXTENDS Naturals

CONSTANTS Prepares,    \* prepare_ids, equally their digests
          Sessions,    \* (user_id, refresh_token_id) pairs
          TTL,         \* PREPARE_TTL_SECONDS, in ticks
          MaxTime      \* bound on the clock, for TLC only

ASSUME TimeAssumption == TTL \in Nat \ {0} /\ MaxTime \in Nat
===============================================================================
