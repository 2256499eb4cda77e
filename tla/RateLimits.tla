------------------------------ MODULE RateLimits ------------------------------
(* const.py: the rate limits of the API, and the clock they are measured by. *)
EXTENDS Naturals

CONSTANTS Buckets,     \* "refresh_token_id:bucket" keys
          Limit,       \* API_READ_RATE_MAX, API_PREPARE_RATE_MAX, API_APPLY_RATE_MAX
          Window,      \* API_RATE_WINDOW_SECONDS, in ticks of the clock
          Second,      \* how many ticks a second has: time.monotonic() is finer
          MaxClock     \* bound on the clock, for TLC only

ASSUME RateAssumption == /\ Limit \in [Buckets -> Nat \ {0}]
                         /\ Window \in Nat /\ Second \in Nat \ {0}
                         /\ MaxClock \in Nat
===============================================================================
