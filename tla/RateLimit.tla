------------------------------- MODULE RateLimit -------------------------------
(***************************************************************************)
(* auth.py _check_api_rate: a sliding window of calls per session and      *)
(* bucket.  The method does not await, so a call is one action.            *)
(*                                                                         *)
(* A deque that is only appended to and popped from the left is a log of   *)
(* all admitted calls and the number of those that were popped.            *)
(***************************************************************************)
EXTENDS RateLimits, Sequences

VARIABLES clock,       \* time.monotonic(), in ticks
          log,         \* the times of the admitted calls of each bucket
          popped,      \* how many of them have left the deque
          told         \* history: when the client of a bucket may come back

rateVars == <<clock, log, popped, told>>

Never == 0             \* a hint is at least one second, so it never ends at 0

RateTypeOK == /\ clock \in Nat
              /\ log \in [Buckets -> Seq(Nat)]
              /\ popped \in [Buckets -> Nat]
              /\ told \in [Buckets -> Nat]

RateInit == /\ clock = 0
            /\ log = [b \in Buckets |-> <<>>]
            /\ popped = [b \in Buckets |-> 0]
            /\ told = [b \in Buckets |-> Never]
--------------------------------------------------------------------------------
\* Mutant of Old: a call leaves at the end of the window, not after it.
OldAtOnce(b, i) == clock - log[b][i] >= Window

Old(b, i) == clock - log[b][i] > Window

\* popleft while the head of the deque is older than the window.
Pops(b, n) == /\ n \in popped[b]..Len(log[b])
              /\ \A i \in (popped[b] + 1)..n : Old(b, i)
              /\ n < Len(log[b]) => ~Old(b, n + 1)

AtLimit(b, n) == Len(log[b]) - n >= Limit[b]

\* Mutant of Hints: rounded down.
HintsTooEarly(b, n, h) ==
    LET left == Window - (clock - log[b][n + 1])
    IN  h = IF left < Second THEN 1 ELSE left \div Second

\* retry_after_seconds: what is left of the window, rounded up, at least one.
Hints(b, n, h) == LET left == Window - (clock - log[b][n + 1])
                  IN  /\ h >= 1 /\ h * Second >= left
                      /\ h = 1 \/ (h - 1) * Second < left

Admit(b) == \E n \in popped[b]..Len(log[b]) :
               /\ Pops(b, n)
               /\ ~AtLimit(b, n)
               /\ popped' = [popped EXCEPT ![b] = n]
               /\ log' = [log EXCEPT ![b] = Append(@, clock)]
               /\ told' = [told EXCEPT ![b] = Never]
               /\ UNCHANGED clock

\* RATE_LIMITED.
Refuse(b) == \E n \in popped[b]..Len(log[b]), h \in 1..(Window + 1) :
                /\ Pops(b, n)
                /\ AtLimit(b, n)
                /\ Hints(b, n, h)
                /\ popped' = [popped EXCEPT ![b] = n]
                /\ told' = [told EXCEPT ![b] = clock + h * Second]
                /\ UNCHANGED <<clock, log>>

Pass == /\ clock < MaxClock
        /\ clock' = clock + 1
        /\ UNCHANGED <<log, popped, told>>

RateNext == \/ \E b \in Buckets : Admit(b) \/ Refuse(b)
            \/ Pass

RateSpec == RateInit /\ [][RateNext]_rateVars
--------------------------------------------------------------------------------
(* In no window of time more calls are admitted than the limit: a call and *)
(* the one "limit" places after it are further apart than the window.      *)
WindowKept == \A b \in Buckets : \A i \in 1..Len(log[b]) :
                 i + Limit[b] <= Len(log[b]) =>
                    log[b][i + Limit[b]] - log[b][i] > Window

(* A client that stays away for longer than retry_after_seconds is let in. *)
(* (Not one that is back exactly then: a call leaves only after its        *)
(* window.)                                                                *)
HintEnough == \A b \in Buckets : told[b] # Never /\ clock > told[b] =>
                 \A n \in popped[b]..Len(log[b]) : Pops(b, n) => ~AtLimit(b, n)
================================================================================
