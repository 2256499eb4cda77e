--------------------------- MODULE IdempotencyStore ---------------------------
(***************************************************************************)
(* idempotency.py: the bounded replay cache of change.apply, with the      *)
(* callers that begin, execute and then finish or abort a key.  As in      *)
(* PreparedStore no await happens under the lock: one action per coroutine.*)
(*                                                                         *)
(* A Python dict keeps insertion order; here an entry carries the number   *)
(* "at" of the insertion that made it, and the oldest has the smallest.    *)
(***************************************************************************)
EXTENDS IdempotencyLimits, FiniteSets

VARIABLES entries,       \* _entries: key -> fingerprint, in_flight, result
          begun,         \* how many entries were inserted so far
          calls          \* what each caller is executing, or Idle

vars == <<entries, begun, calls>>

Idle == [key |-> Nothing, fingerprint |-> Nothing]

Entry == [fingerprint : Fingerprints, inFlight : BOOLEAN,
          result : Results \cup {Nothing}, at : Nat]

TypeOK == /\ DOMAIN entries \subseteq Keys
          /\ \A k \in DOMAIN entries : entries[k] \in Entry
          /\ begun \in Nat
          /\ calls \in [Callers ->
                          [key : Keys, fingerprint : Fingerprints] \cup {Idle}]

Init == /\ entries = [k \in {} |-> 0]
        /\ begun = 0
        /\ calls = [c \in Callers |-> Idle]
-------------------------------------------------------------------------------
Completed == {k \in DOMAIN entries : ~entries[k].inFlight}

Oldest(k) == /\ k \in Completed
             /\ \A other \in Completed : entries[k].at <= entries[other].at

\* Mutant of Full: one entry too many.
FullLate == Cardinality(DOMAIN entries) > Maximum

Full == Cardinality(DOMAIN entries) >= Maximum

\* Mutant of Evictions: any completed entry may leave.
EvictCompleted == IF Full THEN {{k} : k \in Completed} ELSE {{}}

\* The keys that may have to leave to make room: none, or the oldest completed.
Evictions == IF Full THEN {{k} : k \in {q \in Completed : Oldest(q)}} ELSE {{}}

\* Mutant of BeginExecute: a completed key is executed again.
BeginAgain(k, f) ==
    /\ k \in DOMAIN entries => ~entries[k].inFlight
    /\ k \in DOMAIN entries \/ ~Full
    /\ entries' = [q \in DOMAIN entries \cup {k} |->
                     IF q = k THEN [fingerprint |-> f, inFlight |-> TRUE,
                                    result |-> Nothing, at |-> begun]
                     ELSE entries[q]]
    /\ begun' = begun + 1

\* begin() returned (True, None): a new key, after an eviction when full.
BeginExecute(k, f) ==
    /\ k \notin DOMAIN entries
    /\ \E evicted \in Evictions :
          entries' = [q \in (DOMAIN entries \ evicted) \cup {k} |->
                        IF q = k THEN [fingerprint |-> f, inFlight |-> TRUE,
                                       result |-> Nothing, at |-> begun]
                        ELSE entries[q]]
    /\ begun' = begun + 1

\* Mutant of Replays: the arguments are not compared.
ReplaysOtherArguments(k, f) == k \in DOMAIN entries /\ ~entries[k].inFlight

Replays(k, f) == /\ k \in DOMAIN entries
                 /\ entries[k].fingerprint = f
                 /\ ~entries[k].inFlight

Busy(k) == k \notin DOMAIN entries /\ Full /\ Completed = {}
KeyReused(k, f) == k \in DOMAIN entries /\ entries[k].fingerprint # f
InProgress(k, f) == /\ k \in DOMAIN entries
                    /\ entries[k].fingerprint = f
                    /\ entries[k].inFlight

Refuses(k, f) == Busy(k) \/ KeyReused(k, f) \/ InProgress(k, f)

FinishEntry(k, f, result) ==
    /\ entries' = [q \in DOMAIN entries |->
                     IF q = k /\ entries[q].fingerprint = f
                     THEN [entries[q] EXCEPT !.inFlight = FALSE, !.result = result]
                     ELSE entries[q]]
    /\ UNCHANGED begun

Aborts(q, k, f) == q = k /\ entries[q].fingerprint = f /\ entries[q].inFlight

AbortEntry(k, f) ==
    /\ entries' = [q \in {x \in DOMAIN entries : ~Aborts(x, k, f)} |-> entries[q]]
    /\ UNCHANGED begun

\* A caller that was told to replay or refused is done at once: no state changes.
Begin(c, k, f) ==
    /\ calls[c] = Idle
    /\ BeginExecute(k, f)
    /\ begun \in Insertions
    /\ calls' = [calls EXCEPT ![c] = [key |-> k, fingerprint |-> f]]

Finish(c, result) ==
    /\ calls[c] # Idle
    /\ FinishEntry(calls[c].key, calls[c].fingerprint, result)
    /\ calls' = [calls EXCEPT ![c] = Idle]

Abort(c) ==
    /\ calls[c] # Idle
    /\ AbortEntry(calls[c].key, calls[c].fingerprint)
    /\ calls' = [calls EXCEPT ![c] = Idle]

\* A restart empties the cache and ends the callers.
Restart ==
    /\ entries' = [k \in {} |-> 0]
    /\ calls' = [c \in Callers |-> Idle]
    /\ UNCHANGED begun

Next == \/ \E c \in Callers, k \in Keys, f \in Fingerprints : Begin(c, k, f)
        \/ \E c \in Callers, result \in Results : Finish(c, result)
        \/ \E c \in Callers : Abort(c)
        \/ Restart

Spec == Init /\ [][Next]_vars
-------------------------------------------------------------------------------
(* No two executing callers share a key: a key is a lock on its apply, and *)
(* neither an eviction nor another caller's abort breaks it.               *)
OneCallerPerKey ==
    \A c, d \in Callers : calls[c] # Idle /\ calls[d] # Idle /\ c # d =>
        calls[c].key # calls[d].key

(* An in-flight entry belongs to a caller that has not finished or aborted *)
(* it, with its fingerprint, and such a caller has its entry: no operation *)
(* of the store loses one.                                                 *)
InFlightOwned ==
    /\ \A c \in Callers : calls[c] # Idle =>
          /\ calls[c].key \in DOMAIN entries
          /\ entries[calls[c].key].inFlight
          /\ entries[calls[c].key].fingerprint = calls[c].fingerprint
    /\ \A k \in DOMAIN entries : entries[k].inFlight =>
          \E c \in Callers : calls[c] # Idle /\ calls[c].key = k

(* The store never holds more than its maximum, so the final while-loop of *)
(* begin (idempotency.py:54-55), which would evict without looking at      *)
(* in_flight, never has anything to do.                                    *)
WithinMaximum == Cardinality(DOMAIN entries) <= Maximum

(* A completed result is forgotten only oldest first: whenever an entry    *)
(* disappears in favour of another, no older completed one stays behind.   *)
ForgetsOldestFirst ==
    [][\A gone, kept \in DOMAIN entries :
         /\ gone \notin DOMAIN entries'
         /\ kept \in DOMAIN entries'
         /\ ~entries[gone].inFlight /\ ~entries[kept].inFlight
         => entries[gone].at < entries[kept].at]_vars

(* A result once recorded under a key never changes while it is kept: all  *)
(* replays of that key give the same answer.                               *)
ReplayStable ==
    [][\A k \in DOMAIN entries \cap DOMAIN entries' :
         ~entries[k].inFlight => entries'[k] = entries[k]]_vars
===============================================================================
