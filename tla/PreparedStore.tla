---------------------------- MODULE PreparedStore ----------------------------
(***************************************************************************)
(* prepared.py: the in-memory store of prepared mutations.  The store's    *)
(* locks are never held across an await, so each coroutine of the class    *)
(* runs in one step of the event loop and is one action here.              *)
(*                                                                         *)
(* A prepare_id holds 192 random bits, so it is minted once; its digest    *)
(* covers the prepare_id (prepared.py:44-55), so a digest is named here by *)
(* the prepare_id it was computed for.                                     *)
(***************************************************************************)
EXTENDS PreparedLimits, FiniteSets

VARIABLES items,       \* _items: prepare_id -> prepared mutation
          now,         \* the monotonic clock
          minted,      \* history: ids ever handed to a client
          running,     \* history: ids begin_apply returned, until finish or abandoned
          uses         \* history: how many times begin_apply returned each id

preparedVars == <<items, now, minted, running, uses>>
history == <<minted, running, uses>>

Item == [session : Sessions, phrase : BOOLEAN, created : Nat,
         expires : Nat, inFlight : BOOLEAN, consumed : BOOLEAN]

\* What a caller of begin_apply sends: confirmed, confirmation_text and digest.
Call == [session : Sessions, digest : Prepares, confirmed : BOOLEAN,
         phrase : BOOLEAN]

PreparedTypeOK == /\ DOMAIN items \subseteq minted
                  /\ \A p \in DOMAIN items : items[p] \in Item
                  /\ now \in Nat
                  /\ minted \subseteq Prepares
                  /\ running \subseteq minted
                  /\ uses \in [Prepares -> Nat]

PreparedInit == /\ items = [p \in {} |-> 0]
                /\ now = 0
                /\ minted = {}
                /\ running = {}
                /\ uses = [p \in Prepares |-> 0]
------------------------------------------------------------------------------
Stale(item) == \/ item.expires <= now
               \/ item.consumed /\ now - item.created > TTL

\* _prune_locked drops every stale item, in flight or not.
Pruned == [p \in {q \in DOMAIN items : ~Stale(items[q])} |-> items[p]]

Without(p) == [q \in DOMAIN items \ {p} |-> items[q]]

Fresh(session, phrase) ==
    [session |-> session, phrase |-> phrase, created |-> now,
     expires |-> now + TTL, inFlight |-> FALSE, consumed |-> FALSE]

Create(p, session, phrase) ==
    /\ p \notin minted
    /\ items' = [q \in DOMAIN Pruned \cup {p} |->
                   IF q = p THEN Fresh(session, phrase) ELSE Pruned[q]]
    /\ minted' = minted \cup {p}
    /\ UNCHANGED <<now, running, uses>>

Expired(p) == p \in DOMAIN items /\ now >= items[p].expires

\* Mutant of Accepts: a consumed item is not refused.
AcceptsConsumed(item, p, call, later) ==
    /\ ~item.inFlight
    /\ later < item.expires
    /\ item.session = call.session
    /\ call.digest = p
    /\ item.phrase => call.phrase

\* The checks under item.lock; the clock is read a second time, at "later".
Accepts(item, p, call, later) ==
    /\ ~item.consumed
    /\ ~item.inFlight
    /\ later < item.expires
    /\ item.session = call.session
    /\ call.digest = p
    /\ item.phrase => call.phrase

Grants(p, call, later) == /\ call.confirmed
                          /\ p \in DOMAIN Pruned
                          /\ Accepts(Pruned[p], p, call, later)

\* The second reading of the clock may fall one tick after the first.
Readings == {t \in {now, now + 1} : t <= MaxTime}

BeginGranted(p, call) ==
    \E later \in Readings :
       /\ Grants(p, call, later)
       /\ items' = [Pruned EXCEPT ![p].inFlight = TRUE]
       /\ now' = later
       /\ running' = running \cup {p}
       /\ uses' = [uses EXCEPT ![p] = @ + 1]
       /\ UNCHANGED minted

\* Any refusal: not confirmed, expired (which drops the item), or a failed check.
BeginRefused(p, call) ==
    \E later \in Readings :
       /\ ~Grants(p, call, later)
       /\ items' = IF ~call.confirmed THEN items
                   ELSE IF Expired(p) THEN Without(p) ELSE Pruned
       /\ now' = later
       /\ UNCHANGED history

\* Mutants of FinishApply: the item is not consumed; a pruned item comes back.
FinishUnconsumed(p, consume) ==
    /\ items' = [q \in DOMAIN items |->
                   IF q = p THEN [items[q] EXCEPT !.inFlight = FALSE] ELSE items[q]]
    /\ running' = running \ {p}
    /\ UNCHANGED <<now, minted, uses>>

FinishReviving(p, consume) ==
    /\ items' = [q \in DOMAIN items \cup (running \cap {p}) |->
                   IF q = p THEN [consumed |-> consume] ELSE items[q]]
    /\ running' = running \ {p}
    /\ UNCHANGED <<now, minted, uses>>

\* finish(prepare_id, consume): a no-op when the item was pruned meanwhile.
FinishApply(p, consume) ==
    /\ items' = [q \in DOMAIN items |->
                   IF q = p THEN [items[q] EXCEPT !.inFlight = FALSE,
                                                  !.consumed = @ \/ consume]
                   ELSE items[q]]
    /\ running' = running \ {p}
    /\ UNCHANGED <<now, minted, uses>>

\* The caller of begin_apply is cancelled: nobody calls finish, and the item keeps
\* its in_flight mark until a prune drops it.
AbandonApply(p) == /\ p \in running
                   /\ running' = running \ {p}
                   /\ UNCHANGED <<items, now, minted, uses>>

\* system.prepare.status drops expired items before it answers.
Status(p) == /\ items' = IF Expired(p) THEN Without(p) ELSE Pruned
             /\ UNCHANGED <<now, history>>

\* Mutant of StatusAnswer: in_flight is not looked at.
AnswerIgnoringFlight(p) == IF Expired(p) THEN "expired"
                           ELSE IF p \notin DOMAIN Pruned THEN "not_found"
                           ELSE IF items[p].consumed THEN "consumed" ELSE "prepared"

StatusAnswer(p) == IF Expired(p) THEN "expired"
                   ELSE IF p \notin DOMAIN Pruned THEN "not_found"
                   ELSE IF items[p].consumed THEN "consumed"
                   ELSE IF items[p].inFlight THEN "in_progress" ELSE "prepared"

Tick == /\ now < MaxTime
        /\ now' = now + 1
        /\ UNCHANGED <<items, history>>

\* A restart of Home Assistant loses the store and the running handlers.
RestartPrepared == /\ items' = [p \in {} |-> 0]
                   /\ running' = {}
                   /\ UNCHANGED <<now, minted, uses>>

\* The engine passes consume=True on both of its paths (engine.py:1319, 1331).
\* Nothing is assumed of when, or whether, it calls finish.
PreparedNext == \/ \E p \in Prepares, s \in Sessions, f \in BOOLEAN : Create(p, s, f)
                \/ \E p \in Prepares, c \in Call : BeginGranted(p, c)
                \/ \E p \in Prepares, c \in Call : BeginRefused(p, c)
                \/ \E p \in Prepares : FinishApply(p, TRUE) \/ AbandonApply(p)
                \/ \E p \in Prepares : Status(p)
                \/ Tick
                \/ RestartPrepared

PreparedSpec == PreparedInit /\ [][PreparedNext]_preparedVars
------------------------------------------------------------------------------
(* Single use (SECURITY.md:12): whatever mixture of applies, expiries,     *)
(* prunes, status reads and restarts, begin_apply returns an id at most    *)
(* once.                                                                   *)
SingleUse == \A p \in Prepares : uses[p] <= 1

\* What makes SingleUse inductive: an id that was handed out is, as long as it
\* is stored, marked in flight or consumed.
SpentMarked == \A p \in Prepares : uses[p] > 0 =>
                  /\ p \in minted
                  /\ p \in DOMAIN items => items[p].inFlight \/ items[p].consumed

(* The store tells the truth: while an id's handler runs, status never     *)
(* calls that id "prepared" or "consumed"; it may only have forgotten it.  *)
StatusHonest == \A p \in running :
                   StatusAnswer(p) \in {"in_progress", "expired", "not_found"}

(* An id is open to an apply only from its mint to its expiry, and only    *)
(* until begin_apply returns it.                                           *)
Open(p) == /\ p \in DOMAIN items
           /\ ~items[p].inFlight
           /\ ~items[p].consumed
           /\ now < items[p].expires

PhaseOf(p) == IF p \notin minted THEN "unminted"
              ELSE IF p \in running THEN "running"
              ELSE IF Open(p) THEN "open" ELSE "closed"

Promise == INSTANCE OneShot WITH phase <- [p \in Prepares |-> PhaseOf(p)]

(* The store implements the one-way life of OneShot.                       *)
ImplementsOneShot == Promise!Spec
==============================================================================
