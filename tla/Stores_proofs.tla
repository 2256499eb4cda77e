----------------------------- MODULE Stores_proofs -----------------------------
(***************************************************************************)
(* Proofs about the two stores that the apply engine is built from.  The   *)
(* prepared store, for every set of ids and sessions and every TTL: its    *)
(* type, single use, an honest status, and that it implements OneShot.     *)
(* The idempotency store, for any number of keys, callers and any          *)
(* capacity: its type, the ownership of in-flight entries, its bound and   *)
(* the stability of what it replays.                                       *)
(***************************************************************************)
EXTENDS PreparedStore, IdempotencyStore, FiniteSetTheorems, TLAPS

\* Pruning and dropping only remove: what stays is unchanged.
LEMMA PrunedStays ==
  /\ DOMAIN Pruned \subseteq DOMAIN items
  /\ \A p \in DOMAIN Pruned : Pruned[p] = items[p] /\ ~Stale(items[p])
  BY DEF Pruned

LEMMA WithoutStays ==
  ASSUME NEW p
  PROVE  /\ DOMAIN Without(p) \subseteq DOMAIN items
         /\ \A q \in DOMAIN Without(p) : Without(p)[q] = items[q]
  BY DEF Without

\* A step that only drops items: every refusal and every status read.
Drops == /\ DOMAIN items' \subseteq DOMAIN items
         /\ \A p \in DOMAIN items' : items'[p] = items[p]

LEMMA RefusedDrops ==
  ASSUME NEW p, NEW c, BeginRefused(p, c)
  PROVE  Drops
  BY PrunedStays, WithoutStays DEF BeginRefused, Drops

LEMMA StatusDrops ==
  ASSUME NEW p, Status(p)
  PROVE  Drops
  BY PrunedStays, WithoutStays DEF Status, Drops

LEMMA ReadingsAreTimes ==
  ASSUME now \in Nat, NEW t \in Readings
  PROVE  t \in Nat /\ t >= now
  BY DEF Readings
-------------------------------------------------------------------------------
\* The store's variables keep their types: items exist only for minted ids, and
\* every field of a prepared mutation stays in range (prepared.py:27-194).
THEOREM PreparedTypeCorrect == PreparedSpec => []PreparedTypeOK
<1>1. PreparedInit => PreparedTypeOK
  BY DEF PreparedInit, PreparedTypeOK
<1>2. PreparedTypeOK /\ [PreparedNext]_preparedVars => PreparedTypeOK'
  <2> SUFFICES ASSUME PreparedTypeOK, [PreparedNext]_preparedVars
               PROVE  PreparedTypeOK'
    OBVIOUS
  <2> USE DEF PreparedTypeOK
  <2>1. ASSUME NEW p \in Prepares, NEW s \in Sessions, NEW f \in BOOLEAN,
               Create(p, s, f)
        PROVE  PreparedTypeOK'
    <3>1. Fresh(s, f) \in Item
      BY TimeAssumption DEF Fresh, Item
    <3>2. QED
      BY <2>1, <3>1, PrunedStays DEF Create
  <2>2. ASSUME NEW p \in Prepares, NEW c \in Call, BeginGranted(p, c)
        PROVE  PreparedTypeOK'
    <3>1. PICK later \in Readings :
             /\ Grants(p, c, later)
             /\ items' = [Pruned EXCEPT ![p].inFlight = TRUE]
             /\ now' = later
             /\ running' = running \cup {p}
             /\ uses' = [uses EXCEPT ![p] = @ + 1]
             /\ UNCHANGED minted
      BY <2>2 DEF BeginGranted
    <3>2. p \in DOMAIN Pruned /\ p \in minted
      BY <3>1, PrunedStays DEF Grants
    <3>3. ASSUME NEW q \in DOMAIN items'
          PROVE  items'[q] \in Item
      <4>1. q \in DOMAIN Pruned /\ Pruned[q] \in Item
        BY <3>1, PrunedStays
      <4>2. items'[q] = IF q = p THEN [Pruned[q] EXCEPT !.inFlight = TRUE]
                        ELSE Pruned[q]
        BY <3>1, <4>1
      <4>3. QED
        BY <4>1, <4>2 DEF Item
    <3>4. DOMAIN items' \subseteq minted
      BY <3>1, PrunedStays
    <3>5. now' \in Nat
      BY <3>1, ReadingsAreTimes
    <3>6. uses' \in [Prepares -> Nat]
      BY <3>1
    <3>7. QED
      BY <3>1, <3>2, <3>3, <3>4, <3>5, <3>6
  <2>3. ASSUME NEW p \in Prepares, NEW c \in Call, BeginRefused(p, c)
        PROVE  PreparedTypeOK'
    BY <2>3, RefusedDrops, ReadingsAreTimes DEF BeginRefused, Drops, history
  <2>4. ASSUME NEW p \in Prepares, FinishApply(p, TRUE)
        PROVE  PreparedTypeOK'
    <3>1. \A q \in DOMAIN items' : items'[q] \in Item
      BY <2>4 DEF FinishApply, Item
    <3>2. QED
      BY <2>4, <3>1 DEF FinishApply
  <2>5. ASSUME NEW p \in Prepares, Status(p)
        PROVE  PreparedTypeOK'
    BY <2>5, StatusDrops DEF Status, Drops, history
  <2>6. CASE Tick
    BY <2>6 DEF Tick, history
  <2>7. CASE RestartPrepared
    BY <2>7 DEF RestartPrepared
  <2>8. CASE UNCHANGED preparedVars
    BY <2>8 DEF preparedVars
  <2>9. ASSUME NEW p \in Prepares, AbandonApply(p)
        PROVE  PreparedTypeOK'
    BY <2>9 DEF AbandonApply
  <2>10. QED
    BY <2>1, <2>2, <2>3, <2>4, <2>5, <2>6, <2>7, <2>8, <2>9 DEF PreparedNext
<1>3. QED
  BY <1>1, <1>2, PTL DEF PreparedSpec
-------------------------------------------------------------------------------
\* What a step does to the two facts that make an id usable: it was never given
\* out, or it is marked.  SpentMarked is the inductive part, SingleUse follows.
PreparedInv == PreparedTypeOK /\ SpentMarked /\ SingleUse

LEMMA DropsKeepsInv ==
  ASSUME PreparedInv, Drops, UNCHANGED <<minted, uses>>
  PROVE  SpentMarked' /\ SingleUse'
  BY DEF PreparedInv, SpentMarked, SingleUse, Drops

\* begin_apply only accepts an id that it never returned before.
LEMMA GrantIsFirst ==
  ASSUME PreparedInv, NEW p \in Prepares, NEW c, NEW later, Grants(p, c, later)
  PROVE  uses[p] = 0
<1>1. p \in DOMAIN items /\ ~items[p].inFlight /\ ~items[p].consumed
  BY PrunedStays DEF Grants, Accepts
<1>2. uses[p] \in Nat
  BY DEF PreparedInv, PreparedTypeOK
<1>3. QED
  BY <1>1, <1>2 DEF PreparedInv, SpentMarked

\* begin_apply hands a prepare_id out at most once, whatever mix of applies,
\* refusals, status reads, prunes and restarts happens (prepared.py:76-150).
THEOREM SingleUseHolds == PreparedSpec => [](SpentMarked /\ SingleUse)
<1>1. PreparedInit => PreparedInv
  BY DEF PreparedInit, PreparedInv, PreparedTypeOK, SpentMarked, SingleUse
<1>2. PreparedInv /\ PreparedTypeOK' /\ [PreparedNext]_preparedVars => PreparedInv'
  <2> SUFFICES ASSUME PreparedInv, PreparedTypeOK', [PreparedNext]_preparedVars
               PROVE  SpentMarked' /\ SingleUse'
    BY DEF PreparedInv
  <2>1. ASSUME NEW p \in Prepares, NEW s \in Sessions, NEW f \in BOOLEAN,
               Create(p, s, f)
        PROVE  SpentMarked' /\ SingleUse'
    <3>1. uses[p] = 0
      BY <2>1 DEF Create, PreparedInv, PreparedTypeOK, SpentMarked
    <3>2. \A q \in DOMAIN items' : q # p => q \in DOMAIN items /\ items'[q] = items[q]
      BY <2>1, PrunedStays DEF Create
    <3>3. QED
      BY <2>1, <3>1, <3>2 DEF Create, PreparedInv, SpentMarked, SingleUse
  <2>2. ASSUME NEW p \in Prepares, NEW c \in Call, BeginGranted(p, c)
        PROVE  SpentMarked' /\ SingleUse'
    <3>1. PICK later \in Readings :
             /\ Grants(p, c, later)
             /\ items' = [Pruned EXCEPT ![p].inFlight = TRUE]
             /\ uses' = [uses EXCEPT ![p] = @ + 1]
             /\ UNCHANGED minted
      BY <2>2 DEF BeginGranted
    <3>2. uses[p] = 0 /\ p \in minted /\ p \in DOMAIN Pruned
      BY <3>1, GrantIsFirst, PrunedStays DEF Grants, PreparedInv, PreparedTypeOK
    <3>3. items'[p].inFlight
      BY <3>1, <3>2, PrunedStays DEF PreparedInv, PreparedTypeOK, Item
    <3>4. \A q \in DOMAIN items' : q # p => q \in DOMAIN items /\ items'[q] = items[q]
      BY <3>1, PrunedStays
    <3>5. \A q \in Prepares : uses'[q] = IF q = p THEN 1 ELSE uses[q]
      BY <3>1, <3>2 DEF PreparedInv, PreparedTypeOK
    <3>6. QED
      BY <3>1, <3>2, <3>3, <3>4, <3>5 DEF PreparedInv, SpentMarked, SingleUse
  <2>3. ASSUME NEW p \in Prepares, NEW c \in Call, BeginRefused(p, c)
        PROVE  SpentMarked' /\ SingleUse'
    BY <2>3, RefusedDrops, DropsKeepsInv DEF BeginRefused, history
  <2>4. ASSUME NEW p \in Prepares, FinishApply(p, TRUE)
        PROVE  SpentMarked' /\ SingleUse'
    <3>1. \A q \in DOMAIN items :
             items[q].inFlight \/ items[q].consumed =>
                items'[q].inFlight \/ items'[q].consumed
      BY <2>4 DEF FinishApply, PreparedInv, PreparedTypeOK, Item
    <3>2. QED
      BY <2>4, <3>1 DEF FinishApply, PreparedInv, SpentMarked, SingleUse
  <2>5. ASSUME NEW p \in Prepares, Status(p)
        PROVE  SpentMarked' /\ SingleUse'
    BY <2>5, StatusDrops, DropsKeepsInv DEF Status, history
  <2>6. CASE Tick
    BY <2>6 DEF Tick, history, PreparedInv, SpentMarked, SingleUse
  <2>7. CASE RestartPrepared
    BY <2>7 DEF RestartPrepared, PreparedInv, SpentMarked, SingleUse
  <2>8. CASE UNCHANGED preparedVars
    BY <2>8 DEF preparedVars, PreparedInv, SpentMarked, SingleUse
  <2>9. ASSUME NEW p \in Prepares, AbandonApply(p)
        PROVE  SpentMarked' /\ SingleUse'
    BY <2>9 DEF AbandonApply, PreparedInv, SpentMarked, SingleUse
  <2>10. QED
    BY <2>1, <2>2, <2>3, <2>4, <2>5, <2>6, <2>7, <2>8, <2>9 DEF PreparedNext
<1>3. QED
  BY <1>1, <1>2, PreparedTypeCorrect, PTL DEF PreparedSpec, PreparedInv
-------------------------------------------------------------------------------
\* As long as its handler runs, a stored item is in flight and not consumed.
RunningMarked == \A p \in running : p \in DOMAIN items =>
                    items[p].inFlight /\ ~items[p].consumed

LEMMA DropsKeepsMarks ==
  ASSUME RunningMarked, Drops, running' = running
  PROVE  RunningMarked'
  BY DEF RunningMarked, Drops

\* Status never calls an id whose handler runs prepared or consumed, whatever is
\* finished, pruned or read meanwhile (prepared.py:152-194).
THEOREM StatusIsHonest == PreparedSpec => []StatusHonest
<1>1. PreparedInit => RunningMarked
  BY DEF PreparedInit, RunningMarked
<1>2. RunningMarked /\ PreparedTypeOK /\ [PreparedNext]_preparedVars => RunningMarked'
  <2> SUFFICES ASSUME RunningMarked, PreparedTypeOK, [PreparedNext]_preparedVars
               PROVE  RunningMarked'
    OBVIOUS
  <2>1. ASSUME NEW p \in Prepares, NEW s \in Sessions, NEW f \in BOOLEAN,
               Create(p, s, f)
        PROVE  RunningMarked'
    <3>1. p \notin running /\ running' = running
      BY <2>1 DEF Create, PreparedTypeOK
    <3>2. \A q \in DOMAIN items' : q # p => q \in DOMAIN items /\ items'[q] = items[q]
      BY <2>1, PrunedStays DEF Create
    <3>3. QED
      BY <3>1, <3>2 DEF RunningMarked
  <2>2. ASSUME NEW p \in Prepares, NEW c \in Call, BeginGranted(p, c)
        PROVE  RunningMarked'
    <3>1. PICK later \in Readings :
             /\ Grants(p, c, later)
             /\ items' = [Pruned EXCEPT ![p].inFlight = TRUE]
             /\ running' = running \cup {p}
      BY <2>2 DEF BeginGranted
    <3>2. p \in DOMAIN Pruned /\ Pruned[p] \in Item /\ ~Pruned[p].consumed
      BY <3>1, PrunedStays DEF Grants, Accepts, PreparedTypeOK
    <3>3. items'[p].inFlight /\ ~items'[p].consumed
      BY <3>1, <3>2 DEF Item
    <3>4. \A q \in DOMAIN items' : q # p => q \in DOMAIN items /\ items'[q] = items[q]
      BY <3>1, PrunedStays
    <3>5. QED
      BY <3>1, <3>3, <3>4 DEF RunningMarked
  <2>3. ASSUME NEW p \in Prepares, NEW c \in Call, BeginRefused(p, c)
        PROVE  RunningMarked'
    BY <2>3, RefusedDrops, DropsKeepsMarks DEF BeginRefused, history
  <2>4. ASSUME NEW p \in Prepares, FinishApply(p, TRUE)
        PROVE  RunningMarked'
    BY <2>4 DEF FinishApply, RunningMarked
  <2>5. ASSUME NEW p \in Prepares, Status(p)
        PROVE  RunningMarked'
    BY <2>5, StatusDrops, DropsKeepsMarks DEF Status, history
  <2>6. CASE Tick
    BY <2>6 DEF Tick, history, RunningMarked
  <2>7. CASE RestartPrepared
    BY <2>7 DEF RestartPrepared, RunningMarked
  <2>8. CASE UNCHANGED preparedVars
    BY <2>8 DEF preparedVars, RunningMarked
  <2>9. ASSUME NEW p \in Prepares, AbandonApply(p)
        PROVE  RunningMarked'
    BY <2>9 DEF AbandonApply, RunningMarked
  <2>10. QED
    BY <2>1, <2>2, <2>3, <2>4, <2>5, <2>6, <2>7, <2>8, <2>9 DEF PreparedNext
<1>3. RunningMarked => StatusHonest
  BY PrunedStays DEF RunningMarked, StatusHonest, StatusAnswer
<1>4. QED
  BY <1>1, <1>2, <1>3, PreparedTypeCorrect, PTL DEF PreparedSpec
-------------------------------------------------------------------------------
\* A handler that runs was started by a use.
RunningUsed == \A p \in running : uses[p] > 0

LEMMA RunningUsedHolds == PreparedSpec => []RunningUsed
<1>1. PreparedInit => RunningUsed
  BY DEF PreparedInit, RunningUsed
<1>2. RunningUsed /\ PreparedTypeOK /\ [PreparedNext]_preparedVars => RunningUsed'
  <2> SUFFICES ASSUME RunningUsed, PreparedTypeOK, [PreparedNext]_preparedVars
               PROVE  RunningUsed'
    OBVIOUS
  <2>1. ASSUME NEW p \in Prepares, NEW s \in Sessions, NEW f \in BOOLEAN,
               Create(p, s, f)
        PROVE  RunningUsed'
    BY <2>1 DEF Create, RunningUsed
  <2>2. ASSUME NEW p \in Prepares, NEW c \in Call, BeginGranted(p, c)
        PROVE  RunningUsed'
    <3>1. running' = running \cup {p} /\ uses' = [uses EXCEPT ![p] = @ + 1]
      BY <2>2 DEF BeginGranted
    <3>2. \A q \in Prepares : uses'[q] = IF q = p THEN uses[q] + 1 ELSE uses[q]
      BY <3>1 DEF PreparedTypeOK
    <3>3. QED
      BY <3>1, <3>2 DEF RunningUsed, PreparedTypeOK
  <2>3. ASSUME NEW p \in Prepares, NEW c \in Call, BeginRefused(p, c)
        PROVE  RunningUsed'
    BY <2>3 DEF BeginRefused, history, RunningUsed
  <2>4. ASSUME NEW p \in Prepares, FinishApply(p, TRUE)
        PROVE  RunningUsed'
    BY <2>4 DEF FinishApply, RunningUsed
  <2>5. ASSUME NEW p \in Prepares, Status(p)
        PROVE  RunningUsed'
    BY <2>5 DEF Status, history, RunningUsed
  <2>6. CASE Tick
    BY <2>6 DEF Tick, history, RunningUsed
  <2>7. CASE RestartPrepared
    BY <2>7 DEF RestartPrepared, RunningUsed
  <2>8. CASE UNCHANGED preparedVars
    BY <2>8 DEF preparedVars, RunningUsed
  <2>9. ASSUME NEW p \in Prepares, AbandonApply(p)
        PROVE  RunningUsed'
    BY <2>9 DEF AbandonApply, RunningUsed
  <2>10. QED
    BY <2>1, <2>2, <2>3, <2>4, <2>5, <2>6, <2>7, <2>8, <2>9 DEF PreparedNext
<1>3. QED
  BY <1>1, <1>2, PreparedTypeCorrect, PTL DEF PreparedSpec

\* The move of one id that OneShot allows.
Moved(p) == PhaseOf(p)' # PhaseOf(p) => <<PhaseOf(p), PhaseOf(p)'>> \in Promise!Moves

LEMMA MovesMakeStep ==
  ASSUME \A p \in Prepares : Moved(p)
  PROVE  Promise!Next
<1>1. \A p \in Prepares : PhaseOf(p)' \in Promise!Phases
  BY DEF PhaseOf, Promise!Phases
<1>2. QED
  BY <1>1 DEF Promise!Next, Moved

\* Time passes and stale items go, but nothing is minted, started or ended.
LEMMA QuietStep ==
  ASSUME UNCHANGED <<minted, running>>, \A p \in Prepares : Open(p)' => Open(p)
  PROVE  Promise!Next
<1>1. ASSUME NEW p \in Prepares
      PROVE  Moved(p)
  BY DEF Moved, PhaseOf, Promise!Moves
<1>2. QED
  BY <1>1, MovesMakeStep

\* What a prune removes was not open any more.
LEMMA OpenSurvivesPrune ==
  ASSUME PreparedTypeOK, NEW p \in DOMAIN items, Open(p)
  PROVE  p \in DOMAIN Pruned
  BY DEF Open, Stale, Pruned, PreparedTypeOK, Item

\* The prepared store implements OneShot: each id is minted once, started at most
\* once and before it expires, and never comes back once it is closed.
THEOREM Refinement == PreparedSpec => ImplementsOneShot
<1>1. PreparedInit => Promise!Init
  BY DEF PreparedInit, Promise!Init, PhaseOf
<1>2. PreparedTypeOK /\ SpentMarked /\ SingleUse /\ RunningUsed /\ PreparedTypeOK' /\ [PreparedNext]_preparedVars
        => [Promise!Next]_([p \in Prepares |-> PhaseOf(p)])
  <2> SUFFICES ASSUME PreparedTypeOK, SpentMarked, SingleUse, RunningUsed, PreparedTypeOK', [PreparedNext]_preparedVars
               PROVE  [Promise!Next]_([p \in Prepares |-> PhaseOf(p)])
    OBVIOUS
  <2>1. ASSUME NEW p \in Prepares, NEW s \in Sessions, NEW f \in BOOLEAN,
               Create(p, s, f)
        PROVE  Promise!Next
    <3>1. Open(p)'
      BY <2>1, TimeAssumption DEF Create, Fresh, Open, PreparedTypeOK
    <3>2. PhaseOf(p) = "unminted" /\ PhaseOf(p)' = "open"
      BY <2>1, <3>1 DEF Create, PhaseOf, PreparedTypeOK
    <3>3. ASSUME NEW q \in Prepares, q # p
          PROVE  PhaseOf(q)' = PhaseOf(q)
      <4>1. Open(q)' <=> Open(q)
        BY <2>1, <3>3, PrunedStays, OpenSurvivesPrune DEF Create, Open
      <4>2. QED
        BY <2>1, <3>3, <4>1 DEF Create, PhaseOf
    <3>4. QED
      BY <3>2, <3>3, MovesMakeStep DEF Moved, Promise!Moves
  <2>2. ASSUME NEW p \in Prepares, NEW c \in Call, BeginGranted(p, c)
        PROVE  Promise!Next
    <3>1. PICK later \in Readings :
             /\ Grants(p, c, later)
             /\ items' = [Pruned EXCEPT ![p].inFlight = TRUE]
             /\ now' = later
             /\ running' = running \cup {p}
             /\ UNCHANGED minted
      BY <2>2 DEF BeginGranted
    <3>2. p \in minted /\ p \notin running
      BY <3>1, GrantIsFirst, PrunedStays
         DEF Grants, PreparedInv, PreparedTypeOK, RunningUsed
    <3>3. Open(p)
      BY <3>1, PrunedStays, ReadingsAreTimes
         DEF Grants, Accepts, Open, Stale, PreparedTypeOK, Item
    <3>4. PhaseOf(p) = "open" /\ PhaseOf(p)' = "running"
      BY <3>1, <3>2, <3>3 DEF PhaseOf
    <3>5. ASSUME NEW q \in Prepares, q # p
          PROVE  Moved(q)
      <4>1. Open(q)' => Open(q)
        BY <3>1, <3>5, PrunedStays, ReadingsAreTimes DEF Open, PreparedTypeOK, Item
      <4>2. QED
        BY <3>1, <3>5, <4>1 DEF Moved, PhaseOf, Promise!Moves
    <3>6. QED
      BY <3>4, <3>5, MovesMakeStep DEF Moved, Promise!Moves
  <2>3. ASSUME NEW p \in Prepares, NEW c \in Call, BeginRefused(p, c)
        PROVE  Promise!Next
    <3>1. \A q \in Prepares : Open(q)' => Open(q)
      BY <2>3, RefusedDrops, ReadingsAreTimes
         DEF BeginRefused, Drops, Open, PreparedTypeOK, Item
    <3>2. QED
      BY <2>3, <3>1, QuietStep DEF BeginRefused, history
  <2>4. ASSUME NEW p \in Prepares, FinishApply(p, TRUE)
        PROVE  Promise!Next
    <3>1. p \notin running' /\ minted' = minted /\ running \subseteq minted
      BY <2>4 DEF FinishApply, PreparedTypeOK
    <3>2. ~Open(p)'
      BY <2>4 DEF FinishApply, Open, PreparedTypeOK, Item
    <3>3. Open(p) => p \in minted
      BY DEF Open, PreparedTypeOK
    <3>4. Moved(p)
      BY <3>1, <3>2, <3>3 DEF Moved, PhaseOf, Promise!Moves
    <3>5. ASSUME NEW q \in Prepares, q # p
          PROVE  PhaseOf(q)' = PhaseOf(q)
      <4>1. Open(q)' <=> Open(q)
        BY <2>4, <3>5 DEF FinishApply, Open
      <4>2. QED
        BY <2>4, <3>5, <4>1 DEF FinishApply, PhaseOf
    <3>6. QED
      BY <3>4, <3>5, MovesMakeStep DEF Moved
  <2>5. ASSUME NEW p \in Prepares, Status(p)
        PROVE  Promise!Next
    <3>1. \A q \in Prepares : Open(q)' => Open(q)
      BY <2>5, StatusDrops DEF Status, Drops, Open, history
    <3>2. QED
      BY <2>5, <3>1, QuietStep DEF Status, history
  <2>6. CASE Tick
    <3>1. \A q \in Prepares : Open(q)' => Open(q)
      BY <2>6 DEF Tick, Open, history, PreparedTypeOK, Item
    <3>2. QED
      BY <2>6, <3>1, QuietStep DEF Tick, history
  <2>7. CASE RestartPrepared
    <3>1. ASSUME NEW q \in Prepares
          PROVE  Moved(q)
      BY <2>7 DEF RestartPrepared, Open, PhaseOf, Moved, Promise!Moves, PreparedTypeOK
    <3>2. QED
      BY <3>1, MovesMakeStep
  <2>8. CASE UNCHANGED preparedVars
    BY <2>8 DEF preparedVars, PhaseOf, Open
  <2>9. ASSUME NEW p \in Prepares, AbandonApply(p)
        PROVE  Promise!Next
    <3>1. PhaseOf(p) = "running"
      BY <2>9 DEF AbandonApply, PhaseOf, PreparedTypeOK
    <3>2. p \in minted /\ p \in running /\ minted' = minted /\ running' = running \ {p}
      BY <2>9 DEF AbandonApply, PreparedTypeOK
    <3>3. ~Open(p)'
      BY <2>9 DEF AbandonApply, Open, RunningUsed, SpentMarked
    <3>4. Moved(p)
      BY <3>1, <3>2, <3>3 DEF Moved, PhaseOf, Promise!Moves
    <3>5. ASSUME NEW q \in Prepares, q # p
          PROVE  PhaseOf(q)' = PhaseOf(q)
      BY <2>9, <3>5 DEF AbandonApply, Open, PhaseOf
    <3>6. QED
      BY <3>4, <3>5, MovesMakeStep DEF Moved
  <2>10. QED
    BY <2>1, <2>2, <2>3, <2>4, <2>5, <2>6, <2>7, <2>8, <2>9 DEF PreparedNext
<1>3. QED
  BY <1>1, <1>2, PreparedTypeCorrect, SingleUseHolds, RunningUsedHolds, PTL
     DEF PreparedSpec, ImplementsOneShot, Promise!Spec
--------------------------------------------------------------------------------
\* The idempotency store: what a caller asks with.
Keyed == [key : Keys, fingerprint : Fingerprints]

LEMMA CallIsNotIdle ==
  ASSUME NEW call \in Keyed
  PROVE  call # Idle
  BY IdleAssumption DEF Keyed, Idle

\* An insertion: what was kept is unchanged, and only completed entries left.
LEMMA Inserts ==
  ASSUME NEW k, NEW f, BeginExecute(k, f)
  PROVE  /\ DOMAIN entries' \subseteq DOMAIN entries \cup {k}
         /\ k \in DOMAIN entries' /\ k \notin DOMAIN entries
         /\ entries'[k] = [fingerprint |-> f, inFlight |-> TRUE,
                           result |-> Nothing, at |-> begun]
         /\ entries'[k].inFlight /\ entries'[k].fingerprint = f
         /\ \A q \in DOMAIN entries' : q # k => entries'[q] = entries[q]
         /\ \A q \in DOMAIN entries : entries[q].inFlight => q \in DOMAIN entries'
  BY DEF BeginExecute, Evictions, Completed, Oldest

\* The types of the store (idempotency.py:21-89).
THEOREM IdempotencyTypeCorrect == Spec => []TypeOK
<1>1. Init => TypeOK
  BY DEF Init, TypeOK
<1>2. TypeOK /\ [Next]_vars => TypeOK'
  <2> SUFFICES ASSUME TypeOK, [Next]_vars
               PROVE  TypeOK'
    OBVIOUS
  <2>1. ASSUME NEW c \in Callers, NEW k \in Keys, NEW f \in Fingerprints,
               Begin(c, k, f)
        PROVE  TypeOK'
    <3>1. BeginExecute(k, f) /\ begun' = begun + 1
      BY <2>1 DEF Begin, BeginExecute
    <3>2. [fingerprint |-> f, inFlight |-> TRUE, result |-> Nothing,
           at |-> begun] \in Entry
      BY DEF TypeOK, Entry
    <3>3. /\ DOMAIN entries' \subseteq DOMAIN entries \cup {k}
          /\ entries'[k] \in Entry
          /\ \A q \in DOMAIN entries' : q # k => entries'[q] = entries[q]
      BY <3>1, <3>2, Inserts
    <3>4. DOMAIN entries' \subseteq Keys /\ \A q \in DOMAIN entries' : entries'[q] \in Entry
      BY <3>3 DEF TypeOK
    <3>5. QED
      BY <2>1, <3>1, <3>4 DEF Begin, TypeOK
  <2>2. ASSUME NEW c \in Callers, NEW result \in Results, Finish(c, result)
        PROVE  TypeOK'
    <3>1. \A q \in DOMAIN entries' : q \in Keys /\ entries'[q] \in Entry
      BY <2>2 DEF Finish, FinishEntry, TypeOK, Entry
    <3>2. QED
      BY <2>2, <3>1 DEF Finish, FinishEntry, TypeOK
  <2>3. ASSUME NEW c \in Callers, Abort(c)
        PROVE  TypeOK'
    BY <2>3 DEF Abort, AbortEntry, TypeOK
  <2>4. CASE Restart
    BY <2>4 DEF Restart, TypeOK
  <2>5. CASE UNCHANGED vars
    BY <2>5 DEF vars, TypeOK
  <2>6. QED
    BY <2>1, <2>2, <2>3, <2>4, <2>5 DEF Next
<1>3. QED
  BY <1>1, <1>2, PTL DEF Spec
--------------------------------------------------------------------------------
Owned == InFlightOwned /\ OneCallerPerKey

\* Every in-flight entry has exactly one live caller, and that caller its entry:
\* evictions take completed entries only, and finish and abort touch their own.
THEOREM Ownership == Spec => [](InFlightOwned /\ OneCallerPerKey)
<1> USE DEF Owned
<1>1. Init => Owned
  BY DEF Init, InFlightOwned, OneCallerPerKey
<1>2. Owned /\ TypeOK /\ [Next]_vars => Owned'
  <2> SUFFICES ASSUME Owned, TypeOK, [Next]_vars
               PROVE  Owned'
    OBVIOUS
  <2>1. ASSUME NEW c \in Callers, NEW k \in Keys, NEW f \in Fingerprints,
               Begin(c, k, f)
        PROVE  Owned'
    <3>1. BeginExecute(k, f) /\ calls[c] = Idle
      BY <2>1 DEF Begin
    <3>2. calls'[c] = [key |-> k, fingerprint |-> f] /\ calls'[c] # Idle
      BY <2>1, CallIsNotIdle DEF Begin, TypeOK, Keyed
    <3>3. \A d \in Callers : d # c => calls'[d] = calls[d]
      BY <2>1 DEF Begin, TypeOK
    <3>4. \A d \in Callers : calls[d] # Idle => calls[d].key # k
      BY <3>1, Inserts DEF InFlightOwned
    <3>5. OneCallerPerKey'
      BY <3>2, <3>3, <3>4 DEF OneCallerPerKey
    <3>6. ASSUME NEW d \in Callers, calls'[d] # Idle
          PROVE  /\ calls'[d].key \in DOMAIN entries'
                 /\ entries'[calls'[d].key].inFlight
                 /\ entries'[calls'[d].key].fingerprint = calls'[d].fingerprint
      <4>1. /\ k \in DOMAIN entries' /\ entries'[k].inFlight
            /\ entries'[k].fingerprint = f
            /\ \A q \in DOMAIN entries' : q # k => entries'[q] = entries[q]
            /\ \A q \in DOMAIN entries : entries[q].inFlight => q \in DOMAIN entries'
        BY <3>1, Inserts
      <4>2. CASE d = c
        BY <3>2, <4>1, <4>2
      <4>3. CASE d # c
        <5>1. calls'[d] = calls[d] /\ calls[d] # Idle /\ calls[d].key # k
          BY <3>3, <3>4, <3>6, <4>3
        <5>2. QED
          BY <4>1, <5>1 DEF InFlightOwned
      <4>4. QED
        BY <4>2, <4>3
    <3>7. ASSUME NEW q \in DOMAIN entries', entries'[q].inFlight
          PROVE  \E d \in Callers : calls'[d] # Idle /\ calls'[d].key = q
      <4>1. CASE q = k
        BY <3>2, <4>1
      <4>2. CASE q # k
        <5>1. q \in DOMAIN entries /\ entries[q].inFlight
          BY <3>1, <3>7, <4>2, Inserts
        <5>2. PICK d \in Callers : calls[d] # Idle /\ calls[d].key = q
          BY <5>1 DEF InFlightOwned
        <5>3. QED
          BY <3>1, <3>3, <5>2
      <4>3. QED
        BY <4>1, <4>2
    <3>8. QED
      BY <3>5, <3>6, <3>7 DEF InFlightOwned
  <2>2. ASSUME NEW c \in Callers, NEW result \in Results, Finish(c, result)
        PROVE  Owned'
    <3>1. /\ calls[c] # Idle /\ calls'[c] = Idle
          /\ \A d \in Callers : d # c => calls'[d] = calls[d]
      BY <2>2 DEF Finish, TypeOK
    <3>2. /\ DOMAIN entries' = DOMAIN entries
          /\ \A q \in DOMAIN entries : q # calls[c].key => entries'[q] = entries[q]
      BY <2>2 DEF Finish, FinishEntry
    <3>3. calls[c].key \in DOMAIN entries /\ ~entries'[calls[c].key].inFlight
      BY <2>2, <3>1 DEF Finish, FinishEntry, InFlightOwned, TypeOK, Entry
    <3>4. OneCallerPerKey'
      BY <3>1 DEF OneCallerPerKey
    <3>5. QED
      BY <3>1, <3>2, <3>3, <3>4 DEF InFlightOwned, OneCallerPerKey
  <2>3. ASSUME NEW c \in Callers, Abort(c)
        PROVE  Owned'
    <3>1. /\ calls[c] # Idle /\ calls'[c] = Idle
          /\ \A d \in Callers : d # c => calls'[d] = calls[d]
      BY <2>3 DEF Abort, TypeOK
    <3>2. /\ DOMAIN entries' = DOMAIN entries \ {calls[c].key}
          /\ \A q \in DOMAIN entries' : entries'[q] = entries[q]
      BY <2>3, <3>1 DEF Abort, AbortEntry, Aborts, InFlightOwned
    <3>3. OneCallerPerKey'
      BY <3>1 DEF OneCallerPerKey
    <3>4. QED
      BY <3>1, <3>2, <3>3 DEF InFlightOwned, OneCallerPerKey
  <2>4. CASE Restart
    BY <2>4 DEF Restart, InFlightOwned, OneCallerPerKey
  <2>5. CASE UNCHANGED vars
    BY <2>5 DEF vars, InFlightOwned, OneCallerPerKey
  <2>6. QED
    BY <2>1, <2>2, <2>3, <2>4, <2>5 DEF Next
<1>3. QED
  BY <1>1, <1>2, IdempotencyTypeCorrect, PTL DEF Spec
--------------------------------------------------------------------------------
Bounded == IsFiniteSet(DOMAIN entries) /\ WithinMaximum

LEMMA InsertionBounded ==
  ASSUME Bounded, NEW k, NEW f, BeginExecute(k, f)
  PROVE  Bounded'
<1>1. PICK evicted \in Evictions : DOMAIN entries' = (DOMAIN entries \ evicted) \cup {k}
  BY DEF BeginExecute
<1>2. Cardinality(DOMAIN entries) \in Nat /\ Cardinality(DOMAIN entries) <= Maximum
  BY FS_CardinalityType DEF Bounded, WithinMaximum
<1>3. k \notin DOMAIN entries
  BY DEF BeginExecute
<1>4. CASE Full
  <2>1. PICK gone \in DOMAIN entries : evicted = {gone}
    BY <1>1, <1>4 DEF Evictions, Completed
  <2>2. /\ IsFiniteSet(DOMAIN entries \ {gone})
        /\ Cardinality(DOMAIN entries \ {gone}) = Cardinality(DOMAIN entries) - 1
    BY <2>1, FS_RemoveElement DEF Bounded
  <2>3. /\ IsFiniteSet((DOMAIN entries \ {gone}) \cup {k})
        /\ Cardinality((DOMAIN entries \ {gone}) \cup {k})
             = Cardinality(DOMAIN entries \ {gone}) + 1
    BY <1>3, <2>2, FS_AddElement
  <2>4. QED
    BY <1>1, <1>2, <2>1, <2>2, <2>3 DEF Bounded, WithinMaximum
<1>5. CASE ~Full
  <2>1. evicted = {}
    BY <1>1, <1>5 DEF Evictions
  <2>2. /\ IsFiniteSet(DOMAIN entries \cup {k})
        /\ Cardinality(DOMAIN entries \cup {k}) = Cardinality(DOMAIN entries) + 1
    BY <1>3, FS_AddElement DEF Bounded
  <2>3. Cardinality(DOMAIN entries) + 1 <= Maximum
    BY <1>2, <1>5, MaximumAssumption DEF Full
  <2>4. QED
    BY <1>1, <2>1, <2>2, <2>3 DEF Bounded, WithinMaximum
<1>6. QED
  BY <1>4, <1>5

\* The store never grows beyond its maximum, so begin's final while-loop, which
\* would drop in-flight entries too, never runs (idempotency.py:36-55).
THEOREM Capacity == Spec => []WithinMaximum
<1>1. Init => Bounded
  BY FS_EmptySet, MaximumAssumption DEF Init, Bounded, WithinMaximum
<1>2. Bounded /\ [Next]_vars => Bounded'
  <2> SUFFICES ASSUME Bounded, [Next]_vars
               PROVE  Bounded'
    OBVIOUS
  <2>1. ASSUME NEW c \in Callers, NEW k \in Keys, NEW f \in Fingerprints,
               Begin(c, k, f)
        PROVE  Bounded'
    BY <2>1, InsertionBounded DEF Begin
  <2>2. ASSUME NEW c \in Callers, NEW result \in Results, Finish(c, result)
        PROVE  Bounded'
    BY <2>2 DEF Finish, FinishEntry, Bounded, WithinMaximum
  <2>3. ASSUME NEW c \in Callers, Abort(c)
        PROVE  Bounded'
    <3>1. DOMAIN entries' \subseteq DOMAIN entries
      BY <2>3 DEF Abort, AbortEntry
    <3>2. /\ IsFiniteSet(DOMAIN entries')
          /\ Cardinality(DOMAIN entries') <= Cardinality(DOMAIN entries)
      BY <3>1, FS_Subset DEF Bounded
    <3>3. QED
      BY <3>2, FS_CardinalityType, MaximumAssumption DEF Bounded, WithinMaximum
  <2>4. CASE Restart
    BY <2>4, FS_EmptySet, MaximumAssumption DEF Restart, Bounded, WithinMaximum
  <2>5. CASE UNCHANGED vars
    BY <2>5 DEF vars, Bounded, WithinMaximum
  <2>6. QED
    BY <2>1, <2>2, <2>3, <2>4, <2>5 DEF Next
<1>3. QED
  BY <1>1, <1>2, PTL DEF Spec, Bounded
--------------------------------------------------------------------------------
\* While a key is kept its recorded result never changes, so every replay of a
\* key gives the same answer (idempotency.py:57-79).
THEOREM ReplaysAreStable == Spec => ReplayStable
<1>1. ASSUME Owned, TypeOK, [Next]_vars,
             NEW k \in DOMAIN entries \cap DOMAIN entries', ~entries[k].inFlight
      PROVE  entries'[k] = entries[k]
  <2>1. ASSUME NEW c \in Callers, NEW q \in Keys, NEW f \in Fingerprints,
               Begin(c, q, f)
        PROVE  entries'[k] = entries[k]
    BY <1>1, <2>1, Inserts DEF Begin
  <2>2. ASSUME NEW c \in Callers, NEW result \in Results, Finish(c, result)
        PROVE  entries'[k] = entries[k]
    BY <1>1, <2>2 DEF Finish, FinishEntry, Owned, InFlightOwned
  <2>3. ASSUME NEW c \in Callers, Abort(c)
        PROVE  entries'[k] = entries[k]
    BY <1>1, <2>3 DEF Abort, AbortEntry
  <2>4. CASE Restart
    BY <1>1, <2>4 DEF Restart
  <2>5. CASE UNCHANGED vars
    BY <2>5 DEF vars
  <2>6. QED
    BY <1>1, <2>1, <2>2, <2>3, <2>4, <2>5 DEF Next
<1>2. Owned /\ TypeOK /\ [Next]_vars =>
        [\A k \in DOMAIN entries \cap DOMAIN entries' :
           ~entries[k].inFlight => entries'[k] = entries[k]]_vars
  BY <1>1
<1>3. QED
  BY <1>2, Ownership, IdempotencyTypeCorrect, PTL DEF Spec, ReplayStable, Owned
--------------------------------------------------------------------------------
\* The insertions number the entries: no two share a number, none is from later.
Numbered == /\ \A k \in DOMAIN entries : entries[k].at < begun
            /\ \A k, q \in DOMAIN entries : entries[k].at = entries[q].at => k = q

\* A step without an insertion keeps the numbers of what it keeps.
LEMMA KeepsNumbers ==
  ASSUME Numbered, begun' = begun, DOMAIN entries' \subseteq DOMAIN entries,
         \A q \in DOMAIN entries' : entries'[q].at = entries[q].at
  PROVE  Numbered'
  BY DEF Numbered

LEMMA NumberedHolds == Spec => []Numbered
<1>1. Init => Numbered
  BY DEF Init, Numbered
<1>2. Numbered /\ TypeOK /\ [Next]_vars => Numbered'
  <2> SUFFICES ASSUME Numbered, TypeOK, [Next]_vars
               PROVE  Numbered'
    OBVIOUS
  <2>1. ASSUME NEW c \in Callers, NEW k \in Keys, NEW f \in Fingerprints,
               Begin(c, k, f)
        PROVE  Numbered'
    <3>1. BeginExecute(k, f) /\ begun' = begun + 1 /\ begun \in Nat
      BY <2>1 DEF Begin, BeginExecute, TypeOK
    <3>2. entries'[k].at = begun
      <4>1. entries'[k] = [fingerprint |-> f, inFlight |-> TRUE,
                           result |-> Nothing, at |-> begun]
        BY <3>1, Inserts
      <4>2. QED
        BY <4>1
    <3>3. \A q \in DOMAIN entries' : q # k =>
             q \in DOMAIN entries /\ entries'[q].at = entries[q].at
      BY <3>1, Inserts
    <3>4. \A q \in DOMAIN entries : entries[q].at \in Nat /\ entries[q].at < begun
      BY DEF Numbered, TypeOK, Entry
    <3>5. QED
      BY <3>1, <3>2, <3>3, <3>4 DEF Numbered
  <2>2. ASSUME NEW c \in Callers, NEW result \in Results, Finish(c, result)
        PROVE  Numbered'
    <3>1. /\ begun' = begun /\ DOMAIN entries' = DOMAIN entries
          /\ \A q \in DOMAIN entries : entries'[q].at = entries[q].at
      BY <2>2 DEF Finish, FinishEntry, TypeOK, Entry
    <3>2. QED
      BY <3>1, KeepsNumbers
  <2>3. ASSUME NEW c \in Callers, Abort(c)
        PROVE  Numbered'
    BY <2>3, KeepsNumbers DEF Abort, AbortEntry
  <2>4. CASE Restart
    BY <2>4 DEF Restart, Numbered
  <2>5. CASE UNCHANGED vars
    BY <2>5 DEF vars, Numbered
  <2>6. QED
    BY <2>1, <2>2, <2>3, <2>4, <2>5 DEF Next
<1>3. QED
  BY <1>1, <1>2, IdempotencyTypeCorrect, PTL DEF Spec

\* What a full cache forgets to make room is the oldest completed result, however
\* the insertions, ends and aborts of its callers mix (idempotency.py:36-55).
THEOREM OldestGoesFirst == Spec => ForgetsOldestFirst
<1>1. ASSUME Owned, TypeOK, Numbered, [Next]_vars,
             NEW gone \in DOMAIN entries, NEW kept \in DOMAIN entries,
             gone \notin DOMAIN entries', kept \in DOMAIN entries',
             ~entries[gone].inFlight, ~entries[kept].inFlight
      PROVE  entries[gone].at < entries[kept].at
  <2>1. ASSUME NEW c \in Callers, NEW k \in Keys, NEW f \in Fingerprints,
               Begin(c, k, f)
        PROVE  entries[gone].at < entries[kept].at
    <3>1. PICK evicted \in Evictions :
             DOMAIN entries' = (DOMAIN entries \ evicted) \cup {k}
      BY <2>1 DEF Begin, BeginExecute
    <3>2. gone \in evicted
      BY <1>1, <3>1
    <3>3. Oldest(gone)
      BY <3>1, <3>2 DEF Evictions
    <3>4. entries[gone].at <= entries[kept].at /\ gone # kept
      BY <1>1, <3>3 DEF Oldest, Completed
    <3>5. entries[gone].at \in Nat /\ entries[kept].at \in Nat
      BY <1>1 DEF TypeOK, Entry
    <3>6. QED
      BY <1>1, <3>4, <3>5 DEF Numbered
  <2>2. ASSUME NEW c \in Callers, NEW result \in Results, Finish(c, result)
        PROVE  FALSE
    BY <1>1, <2>2 DEF Finish, FinishEntry
  <2>3. ASSUME NEW c \in Callers, Abort(c)
        PROVE  FALSE
    BY <1>1, <2>3 DEF Abort, AbortEntry, Aborts
  <2>4. CASE Restart
    BY <1>1, <2>4 DEF Restart
  <2>5. CASE UNCHANGED vars
    BY <1>1, <2>5 DEF vars
  <2>6. QED
    BY <1>1, <2>1, <2>2, <2>3, <2>4, <2>5 DEF Next
<1>2. Owned /\ TypeOK /\ Numbered /\ [Next]_vars =>
        [\A gone, kept \in DOMAIN entries :
           /\ gone \notin DOMAIN entries'
           /\ kept \in DOMAIN entries'
           /\ ~entries[gone].inFlight /\ ~entries[kept].inFlight
           => entries[gone].at < entries[kept].at]_vars
  BY <1>1
<1>3. QED
  BY <1>2, Ownership, IdempotencyTypeCorrect, NumberedHolds, PTL
     DEF Spec, ForgetsOldestFirst, Owned
================================================================================
