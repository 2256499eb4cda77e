---------------------------- MODULE OAuthProxy_proofs ----------------------------
(***************************************************************************)
(* The API, its rate limit and the OAuth proxy, for every set of requests, *)
(* exchanges, users, sessions and configurations.                          *)
(*                                                                         *)
(* First the rate limit by itself: no window holds more calls than the     *)
(* limit, and the hint that a refused client gets is long enough.  Both    *)
(* need to know what the deque is: a call that left it is older than the   *)
(* window, the calls are in the order of time, and never more than the     *)
(* limit of them are kept.  Then what the three views promise, below.      *)
(***************************************************************************)
EXTENDS OAuthProxy, FiniteSetTheorems, TLAPS

Kept(b) == Len(log[b]) - popped[b]

CallsInOrder == \A b \in Buckets : /\ popped[b] <= Len(log[b])
                                   /\ \A i \in 1..Len(log[b]) : log[b][i] <= clock

GoneIsOld == \A b \in Buckets : \A i \in 1..popped[b] : Old(b, i)

Fits == \A b \in Buckets : Kept(b) <= Limit[b]

\* While the deque is full, its head leaves before the client is back.
Hinted == \A b \in Buckets :
             told[b] # Never /\ Kept(b) = Limit[b] =>
                log[b][popped[b] + 1] + Window <= told[b]

RateIInv == RateTypeOK /\ CallsInOrder /\ GoneIsOld /\ Fits /\ WindowKept /\ Hinted
--------------------------------------------------------------------------------
(* Whatever is popped was in the deque, and all of it is older than the    *)
(* window.                                                                 *)
LEMMA PoppedIsOld ==
    ASSUME RateTypeOK, GoneIsOld, NEW b \in Buckets,
           NEW n \in popped[b]..Len(log[b]), Pops(b, n)
    PROVE  \A i \in 1..n : Old(b, i)
<1>1. popped[b] \in Nat  BY DEF RateTypeOK
<1>2. Len(log[b]) \in Nat  BY DEF RateTypeOK
<1>3. TAKE i \in 1..n
<1>4. CASE i \in 1..popped[b]  BY <1>4 DEF GoneIsOld
<1>5. CASE i \notin 1..popped[b]
  <2>1. i \in (popped[b] + 1)..n  BY <1>1, <1>2, <1>5
  <2> QED  BY <2>1 DEF Pops
<1> QED  BY <1>4, <1>5

(* The first call finds every bucket empty.                                *)
LEMMA RateInitInvariant == RateInit => RateIInv
<1> SUFFICES ASSUME RateInit PROVE RateIInv
  OBVIOUS
<1>1. RateTypeOK  BY DEF RateInit, RateTypeOK, Never
<1>2. CallsInOrder /\ GoneIsOld /\ WindowKept
  BY RateAssumption DEF RateInit, CallsInOrder, GoneIsOld, WindowKept
<1>3. Fits /\ Hinted
  BY RateAssumption DEF RateInit, Fits, Hinted, Kept, Never
<1> QED  BY <1>1, <1>2, <1>3 DEF RateIInv

(* An admitted call: the limit-th call before it has left the deque.       *)
LEMMA AdmitInvariant ==
    ASSUME RateIInv, NEW b \in Buckets, Admit(b)
    PROVE  RateIInv'
<1> USE RateAssumption
<1>1. PICK n \in popped[b]..Len(log[b]) :
         /\ Pops(b, n) /\ ~AtLimit(b, n)
         /\ popped' = [popped EXCEPT ![b] = n]
         /\ log' = [log EXCEPT ![b] = Append(@, clock)]
         /\ told' = [told EXCEPT ![b] = Never]
         /\ clock' = clock
  BY DEF Admit
<1>2. /\ RateTypeOK /\ CallsInOrder /\ GoneIsOld /\ Fits /\ WindowKept /\ Hinted
      /\ clock \in Nat /\ n \in Nat /\ Limit[b] \in Nat \ {0} /\ Window \in Nat
      /\ log[b] \in Seq(Nat) /\ Len(log[b]) \in Nat /\ popped[b] \in Nat
  BY DEF RateIInv, RateTypeOK
<1>3. /\ log'[b] = Append(log[b], clock) /\ popped'[b] = n /\ told'[b] = Never
      /\ \A c \in Buckets \ {b} : /\ log'[c] = log[c] /\ popped'[c] = popped[c]
                                  /\ told'[c] = told[c]
  BY <1>1, <1>2 DEF RateTypeOK
<1>4. /\ Len(log'[b]) = Len(log[b]) + 1
      /\ log'[b][Len(log[b]) + 1] = clock
      /\ \A i \in 1..Len(log[b]) : log'[b][i] = log[b][i]
  BY <1>2, <1>3
<1>5. \A i \in 1..n : clock - log[b][i] > Window
  BY <1>1, <1>2, PoppedIsOld DEF Old
<1>6. RateTypeOK'
  <2>1. Append(log[b], clock) \in Seq(Nat)  BY <1>2
  <2> QED  BY <1>1, <1>2, <2>1 DEF RateTypeOK, Never
<1>7. CallsInOrder'
  BY <1>1, <1>2, <1>3, <1>4 DEF CallsInOrder
<1>8. GoneIsOld'
  BY <1>1, <1>2, <1>3, <1>4, <1>5 DEF GoneIsOld, Old, RateTypeOK
<1>9. Fits'
  BY <1>1, <1>2, <1>3, <1>4 DEF Fits, Kept, AtLimit, RateTypeOK
<1>10. WindowKept'
  <2> SUFFICES ASSUME NEW c \in Buckets, NEW i \in 1..Len(log'[c]),
                      i + Limit[c] <= Len(log'[c])
               PROVE  log'[c][i + Limit[c]] - log'[c][i] > Window
    BY <1>1 DEF WindowKept
  <2>1. CASE c # b  BY <1>2, <1>3, <2>1 DEF WindowKept
  <2>2. CASE c = b /\ i + Limit[c] <= Len(log[b])
    <3>1. i \in 1..Len(log[b]) /\ i + Limit[b] \in 1..Len(log[b])
      BY <1>2, <2>2
    <3> QED  BY <1>2, <1>4, <2>2, <3>1 DEF WindowKept
  <2>3. CASE c = b /\ i + Limit[c] = Len(log[b]) + 1
    <3>1. i \in 1..n /\ i \in 1..Len(log[b])
      BY <1>1, <1>2, <2>3 DEF AtLimit
    <3> QED  BY <1>4, <1>5, <2>3, <3>1
  <2>4. c = b => i \in Nat /\ Limit[b] \in Nat /\ i + Limit[b] <= Len(log[b]) + 1
    BY <1>2, <1>4, RateAssumption
  <2>5. c = b => i + Limit[c] <= Len(log[b]) \/ i + Limit[c] = Len(log[b]) + 1
    <3> SUFFICES ASSUME c = b
                 PROVE  i + Limit[b] <= Len(log[b]) \/ i + Limit[b] = Len(log[b]) + 1
      OBVIOUS
    <3>1. Len(log[b]) \in Nat  BY <1>4
    <3> QED  BY <2>4, <3>1
  <2> QED  BY <2>1, <2>2, <2>3, <2>5
<1>11. Hinted'
  BY <1>1, <1>2, <1>3 DEF Hinted, Kept
<1> QED  BY <1>6, <1>7, <1>8, <1>9, <1>10, <1>11 DEF RateIInv

(* A refused call: the hint ends no sooner than the head of the deque.     *)
LEMMA RefuseInvariant ==
    ASSUME RateIInv, NEW b \in Buckets, Refuse(b)
    PROVE  RateIInv'
<1> USE RateAssumption
<1>1. PICK n \in popped[b]..Len(log[b]), h \in 1..(Window + 1) :
         /\ Pops(b, n) /\ AtLimit(b, n) /\ Hints(b, n, h)
         /\ popped' = [popped EXCEPT ![b] = n]
         /\ told' = [told EXCEPT ![b] = clock + h * Second]
         /\ clock' = clock /\ log' = log
  BY DEF Refuse
<1> DEFINE wait == h * Second
<1>2. /\ RateTypeOK /\ CallsInOrder /\ GoneIsOld /\ Fits /\ WindowKept /\ Hinted
      /\ clock \in Nat /\ n \in Nat /\ n >= popped[b] /\ Limit[b] \in Nat \ {0}
      /\ Window \in Nat /\ popped[b] \in Nat
      /\ log[b] \in Seq(Nat) /\ Len(log[b]) \in Nat
  BY DEF RateIInv, RateTypeOK
<1>3. /\ popped' = [popped EXCEPT ![b] = n]
      /\ told' = [told EXCEPT ![b] = clock + wait]
      /\ clock' = clock /\ log' = log
  BY <1>1
<1>4. wait \in Nat /\ wait >= Window - (clock - log[b][n + 1])
  BY <1>1, <1>2 DEF Hints
<1>5. n <= Len(log[b]) /\ Len(log[b]) - n >= Limit[b]
  BY <1>1 DEF AtLimit
<1>6. \A i \in 1..n : Old(b, i)
  BY <1>1, <1>2, PoppedIsOld
<1> HIDE DEF wait
<1>7. /\ popped'[b] = n /\ told'[b] = clock + wait
      /\ \A c \in Buckets \ {b} : popped'[c] = popped[c] /\ told'[c] = told[c]
  BY <1>2, <1>3 DEF RateTypeOK
<1>8. RateTypeOK'
  BY <1>2, <1>3, <1>4 DEF RateTypeOK
<1>9. CallsInOrder'
  BY <1>2, <1>3, <1>5, <1>7 DEF CallsInOrder
<1>10. GoneIsOld'
  BY <1>2, <1>3, <1>6, <1>7 DEF GoneIsOld, Old
<1>11. Fits'
  BY <1>2, <1>3, <1>7 DEF Fits, Kept, RateTypeOK
<1>12. WindowKept'
  BY <1>2, <1>3 DEF WindowKept
<1>13. Hinted'
  <2>1. n + 1 \in 1..Len(log[b])  BY <1>2, <1>5
  <2>2. log[b][n + 1] \in Nat  BY <1>2, <2>1
  <2>3. log[b][n + 1] + Window <= clock + wait
    BY <1>2, <1>4, <2>2
  <2> QED  BY <1>2, <1>3, <1>7, <2>3 DEF Hinted, Kept
<1> QED  BY <1>8, <1>9, <1>10, <1>11, <1>12, <1>13 DEF RateIInv

(* The clock moves: what was old is older.                                 *)
LEMMA PassInvariant ==
    ASSUME RateIInv, Pass
    PROVE  RateIInv'
<1> USE RateAssumption
<1>1. /\ RateTypeOK /\ CallsInOrder /\ GoneIsOld /\ Fits /\ WindowKept /\ Hinted
      /\ clock' = clock + 1 /\ log' = log /\ popped' = popped /\ told' = told
  BY DEF RateIInv, Pass
<1>2. RateTypeOK'  BY <1>1 DEF RateTypeOK
<1>3. CallsInOrder' /\ GoneIsOld'
  <2>1. \A b \in Buckets : \A i \in 1..Len(log[b]) : log[b][i] \in Nat
    BY <1>1 DEF RateTypeOK
  <2>2. \A b \in Buckets : \A i \in 1..popped[b] : i \in 1..Len(log[b])
    BY <1>1 DEF RateTypeOK, CallsInOrder
  <2>3. CallsInOrder'
    BY <1>1, <2>1 DEF CallsInOrder, RateTypeOK
  <2>4. GoneIsOld'
    <3> SUFFICES ASSUME NEW b \in Buckets, NEW i \in 1..popped'[b]
                 PROVE  clock' - log'[b][i] > Window
      BY DEF GoneIsOld, Old
    <3>1. clock - log[b][i] > Window  BY <1>1 DEF GoneIsOld, Old
    <3>2. clock \in Nat /\ log[b][i] \in Nat /\ Window \in Nat
      BY <1>1, <2>1, <2>2 DEF RateTypeOK
    <3> QED  BY <1>1, <3>1, <3>2
  <2> QED  BY <2>3, <2>4
<1>4. Fits' /\ WindowKept' /\ Hinted'
  BY <1>1 DEF Fits, WindowKept, Hinted, Kept
<1> QED  BY <1>2, <1>3, <1>4 DEF RateIInv

(* Every step of the rate limit.                                           *)
LEMMA RateStepInvariant ==
    ASSUME RateIInv, [RateNext]_rateVars
    PROVE  RateIInv'
<1>1. ASSUME NEW b \in Buckets, Admit(b) PROVE RateIInv'
  BY <1>1, AdmitInvariant
<1>2. ASSUME NEW b \in Buckets, Refuse(b) PROVE RateIInv'
  BY <1>2, RefuseInvariant
<1>3. CASE Pass  BY <1>3, PassInvariant
<1>4. CASE UNCHANGED rateVars
  BY <1>4 DEF RateIInv, RateTypeOK, CallsInOrder, GoneIsOld, Old, Fits, Kept, WindowKept,
              Hinted, rateVars
<1> QED  BY <1>1, <1>2, <1>3, <1>4 DEF RateNext

(* The inductive invariant of the rate limit.                              *)
LEMMA RateInvariant == RateSpec => []RateIInv
<1>1. RateIInv /\ [RateNext]_rateVars => RateIInv'
  BY RateStepInvariant
<1> QED  BY RateInitInvariant, <1>1, PTL DEF RateSpec

(* The deque and its history keep their types.                             *)
THEOREM RateTypeCorrect == RateSpec => []RateTypeOK
<1>1. RateIInv => RateTypeOK  BY DEF RateIInv
<1> QED  BY RateInvariant, <1>1, PTL

(* No window of time holds more admitted calls than the limit.             *)
THEOREM KeepsWindow == RateSpec => []WindowKept
<1>1. RateIInv => WindowKept  BY DEF RateIInv
<1> QED  BY RateInvariant, <1>1, PTL

(* A client that waited for longer than it was told is let in.             *)
THEOREM HintsEnough == RateSpec => []HintEnough
<1>1. RateIInv => HintEnough
  <2> SUFFICES ASSUME RateIInv, NEW b \in Buckets, told[b] # Never, clock > told[b],
                      NEW n \in popped[b]..Len(log[b]), Pops(b, n), AtLimit(b, n)
               PROVE  FALSE
    BY DEF HintEnough
  <2> USE RateAssumption
  <2>1. /\ clock \in Nat /\ told[b] \in Nat /\ Window \in Nat /\ Limit[b] \in Nat \ {0}
        /\ log[b] \in Seq(Nat) /\ Len(log[b]) \in Nat /\ popped[b] \in Nat
    BY DEF RateIInv, RateTypeOK
  <2>2. n = popped[b] /\ Kept(b) = Limit[b]
    BY <2>1 DEF RateIInv, Fits, Kept, AtLimit
  <2>3. log[b][n + 1] + Window <= told[b]
    BY <2>2 DEF RateIInv, Hinted
  <2>4. n + 1 \in 1..Len(log[b]) /\ log[b][n + 1] \in Nat
    <3>1. n \in Nat /\ Len(log[b]) - n = Limit[b]  BY <2>1, <2>2 DEF Kept
    <3>2. n + 1 \in 1..Len(log[b])  BY <2>1, <3>1
    <3> QED  BY <2>1, <3>2
  <2>5. clock - log[b][n + 1] > Window
    <3> DEFINE head == log[b][n + 1]
               until == told[b]
    <3>1. /\ head \in Nat /\ until \in Nat /\ clock \in Nat /\ Window \in Nat
          /\ head + Window <= until /\ clock > until
      BY <2>1, <2>3, <2>4
    <3> HIDE DEF head, until
    <3>2. clock - head > Window  BY ONLY <3>1
    <3> QED  BY <3>2 DEF head
  <2> QED  BY <2>1, <2>4, <2>5 DEF Pops, Old
<1> QED  BY RateInvariant, <1>1, PTL
--------------------------------------------------------------------------------
(***************************************************************************)
(* The views and the proxy.  The types first; then, for a request that     *)
(* waits for its body, that whatever was in order since it arrived has     *)
(* been noted, and for a session, that the exchange that made it still     *)
(* holds it or was answered.                                               *)
(***************************************************************************)
Routes == {"dispatch", "apply", "direct"}
ModeFits(q) == CASE q.route = "dispatch" -> q.mode \in {"read", "prepare", "x"}
                 [] q.route = "apply"    -> q.mode = "apply" /\ q.op.mode = "apply"
                 [] q.route = "direct"   -> TRUE
Asked == [route : Routes, session : SessionIds, user : Users,
          mode : Kinds \cup {"x"}, op : Operations]
WellAsked(q) == q \in Asked /\ ModeFits(q)

AccessTypeOK ==
    /\ config \in Configs /\ people \in [Users -> People]
    /\ sessions \in [DOMAIN sessions -> Session] /\ DOMAIN sessions \subseteq SessionIds
    /\ at \in [Requests -> {"idle", "body", "working"}]
    /\ asked \in [Requests -> Asked \cup {Nothing}]
    /\ \A r \in Requests : at[r] # "idle" => WellAsked(asked[r])
    /\ entitled \in [Requests -> BOOLEAN]

Underway == {"form", "sent", "acted"}

ProxyTypeOK ==
    /\ stage \in [Exchanges -> Underway \cup {"answered", "denied"}]
    /\ form \in [Exchanges -> Form \cup {Nothing}]
    /\ \A x \in Exchanges : stage[x] \in Underway => form[x] \in Form
    /\ minted \in [Exchanges -> SUBSET SessionIds]
    /\ born \subseteq SessionIds /\ granted \subseteq SessionIds
    /\ failures \in [{"token", "revoke"} -> Seq(Nat)]

TypeOK == RateTypeOK /\ AccessTypeOK /\ ProxyTypeOK

\* A session that once was is not made again.
Lineage == /\ DOMAIN sessions \subseteq born
           /\ \A x \in Exchanges : minted[x] \subseteq born
           /\ \A r \in Requests : at[r] # "idle" => asked[r].session \in born

\* What ReadBody and ReadBodyDirect may rely on.
Noticed == \A r \in Requests : at[r] = "body" =>
              IF asked[r].route = "direct" THEN entitled[r]
                                           ELSE InOrder(asked[r]) => entitled[r]

EntitledInv == Lineage /\ Noticed /\ EntitledOnce
GrantsInv == Lineage /\ GrantsAccounted
--------------------------------------------------------------------------------
(* What a client may send, once it is noted whose session it is.           *)
LEMMA NotedAsked ==
    ASSUME AccessTypeOK, NEW q \in Asks, LetIn(q)
    PROVE  WellAsked(Noted(q)) /\ Noted(q).session \in DOMAIN sessions
<1>1. sessions[q.session].user \in Users /\ q.session \in DOMAIN sessions
  BY DEF LetIn, AccessTypeOK, Session
<1>2. /\ q.route \in Routes /\ q.session \in SessionIds /\ q.op \in Operations
      /\ q.mode \in Kinds \cup {"x"}
      /\ ModeFits(q)
  BY AccessAssumption DEF Asks, Routes, Kinds, ModeFits
<1>3. /\ Noted(q) \in Asked
      /\ Noted(q).route = q.route /\ Noted(q).mode = q.mode /\ Noted(q).op = q.op
      /\ Noted(q).session = q.session
  BY <1>1, <1>2 DEF Noted, Asked
<1>4. ModeFits(Noted(q))  BY <1>2, <1>3 DEF ModeFits
<1> QED  BY <1>1, <1>3, <1>4 DEF WellAsked

(* Every call is counted in one of the buckets the limiter has.            *)
LEMMA BucketKnown ==
    ASSUME NEW q, q.session \in SessionIds
    PROVE  Bucket(q) \in Buckets
BY BucketsAssumption DEF Bucket, Kinds

(* A request moves on and nothing around it changes.                       *)
LEMMA BecomesTyped ==
    ASSUME AccessTypeOK, NEW r \in Requests, NEW place \in {"idle", "body", "working"},
           NEW q \in Asked \cup {Nothing}, NEW e, Becomes(r, place, q, e),
           e \in BOOLEAN, place # "idle" => WellAsked(q)
    PROVE  AccessTypeOK'
<1>1. /\ config' = config /\ people' = people /\ sessions' = sessions
      /\ at' = [at EXCEPT ![r] = place] /\ asked' = [asked EXCEPT ![r] = q]
      /\ entitled' = [entitled EXCEPT ![r] = e]
  BY DEF Becomes, around
<1>2. at' \in [Requests -> {"idle", "body", "working"}]  BY <1>1 DEF AccessTypeOK
<1>3. asked' \in [Requests -> Asked \cup {Nothing}]  BY <1>1 DEF AccessTypeOK
<1>4. entitled' \in [Requests -> BOOLEAN]
  BY <1>1, Zenon DEF AccessTypeOK
<1>5. \A s \in Requests : at'[s] # "idle" => WellAsked(asked'[s])
  <2>1. at'[r] = place /\ asked'[r] = q  BY <1>1 DEF AccessTypeOK
  <2>2. \A s \in Requests \ {r} : at'[s] = at[s] /\ asked'[s] = asked[s]
    BY <1>1 DEF AccessTypeOK
  <2> QED  BY <2>1, <2>2 DEF AccessTypeOK
<1> QED  BY <1>1, <1>2, <1>3, <1>4, <1>5 DEF AccessTypeOK

(* Everything is right of its own kind: a truth value.                     *)
LEMMA InOrderTruth == \A q : InOrder(q) \in BOOLEAN
BY DEF InOrder

(* The types of the API's side, step by step.                              *)
LEMMA ApiTyped == ASSUME AccessTypeOK, ApiNext PROVE AccessTypeOK'
<1>1. ASSUME NEW r \in Requests, Ends(r) PROVE AccessTypeOK'
  BY <1>1, BecomesTyped DEF Ends
<1>2. ASSUME NEW r \in Requests, NEW q \in Asks, Arrive(r, q) PROVE AccessTypeOK'
  <2>1. WellAsked(Noted(q)) /\ Noted(q) \in Asked
    BY <1>2, NotedAsked DEF Arrive, WellAsked
  <2>2. Becomes(r, "body", Noted(q), InOrder(Noted(q)))  BY <1>2 DEF Arrive
  <2> HIDE DEF WellAsked
  <2> QED  BY <2>1, <2>2, InOrderTruth, BecomesTyped
<1>3. ASSUME NEW r \in Requests, NEW q \in Asks, ArriveDirect(r, q) PROVE AccessTypeOK'
  <2>1. WellAsked(Noted(q)) /\ Noted(q) \in Asked
    BY <1>3, NotedAsked DEF ArriveDirect, WellAsked
  <2>2. Ends(r) \/ Becomes(r, "body", Noted(q), InOrder(Noted(q)))
    BY <1>3 DEF ArriveDirect
  <2> QED  BY <1>1, <2>1, <2>2, InOrderTruth, BecomesTyped
<1>4. ASSUME NEW r \in Requests, at[r] # "idle",
             Becomes(r, "working", asked[r], entitled[r])
      PROVE  AccessTypeOK'
  <2>1. WellAsked(asked[r]) /\ asked[r] \in Asked \cup {Nothing}
    BY <1>4 DEF AccessTypeOK
  <2>2. entitled[r] \in BOOLEAN  BY DEF AccessTypeOK
  <2> QED  BY <1>4, <2>1, <2>2, BecomesTyped
<1>5. ASSUME NEW r \in Requests, ReadBody(r) PROVE AccessTypeOK'
  BY <1>1, <1>4, <1>5 DEF ReadBody
<1>6. ASSUME NEW r \in Requests, ReadBodyDirect(r) PROVE AccessTypeOK'
  BY <1>4, <1>6 DEF ReadBodyDirect
<1>7. ASSUME NEW r \in Requests, Leave(r) PROVE AccessTypeOK'
  BY <1>1, <1>7 DEF Leave
<1> QED  BY <1>2, <1>3, <1>5, <1>6, <1>7 DEF ApiNext

(* Whatever others change, they leave the requests where they are.         *)
LEMMA OutsideTyped == ASSUME AccessTypeOK, Outside PROVE AccessTypeOK'
<1>1. ASSUME Changes PROVE /\ at' = at /\ asked' = asked
                           /\ entitled' \in [Requests -> BOOLEAN]
  <2>1. at' = at /\ asked' = asked  BY <1>1 DEF Changes
  <2>2. entitled' = [r \in Requests |->
           entitled[r] \/ (at[r] # "idle" /\ InOrder(asked[r])')]
    BY <1>1 DEF Changes
  <2>3. \A r \in Requests : (entitled[r] \/ (at[r] # "idle" /\ InOrder(asked[r])')) \in BOOLEAN
    OBVIOUS
  <2> QED  BY <2>1, <2>2, <2>3, Zenon
<1>2. CASE Reconfigure
  BY <1>1, <1>2 DEF Reconfigure, AccessTypeOK, WellAsked, ModeFits
<1>3. ASSUME NEW u \in Users, ChangeUser(u) PROVE AccessTypeOK'
  BY <1>1, <1>3 DEF ChangeUser, AccessTypeOK, WellAsked, ModeFits
<1>4. ASSUME NEW s \in SessionIds, RemoveSession(s) PROVE AccessTypeOK'
  BY <1>1, <1>4 DEF RemoveSession, AccessTypeOK, WellAsked, ModeFits
<1> QED  BY <1>2, <1>3, <1>4 DEF Outside
--------------------------------------------------------------------------------
(* Which limiter counts a form.                                            *)
LEMMA ViewKnown == \A f : View(f) \in {"token", "revoke"}
BY DEF View

(* An exchange moves on with a form it may have.                           *)
LEMMA GoesTyped ==
    ASSUME ProxyTypeOK, NEW x \in Exchanges, NEW from,
           NEW to \in Underway \cup {"answered", "denied"}, NEW f \in Form \cup {Nothing},
           Goes(x, from, to, f), to \in Underway => f \in Form
    PROVE  /\ stage' \in [Exchanges -> Underway \cup {"answered", "denied"}]
           /\ form' \in [Exchanges -> Form \cup {Nothing}]
           /\ \A y \in Exchanges : stage'[y] \in Underway => form'[y] \in Form
BY DEF Goes, ProxyTypeOK

(* One failure more, or none any longer, or fewer of them.                 *)
LEMMA FailuresTyped ==
    ASSUME RateTypeOK, ProxyTypeOK, NEW x \in Exchanges,
           Failed(x) \/ Succeeded(x) \/ UNCHANGED failures
    PROVE  failures' \in [{"token", "revoke"} -> Seq(Nat)]
<1> DEFINE v == View(form[x])
<1>1. v \in {"token", "revoke"}  BY ViewKnown
<1>2. failures[v] \in Seq(Nat) /\ clock \in Nat  BY <1>1 DEF ProxyTypeOK, RateTypeOK
<1>3. Append(failures[v], clock) \in Seq(Nat)  BY <1>2
<1> HIDE DEF v
<1>4. CASE Failed(x)
  <2>1. failures' = [failures EXCEPT ![v] = Append(failures[v], clock)]
    BY <1>4 DEF Failed, v
  <2> QED  BY <1>3, <2>1 DEF ProxyTypeOK
<1>5. CASE Succeeded(x)
  <2>1. failures' = [failures EXCEPT ![v] = <<>>]  BY <1>5 DEF Succeeded, v
  <2>2. <<>> \in Seq(Nat)  OBVIOUS
  <2> QED  BY <2>1, <2>2 DEF ProxyTypeOK
<1>6. CASE UNCHANGED failures  BY <1>6 DEF ProxyTypeOK
<1> QED  BY <1>4, <1>5, <1>6

(* What is left of the failures once the old ones have been dropped.       *)
LEMMA Remaining ==
    ASSUME NEW queue \in Seq(Nat), NEW n \in 0..Len(queue)
    PROVE  /\ SubSeq(queue, n + 1, Len(queue)) \in Seq(Nat)
           /\ Len(SubSeq(queue, n + 1, Len(queue))) = Len(queue) - n
           /\ \A i \in 1..(Len(queue) - n) :
                 SubSeq(queue, n + 1, Len(queue))[i] = queue[n + i]
<1>1. Len(queue) \in Nat /\ n \in Nat /\ n <= Len(queue)  OBVIOUS
<1>2. \A i \in (n + 1)..Len(queue) : i \in 1..Len(queue)  BY <1>1
<1>3. \A i \in (n + 1)..Len(queue) : queue[i] \in Nat  BY <1>2
<1>4. SubSeq(queue, n + 1, Len(queue)) \in Seq(Nat)
  BY <1>1, <1>2, <1>3
<1>5. Len(SubSeq(queue, n + 1, Len(queue))) = Len(queue) - n
  BY <1>1
<1>6. \A i \in 1..(Len(queue) - n) :
         SubSeq(queue, n + 1, Len(queue))[i] = queue[n + i]
  BY <1>1
<1> QED  BY <1>4, <1>5, <1>6

(* The sessions keep their types in what Home Assistant and the proxy do   *)
(* to them.                                                                *)
LEMMA SessionsTyped ==
    ASSUME AccessTypeOK, ProxyTypeOK, NEW x \in Exchanges, stage[x] \in Underway,
           \/ sessions' = sessions
           \/ Mints(x) \/ Revokes(x)
           \/ sessions' = Lasting(x) \/ sessions' = Without(minted[x])
    PROVE  /\ sessions' \in [DOMAIN sessions' -> Session]
           /\ DOMAIN sessions' \subseteq SessionIds
<1>1. form[x] \in Form  BY DEF ProxyTypeOK
<1>2. \A s \in DOMAIN sessions : sessions[s] \in Session /\ s \in SessionIds
  BY DEF AccessTypeOK
<1>3. config \in Config  BY AccessAssumption DEF AccessTypeOK
<1>4. CASE sessions' = sessions  BY <1>4 DEF AccessTypeOK
<1>5. CASE Mints(x)
  <2>1. PICK s \in SessionIds \ born :
           sessions' = [t \in DOMAIN sessions \cup {s} |->
                          IF t = s THEN [user |-> form[x].user, client |-> config.client,
                                         lasting |-> FALSE]
                          ELSE sessions[t]]
    BY <1>5 DEF Mints
  <2>2. [user |-> form[x].user, client |-> config.client, lasting |-> FALSE] \in Session
    BY <1>1, <1>3 DEF Form, Config, Session
  <2>3. DOMAIN sessions' = DOMAIN sessions \cup {s}  BY <2>1
  <2>4. \A t \in DOMAIN sessions' : sessions'[t] \in Session
    BY <1>2, <2>1, <2>2, <2>3
  <2> QED  BY <1>2, <2>1, <2>3, <2>4
<1>6. ASSUME NEW gone, sessions' = Without(gone)
      PROVE  /\ sessions' \in [DOMAIN sessions' -> Session]
             /\ DOMAIN sessions' \subseteq SessionIds
  BY <1>2, <1>6 DEF Without
<1>7. CASE Revokes(x)  BY <1>6, <1>7 DEF Revokes
<1>8. CASE sessions' = Lasting(x)
  <2>1. \A s \in DOMAIN sessions : [sessions[s] EXCEPT !.lasting = TRUE] \in Session
    BY <1>2 DEF Session
  <2>2. DOMAIN sessions' = DOMAIN sessions  BY <1>8 DEF Lasting
  <2>3. \A s \in DOMAIN sessions' : sessions'[s] \in Session
    BY <1>2, <1>8, <2>1 DEF Lasting
  <2> QED  BY <1>2, <1>8, <2>2, <2>3 DEF Lasting
<1> QED  BY <1>4, <1>5, <1>6, <1>7, <1>8

(* The types of the proxy's side, step by step.                            *)
LEMMA ProxyTyped ==
    ASSUME TypeOK, ProxyNext
    PROVE  AccessTypeOK' /\ ProxyTypeOK'
<1> USE DEF TypeOK
<1>1. ASSUME NEW x \in Exchanges, stage[x] \in Underway,
             config' = config, people' = people, UNCHANGED request,
             \/ sessions' = sessions
             \/ Mints(x) \/ Revokes(x)
             \/ sessions' = Lasting(x) \/ sessions' = Without(minted[x])
      PROVE  AccessTypeOK'
  BY <1>1, SessionsTyped DEF AccessTypeOK, request, WellAsked, ModeFits
<1>2. ASSUME UNCHANGED around, UNCHANGED request
      PROVE  AccessTypeOK'
  BY <1>2 DEF AccessTypeOK, request, around, WellAsked, ModeFits
<1>3. ASSUME NEW x \in Exchanges, NEW from,
             NEW to \in Underway \cup {"answered", "denied"}, NEW f \in Form \cup {Nothing},
             Goes(x, from, to, f), to \in Underway => f \in Form,
             Failed(x) \/ Succeeded(x) \/ UNCHANGED failures,
             minted' \in [Exchanges -> SUBSET SessionIds],
             born' \subseteq SessionIds, granted' \subseteq SessionIds
      PROVE  ProxyTypeOK'
  BY <1>3, GoesTyped, FailuresTyped DEF ProxyTypeOK
<1>4. ASSUME NEW x \in Exchanges
      PROVE  /\ [minted EXCEPT ![x] = {}] \in [Exchanges -> SUBSET SessionIds]
             /\ minted \in [Exchanges -> SUBSET SessionIds]
             /\ born \subseteq SessionIds /\ granted \subseteq SessionIds
             /\ granted \cup minted[x] \subseteq SessionIds
             /\ stage[x] \in Underway => form[x] \in Form
             /\ form[x] \in Form \cup {Nothing}
  BY DEF ProxyTypeOK
<1>5. ASSUME NEW x \in Exchanges, NEW f \in Forms, Submit(x, f)
      PROVE  AccessTypeOK' /\ ProxyTypeOK'
  <2> DEFINE v == View(f)
             queue == failures[v]
  <2>1. AccessTypeOK'  BY <1>2, <1>5 DEF Submit
  <2>2. v \in {"token", "revoke"} /\ queue \in Seq(Nat) /\ f \in Form
    BY ViewKnown, FormsAssumption DEF ProxyTypeOK
  <2>3. PICK n \in 0..Len(queue) :
           /\ Answers(x, stage[x]) \/ Goes(x, stage[x], "form", f)
           /\ failures' = [failures EXCEPT ![v] = SubSeq(queue, n + 1, Len(queue))]
    BY <1>5 DEF Submit
  <2>4. SubSeq(queue, n + 1, Len(queue)) \in Seq(Nat)  BY <2>2, Remaining
  <2> HIDE DEF v, queue
  <2>5. failures' \in [{"token", "revoke"} -> Seq(Nat)]
    BY <2>2, <2>3, <2>4 DEF ProxyTypeOK
  <2>6. /\ stage' \in [Exchanges -> Underway \cup {"answered", "denied"}]
        /\ form' \in [Exchanges -> Form \cup {Nothing}]
        /\ \A y \in Exchanges : stage'[y] \in Underway => form'[y] \in Form
    <3>1. CASE Answers(x, stage[x])
      BY <3>1, GoesTyped DEF Answers, Underway
    <3>2. CASE Goes(x, stage[x], "form", f)
      BY <2>2, <3>2, GoesTyped DEF Underway
    <3> QED  BY <2>3, <3>1, <3>2
  <2>7. minted' = [minted EXCEPT ![x] = {}] /\ born' = born /\ granted' = granted
    BY <1>5 DEF Submit
  <2> QED  BY <1>4, <2>1, <2>5, <2>6, <2>7 DEF ProxyTypeOK
<1>6. ASSUME NEW x \in Exchanges, ReadForm(x) PROVE AccessTypeOK' /\ ProxyTypeOK'
  <2>1. AccessTypeOK'  BY <1>2, <1>6 DEF ReadForm
  <2>2. CASE Continues(x, "form", "sent") /\ UNCHANGED failures
    <3>1. Goes(x, "form", "sent", form[x]) /\ form[x] \in Form
      BY <1>4, <2>2 DEF Continues, Goes, Underway
    <3> QED  BY <1>3, <1>4, <1>6, <2>1, <2>2, <3>1 DEF ReadForm, Underway
  <2>3. CASE Answers(x, "form") /\ Failed(x)
    BY <1>3, <1>4, <1>6, <2>1, <2>3 DEF ReadForm, Answers, Underway
  <2> QED  BY <1>6, <2>2, <2>3 DEF ReadForm
<1>7. ASSUME NEW x \in Exchanges, FormBreaks(x) PROVE AccessTypeOK' /\ ProxyTypeOK'
  <2>1. AccessTypeOK'  BY <1>2, <1>7 DEF FormBreaks
  <2> QED  BY <1>3, <1>4, <1>7, <2>1 DEF FormBreaks, Answers, Underway
<1>8. ASSUME NEW x \in Exchanges, HomeAssistantGrants(x)
      PROVE  AccessTypeOK' /\ ProxyTypeOK'
  <2>1. Goes(x, "sent", "acted", form[x]) /\ form[x] \in Form /\ stage[x] \in Underway
    BY <1>4, <1>8 DEF HomeAssistantGrants, Continues, Goes, Underway
  <2>2. AccessTypeOK'
    BY <1>1, <1>8, <2>1 DEF HomeAssistantGrants, Refreshes
  <2>3. minted' \in [Exchanges -> SUBSET SessionIds] /\ born' \subseteq SessionIds
    <3>1. CASE Mints(x)  BY <1>4, <3>1 DEF Mints
    <3>2. CASE Refreshes(x) \/ Revokes(x)
      BY <1>4, <3>2 DEF Refreshes, Revokes
    <3> QED  BY <1>8, <3>1, <3>2 DEF HomeAssistantGrants
  <2> QED  BY <1>3, <1>4, <1>8, <2>1, <2>2, <2>3 DEF HomeAssistantGrants, Underway
<1>9. ASSUME NEW x \in Exchanges, HomeAssistantRefuses(x)
      PROVE  AccessTypeOK' /\ ProxyTypeOK'
  <2>1. AccessTypeOK'  BY <1>2, <1>9 DEF HomeAssistantRefuses
  <2> QED  BY <1>3, <1>4, <1>9, <2>1 DEF HomeAssistantRefuses, Answers, Underway
<1>10. ASSUME NEW x \in Exchanges, AnswerGranted(x)
       PROVE  AccessTypeOK' /\ ProxyTypeOK'
  <2>1. AccessTypeOK'
    BY <1>1, <1>10 DEF AnswerGranted, Answers, Goes, Underway
  <2> QED  BY <1>3, <1>4, <1>10, <2>1 DEF AnswerGranted, Answers, Underway
<1>11. ASSUME NEW x \in Exchanges, AnswerDenied(x)
       PROVE  AccessTypeOK' /\ ProxyTypeOK'
  <2>1. AccessTypeOK'
    BY <1>1, <1>11 DEF AnswerDenied, Goes, Underway
  <2> QED  BY <1>3, <1>4, <1>11, <2>1 DEF AnswerDenied, Underway
<1>12. ASSUME NEW x \in Exchanges, AnswerLost(x) PROVE AccessTypeOK' /\ ProxyTypeOK'
  <2>1. AccessTypeOK'  BY <1>2, <1>12 DEF AnswerLost
  <2> QED  BY <1>3, <1>4, <1>12, <2>1 DEF AnswerLost, Answers, Underway
<1> QED
  BY <1>5, <1>6, <1>7, <1>8, <1>9, <1>10, <1>11, <1>12 DEF ProxyNext

(* The rate limit of the API works as it does by itself, whatever the      *)
(* requests, the environment and the proxy do.                             *)
LEMMA RateStep == ASSUME TypeOK, [Next]_vars PROVE [RateNext]_rateVars
<1>1. ASSUME NEW q, Admit(Bucket(q)) \/ Refuse(Bucket(q)), q.session \in SessionIds
      PROVE  RateNext
  BY <1>1, BucketKnown DEF RateNext
<1>2. CASE ApiNext
  <2>1. ASSUME NEW r \in Requests, NEW q \in Asks, ArriveDirect(r, q)
        PROVE  RateNext
    <3>1. q.session \in SessionIds  BY DEF Asks
    <3> QED  BY <1>1, <2>1, <3>1 DEF ArriveDirect
  <2>2. ASSUME NEW r \in Requests, ReadBody(r)
        PROVE  RateNext
    <3>1. asked[r].session \in SessionIds
      BY <2>2 DEF ReadBody, TypeOK, AccessTypeOK, WellAsked, Asked
    <3> QED  BY <1>1, <2>2, <3>1 DEF ReadBody
  <2> QED  BY <1>2, <2>1, <2>2 DEF ApiNext, Arrive, ReadBodyDirect, Leave
<1>3. CASE Outside
  BY <1>3 DEF Outside, Reconfigure, ChangeUser, RemoveSession, Changes
<1>4. CASE PassTime  BY <1>4 DEF PassTime, RateNext
<1>5. CASE ProxyNext
  BY <1>5 DEF ProxyNext, Submit, ReadForm, FormBreaks, HomeAssistantGrants,
              HomeAssistantRefuses, AnswerGranted, AnswerDenied, AnswerLost
<1>6. CASE UNCHANGED vars  BY <1>6 DEF vars
<1> QED  BY <1>2, <1>3, <1>4, <1>5, <1>6 DEF Next

(* All types, in every state: each of the five parts of the model leaves   *)
(* the variables of the others as they should be.                          *)
LEMMA TypeStep == ASSUME TypeOK, [Next]_vars PROVE AccessTypeOK' /\ ProxyTypeOK'
<1>1. UNCHANGED proxy => ProxyTypeOK'
  BY DEF TypeOK, ProxyTypeOK, proxy, exchange
<1>2. CASE ApiNext /\ UNCHANGED proxy  BY <1>1, <1>2, ApiTyped DEF TypeOK
<1>3. CASE Outside /\ UNCHANGED proxy  BY <1>1, <1>3, OutsideTyped DEF TypeOK
<1>4. CASE (PassTime /\ UNCHANGED proxy) \/ UNCHANGED vars
  <2>1. UNCHANGED request /\ UNCHANGED around /\ UNCHANGED proxy
    BY <1>4 DEF PassTime, vars
  <2> QED
    BY <1>1, <2>1 DEF TypeOK, AccessTypeOK, request, around, WellAsked, ModeFits
<1>5. CASE ProxyNext  BY <1>5, ProxyTyped
<1> QED  BY <1>2, <1>3, <1>4, <1>5 DEF Next

(* The first state.                                                        *)
LEMMA InitTyped == Init => RateInit /\ AccessTypeOK /\ ProxyTypeOK
<1> SUFFICES ASSUME Init PROVE RateInit /\ AccessTypeOK /\ ProxyTypeOK
  OBVIOUS
<1>1. RateInit  BY DEF Init, AccessInit
<1>2. AccessTypeOK
  <2>1. sessions \in [DOMAIN sessions -> Session] /\ DOMAIN sessions \subseteq SessionIds
    BY AccessAssumption DEF Init, AccessInit
  <2>2. entitled \in [Requests -> BOOLEAN]  BY DEF Init, AccessInit
  <2> QED  BY <2>1, <2>2 DEF Init, AccessInit, AccessTypeOK
<1>3. ProxyTypeOK
  <2>1. <<>> \in Seq(Nat)  OBVIOUS
  <2> QED  BY <1>2, <2>1 DEF Init, ProxyTypeOK, AccessTypeOK, Underway
<1> QED  BY <1>1, <1>2, <1>3

(* All variables keep their types.                                         *)
THEOREM TypeCorrect == Spec => []TypeOK
<1> DEFINE J == RateIInv /\ AccessTypeOK /\ ProxyTypeOK
<1>1. J => TypeOK  BY DEF TypeOK, RateIInv
<1>2. Init => J  BY InitTyped, RateInitInvariant
<1>3. J /\ [Next]_vars => J'
  BY <1>1, RateStep, TypeStep, RateStepInvariant
<1> HIDE DEF J
<1> QED  BY <1>1, <1>2, <1>3, PTL DEF Spec

(* The API and the proxy implement the rate limit: all that is proved of   *)
(* it by itself is true where requests wait, users change and sessions     *)
(* come and go.                                                            *)
THEOREM LimitsTheApi == Spec => RateSpec
<1>1. Init => RateInit  BY InitTyped
<1>2. TypeOK /\ [Next]_vars => [RateNext]_rateVars  BY RateStep
<1> QED  BY <1>1, <1>2, TypeCorrect, PTL DEF Spec, RateSpec
--------------------------------------------------------------------------------
(* What the proxy and Home Assistant do to sessions: a new one was never   *)
(* there before, and one that was there keeps its client.                  *)
LEMMA ProxySessions ==
    ASSUME TypeOK, Lineage, ProxyNext
    PROVE  /\ UNCHANGED <<config, people, request>>
           /\ born \subseteq born'
           /\ \A s \in DOMAIN sessions' :
                 \/ s \in DOMAIN sessions /\ sessions'[s].client = sessions[s].client
                 \/ s \in born' \ born
           /\ \A y \in Exchanges : minted'[y] \subseteq minted[y] \cup (born' \ born)
<1> USE DEF TypeOK
<1> DEFINE Keeps == \A s \in DOMAIN sessions' :
                       s \in DOMAIN sessions /\ sessions'[s].client = sessions[s].client
           Fewer == \A y \in Exchanges : minted'[y] \subseteq minted[y]
<1>1. ASSUME UNCHANGED <<request, around>> PROVE Keeps /\ UNCHANGED <<config, people, request>>
  BY <1>1 DEF around, request
<1>2. ASSUME NEW x, minted' = [minted EXCEPT ![x] = {}] \/ UNCHANGED minted PROVE Fewer
  BY <1>2 DEF ProxyTypeOK
<1>3. ASSUME NEW gone, sessions' = Without(gone) PROVE Keeps
  BY <1>3 DEF Without
<1>4. ASSUME NEW x \in Exchanges, HomeAssistantGrants(x), ~Mints(x)
      PROVE  Keeps /\ UNCHANGED <<config, people, request, born>> /\ Fewer
  BY <1>2, <1>3, <1>4 DEF HomeAssistantGrants, Refreshes, Revokes
<1>5. ASSUME NEW x \in Exchanges, HomeAssistantGrants(x), Mints(x)
      PROVE  /\ UNCHANGED <<config, people, request>> /\ born \subseteq born'
             /\ \A s \in DOMAIN sessions' :
                   \/ s \in DOMAIN sessions /\ sessions'[s].client = sessions[s].client
                   \/ s \in born' \ born
             /\ \A y \in Exchanges : minted'[y] \subseteq minted[y] \cup (born' \ born)
  <2>1. PICK s \in SessionIds \ born :
           /\ DOMAIN sessions' = DOMAIN sessions \cup {s}
           /\ \A t \in DOMAIN sessions : t # s => sessions'[t] = sessions[t]
           /\ minted' = [minted EXCEPT ![x] = {s}]
           /\ born' = born \cup {s}
    BY <1>5 DEF Mints
  <2>2. \A y \in Exchanges : minted'[y] \subseteq minted[y] \cup {s}
    BY <2>1 DEF ProxyTypeOK
  <2> QED  BY <1>5, <2>1, <2>2 DEF HomeAssistantGrants
<1>6. ASSUME NEW x \in Exchanges, AnswerGranted(x)
      PROVE  Keeps /\ UNCHANGED <<config, people, request, born>> /\ Fewer
  <2>1. DOMAIN sessions' = DOMAIN sessions  BY <1>6 DEF AnswerGranted, Lasting
  <2>2. \A s \in DOMAIN sessions : sessions'[s].client = sessions[s].client
    BY <1>6 DEF AnswerGranted, Lasting, AccessTypeOK, Session
  <2> QED  BY <1>2, <1>6, <2>1, <2>2 DEF AnswerGranted
<1>7. ASSUME NEW x \in Exchanges, AnswerDenied(x)
      PROVE  Keeps /\ UNCHANGED <<config, people, request, born>> /\ Fewer
  BY <1>2, <1>3, <1>7 DEF AnswerDenied
<1>8. ASSUME NEW x \in Exchanges, NEW f,
             \/ Submit(x, f) \/ ReadForm(x) \/ FormBreaks(x)
             \/ HomeAssistantRefuses(x) \/ AnswerLost(x)
      PROVE  Keeps /\ UNCHANGED <<config, people, request, born>> /\ Fewer
  BY <1>1, <1>2, <1>8 DEF Submit, ReadForm, FormBreaks, HomeAssistantRefuses, AnswerLost
<1> QED
  BY <1>4, <1>5, <1>6, <1>7, <1>8 DEF ProxyNext

(* A session's name is never used again.                                   *)
LEMMA LineageStep == ASSUME TypeOK, Lineage, [Next]_vars PROVE Lineage'
<1> USE DEF TypeOK
<1>1. CASE ProxyNext
  <2>1. UNCHANGED <<at, asked>>  BY <1>1, ProxySessions DEF request
  <2> QED  BY <1>1, <2>1, ProxySessions DEF Lineage
<1>2. CASE ApiNext /\ UNCHANGED proxy
  <2>1. ASSUME NEW r \in Requests, NEW place, NEW q, NEW e, Becomes(r, place, q, e),
               place # "idle" => q.session \in born
        PROVE  Lineage'
    BY <1>2, <2>1 DEF Lineage, Becomes, proxy, exchange, around, AccessTypeOK
  <2>2. ASSUME NEW r \in Requests, NEW q \in Asks, Arrive(r, q) \/ ArriveDirect(r, q)
        PROVE  Lineage'
    <3>1. Noted(q).session \in born
      BY <2>2, NotedAsked DEF Arrive, ArriveDirect, Lineage
    <3> QED  BY <2>1, <2>2, <3>1 DEF Arrive, ArriveDirect, Ends
  <2>3. ASSUME NEW r \in Requests, ReadBody(r) \/ ReadBodyDirect(r) \/ Leave(r)
        PROVE  Lineage'
    <3>1. at[r] # "idle" => asked[r].session \in born  BY DEF Lineage
    <3> QED  BY <2>1, <2>3, <3>1 DEF ReadBody, ReadBodyDirect, Leave, Ends
  <2> QED  BY <1>2, <2>2, <2>3 DEF ApiNext
<1>3. CASE (Outside \/ PassTime) /\ UNCHANGED proxy
  <2>1. /\ UNCHANGED <<at, asked, born, minted>>
        /\ DOMAIN sessions' \subseteq DOMAIN sessions
    BY <1>3 DEF Outside, PassTime, Reconfigure, ChangeUser, RemoveSession, Changes,
                request, around, proxy, exchange
  <2> QED  BY <2>1 DEF Lineage
<1>4. CASE UNCHANGED vars
  BY <1>4 DEF vars, request, around, proxy, exchange, Lineage
<1> QED  BY <1>1, <1>2, <1>3, <1>4 DEF Next

(* What the checks after the body come to, for a public view: everything   *)
(* is in order at the moment they are made.                                *)
LEMMA PublicChecks ==
    ASSUME NEW q, WellAsked(q), q.route # "direct", Passes(q), Bound(q), Resolves(q)
    PROVE  InOrder(q)
<1>1. q.op.mode \in Kinds /\ ModeFits(q) /\ q.route \in {"dispatch", "apply"}
  BY AccessAssumption DEF WellAsked, Asked, Routes
<1>2. Mutating(q) = (q.op.mode # "read")
  BY <1>1 DEF Mutating, ModeFits, Resolves, Catalogued, Kinds
<1>3. Permits(config, q.op.cap, Mutating(q))  BY DEF Resolves
<1> QED  BY <1>2, <1>3 DEF Passes, InOrder

(* And for a view of its own, which makes them all before the body.        *)
LEMMA DirectChecks ==
    ASSUME NEW q, q.route = "direct", Passes(q), Bound(q)
    PROVE  InOrder(q)
BY DEF Passes, Bound, InOrder, Capability, Mutating

(* A request moves on, and everything that decides about the others stays. *)
LEMMA BecomesNoticed ==
    ASSUME TypeOK, Noticed, EntitledOnce,
           NEW r \in Requests, NEW place, NEW q, NEW e, Becomes(r, place, q, e),
           place = "working" => e,
           place = "body" => IF q.route = "direct" THEN e ELSE InOrder(q) => e
    PROVE  Noticed' /\ EntitledOnce'
<1>1. /\ config' = config /\ people' = people /\ sessions' = sessions
      /\ at' = [at EXCEPT ![r] = place] /\ asked' = [asked EXCEPT ![r] = q]
      /\ entitled' = [entitled EXCEPT ![r] = e]
  BY DEF Becomes, around
<1>2. at'[r] = place /\ asked'[r] = q /\ entitled'[r] = e
  BY <1>1 DEF TypeOK, AccessTypeOK
<1>3. \A s \in Requests \ {r} :
         at'[s] = at[s] /\ asked'[s] = asked[s] /\ entitled'[s] = entitled[s]
  BY <1>1 DEF TypeOK, AccessTypeOK
<1>4. \A s \in Requests : InOrder(asked[s])' <=>
         /\ (config.enabled /\ Welcome(asked'[s].user))
         /\ Permits(config, Capability(asked'[s]), asked'[s].op.mode # "read")
         /\ Permits(config, asked'[s].op.cap, asked'[s].op.mode # "read")
         /\ Bound(asked'[s])
  BY <1>1 DEF InOrder, Known, Welcome, Permits, Capability, Bound
<1>5. \A s \in Requests : InOrder(asked[s])' <=> InOrder(asked'[s])
  BY <1>4 DEF InOrder, Known
<1>6. EntitledOnce'
  <2>1. at'[r] = "working" => entitled'[r]  BY <1>2
  <2>2. \A s \in Requests \ {r} : at'[s] = "working" => entitled'[s]
    BY <1>3 DEF EntitledOnce
  <2> QED  BY <2>1, <2>2 DEF EntitledOnce
<1>7. Noticed'
  <2>1. ASSUME NEW s \in Requests, at'[s] = "body", asked'[s].route = "direct"
        PROVE  entitled'[s]
    BY <1>2, <1>3, <2>1 DEF Noticed
  <2>2. ASSUME NEW s \in Requests, at'[s] = "body", asked'[s].route # "direct",
               InOrder(asked[s])'
        PROVE  entitled'[s]
    <3>1. InOrder(asked'[s])  BY <1>5, <2>2
    <3> QED  BY <1>2, <1>3, <2>2, <3>1 DEF Noticed
  <2> QED  BY <2>1, <2>2 DEF Noticed
<1> QED  BY <1>6, <1>7

(* A request reaches its operation only after it was wholly in order.      *)
LEMMA NoticedStep ==
    ASSUME TypeOK, Lineage, Noticed, EntitledOnce, [Next]_vars
    PROVE  Noticed' /\ EntitledOnce'
<1> USE DEF TypeOK
<1>1. CASE ApiNext
  <2>1. ASSUME NEW r \in Requests, Ends(r) PROVE Noticed' /\ EntitledOnce'
    BY <2>1, BecomesNoticed DEF Ends
  <2>2. ASSUME NEW r \in Requests, NEW q \in Asks, Arrive(r, q)
        PROVE  Noticed' /\ EntitledOnce'
    <3>1. Becomes(r, "body", Noted(q), InOrder(Noted(q))) /\ Noted(q).route # "direct"
      BY <2>2 DEF Arrive, Noted
    <3> QED  BY <3>1, BecomesNoticed
  <2>3. ASSUME NEW r \in Requests, NEW q \in Asks, ArriveDirect(r, q)
        PROVE  Noticed' /\ EntitledOnce'
    <3>1. CASE Bound(q) /\ Becomes(r, "body", Noted(q), InOrder(Noted(q)))
      <4>1. Noted(q).route = "direct" /\ Passes(Noted(q)) /\ Bound(Noted(q))
        BY <2>3, <3>1 DEF ArriveDirect, Noted, Bound
      <4>2. InOrder(Noted(q))  BY <4>1, DirectChecks
      <4> QED  BY <3>1, <4>1, <4>2, BecomesNoticed
    <3> QED  BY <2>1, <2>3, <3>1 DEF ArriveDirect
  <2>4. ASSUME NEW r \in Requests, ReadBody(r) PROVE Noticed' /\ EntitledOnce'
    <3>1. CASE Bound(asked[r]) /\ Resolves(asked[r])
                 /\ Becomes(r, "working", asked[r], entitled[r])
      <4>1. WellAsked(asked[r]) /\ asked[r].route # "direct" /\ Passes(asked[r])
        BY <2>4 DEF ReadBody, AccessTypeOK
      <4>2. InOrder(asked[r])  BY <3>1, <4>1, PublicChecks
      <4>3. entitled[r]  BY <2>4, <4>1, <4>2 DEF Noticed, ReadBody
      <4> QED  BY <3>1, <4>3, BecomesNoticed
    <3> QED  BY <2>1, <2>4, <3>1 DEF ReadBody
  <2>5. ASSUME NEW r \in Requests, ReadBodyDirect(r) PROVE Noticed' /\ EntitledOnce'
    <3>1. Becomes(r, "working", asked[r], entitled[r])  BY <2>5 DEF ReadBodyDirect
    <3>2. entitled[r]  BY <2>5 DEF ReadBodyDirect, Noticed
    <3> QED  BY <3>1, <3>2, BecomesNoticed
  <2> QED  BY <1>1, <2>1, <2>2, <2>3, <2>4, <2>5 DEF ApiNext, Leave
<1>2. CASE Outside
  <2>1. /\ at' = at /\ asked' = asked
        /\ entitled' = [r \in Requests |->
              entitled[r] \/ (at[r] # "idle" /\ InOrder(asked[r])')]
    BY <1>2 DEF Outside, Reconfigure, ChangeUser, RemoveSession, Changes
  <2>2. \A r \in Requests : entitled[r] => entitled'[r]
    BY <2>1
  <2>3. \A r \in Requests : at[r] # "idle" /\ InOrder(asked[r])' => entitled'[r]
    BY <2>1
  <2>4. EntitledOnce'  BY <2>1, <2>2 DEF EntitledOnce
  <2>5. Noticed'  BY <2>1, <2>2, <2>3 DEF Noticed
  <2> QED  BY <2>4, <2>5
<1>3. CASE PassTime \/ ProxyNext \/ UNCHANGED vars
  <2>1. /\ UNCHANGED <<config, people, request>>
        /\ \A s \in DOMAIN sessions' \cap born :
              s \in DOMAIN sessions /\ sessions'[s].client = sessions[s].client
    <3>1. CASE ProxyNext  BY <3>1, ProxySessions
    <3>2. CASE PassTime \/ UNCHANGED vars
      BY <3>2 DEF PassTime, vars, around, request
    <3> QED  BY <1>3, <3>1, <3>2
  <2>2. UNCHANGED <<at, asked, entitled>>  BY <2>1 DEF request
  <2>3. ASSUME NEW r \in Requests, at[r] # "idle", InOrder(asked[r])'
        PROVE  InOrder(asked[r])
    <3>1. asked[r].session \in born  BY <2>3 DEF Lineage
    <3>2. Bound(asked[r])' => Bound(asked[r])
      BY <2>1, <2>2, <3>1 DEF Bound
    <3>3. /\ Known(asked[r])' = Known(asked[r])
          /\ Permits(config, Capability(asked[r]), asked[r].op.mode # "read")' =
                Permits(config, Capability(asked[r]), asked[r].op.mode # "read")
          /\ Permits(config, asked[r].op.cap, asked[r].op.mode # "read")' =
                Permits(config, asked[r].op.cap, asked[r].op.mode # "read")
      BY <2>1, <2>2 DEF Known, Welcome, Permits, Capability
    <3> QED  BY <2>3, <3>2, <3>3 DEF InOrder
  <2>4. Noticed'  BY <2>2, <2>3 DEF Noticed
  <2>5. EntitledOnce'  BY <2>2 DEF EntitledOnce
  <2> QED  BY <2>4, <2>5
<1> QED  BY <1>1, <1>2, <1>3 DEF Next

(* Nobody is under way in the first state.                                 *)
LEMMA InitEntitled == Init => EntitledInv /\ GrantsInv
<1> SUFFICES ASSUME Init PROVE EntitledInv /\ GrantsInv
  OBVIOUS
<1>1. /\ \A r \in Requests : at[r] = "idle"
      /\ \A x \in Exchanges : stage[x] = "answered" /\ minted[x] = {}
      /\ born = DOMAIN sessions /\ granted = DOMAIN sessions
  BY DEF Init, AccessInit
<1> QED
  BY <1>1 DEF EntitledInv, GrantsInv, Lineage, Noticed, EntitledOnce, GrantsAccounted

(* No request runs on a patchwork of checks made at different times.       *)
THEOREM EntitledOnceHolds == Spec => []EntitledOnce
<1>1. Init => EntitledInv  BY InitEntitled
<1>2. TypeOK /\ EntitledInv /\ [Next]_vars => EntitledInv'
  BY LineageStep, NoticedStep DEF EntitledInv
<1>3. EntitledInv => EntitledOnce  BY DEF EntitledInv
<1> QED  BY <1>1, <1>2, <1>3, TypeCorrect, PTL DEF Spec
--------------------------------------------------------------------------------
(* What is granted stays granted, and what a step of the proxy makes       *)
(* lasting is granted by it.                                               *)
LEMMA LastingStep ==
    ASSUME TypeOK, ProxyNext, GrantsAccounted
    PROVE  \A s \in DOMAIN sessions' : sessions'[s].lasting => s \in granted'
<1>1. \A s \in DOMAIN sessions : sessions[s].lasting => s \in granted
  BY DEF GrantsAccounted
<1>2. ASSUME UNCHANGED sessions \/ \E gone : sessions' = Without(gone),
             granted' = granted
      PROVE  \A s \in DOMAIN sessions' : sessions'[s].lasting => s \in granted'
  BY <1>1, <1>2 DEF Without
<1>3. ASSUME NEW x \in Exchanges, HomeAssistantGrants(x), Mints(x)
      PROVE  \A s \in DOMAIN sessions' : sessions'[s].lasting => s \in granted'
  BY <1>1, <1>3 DEF HomeAssistantGrants, Mints
<1>4. ASSUME NEW x \in Exchanges, AnswerGranted(x)
      PROVE  \A s \in DOMAIN sessions' : sessions'[s].lasting => s \in granted'
  BY <1>1, <1>4 DEF AnswerGranted, Lasting
<1>5. ASSUME NEW x \in Exchanges, HomeAssistantGrants(x), ~Mints(x)
      PROVE  \A s \in DOMAIN sessions' : sessions'[s].lasting => s \in granted'
  BY <1>2, <1>5 DEF HomeAssistantGrants, Refreshes, Revokes
<1>6. ASSUME NEW x \in Exchanges, NEW f,
             \/ Submit(x, f) \/ ReadForm(x) \/ FormBreaks(x)
             \/ HomeAssistantRefuses(x) \/ AnswerLost(x) \/ AnswerDenied(x)
      PROVE  \A s \in DOMAIN sessions' : sessions'[s].lasting => s \in granted'
  BY <1>2, <1>6 DEF Submit, ReadForm, FormBreaks, HomeAssistantRefuses, AnswerLost,
                    AnswerDenied, around
<1> QED  BY <1>3, <1>4, <1>5, <1>6 DEF ProxyNext

(* An exchange that was denied stays without its session: nobody makes it  *)
(* again.                                                                  *)
LEMMA DeniedStep ==
    ASSUME TypeOK, Lineage, GrantsAccounted, ProxyNext
    PROVE  \A x \in Exchanges : stage'[x] = "denied" =>
              minted'[x] \cap DOMAIN sessions' = {}
<1> USE DEF TypeOK
<1>1. PICK y \in Exchanges :
         \/ \E f \in Forms : Submit(y, f)
         \/ ReadForm(y) \/ FormBreaks(y)
         \/ HomeAssistantGrants(y) \/ HomeAssistantRefuses(y)
         \/ AnswerGranted(y) \/ AnswerDenied(y) \/ AnswerLost(y)
  BY DEF ProxyNext
<1>2. /\ \A x \in Exchanges \ {y} : stage'[x] = stage[x] /\ minted'[x] = minted[x]
      /\ stage'[y] = "denied" => AnswerDenied(y)
  <2>1. ASSUME NEW from, NEW to, NEW f, Goes(y, from, to, f)
        PROVE  stage'[y] = to /\ \A x \in Exchanges \ {y} : stage'[x] = stage[x]
    BY <2>1 DEF Goes, ProxyTypeOK
  <2>2. ASSUME \/ UNCHANGED minted \/ minted' = [minted EXCEPT ![y] = {}]
               \/ \E s : minted' = [minted EXCEPT ![y] = {s}]
        PROVE  \A x \in Exchanges \ {y} : minted'[x] = minted[x]
    BY <2>2 DEF ProxyTypeOK
  <2>3. ASSUME NEW f \in Forms, Submit(y, f)
        PROVE  /\ stage'[y] # "denied"
               /\ \A x \in Exchanges \ {y} : stage'[x] = stage[x] /\ minted'[x] = minted[x]
    BY <2>1, <2>2, <2>3 DEF Submit, Answers
  <2>4. ASSUME HomeAssistantGrants(y)
        PROVE  /\ stage'[y] # "denied"
               /\ \A x \in Exchanges \ {y} : stage'[x] = stage[x] /\ minted'[x] = minted[x]
    <3>1. UNCHANGED minted \/ \E s : minted' = [minted EXCEPT ![y] = {s}]
      BY <2>4 DEF HomeAssistantGrants, Mints, Refreshes, Revokes
    <3> QED  BY <2>1, <2>2, <2>4, <3>1 DEF HomeAssistantGrants, Continues
  <2>5. ASSUME ReadForm(y) \/ FormBreaks(y) \/ HomeAssistantRefuses(y)
                 \/ AnswerGranted(y) \/ AnswerLost(y)
        PROVE  /\ stage'[y] # "denied"
               /\ \A x \in Exchanges \ {y} : stage'[x] = stage[x] /\ minted'[x] = minted[x]
    BY <2>1, <2>2, <2>5 DEF ReadForm, FormBreaks, HomeAssistantRefuses, AnswerGranted,
                            AnswerLost, Continues, Answers
  <2>6. ASSUME AnswerDenied(y)
        PROVE  \A x \in Exchanges \ {y} : stage'[x] = stage[x] /\ minted'[x] = minted[x]
    BY <2>1, <2>2, <2>6 DEF AnswerDenied
  <2> QED  BY <1>1, <2>3, <2>4, <2>5, <2>6
<1>3. ASSUME NEW x \in Exchanges \ {y}, stage'[x] = "denied"
      PROVE  minted'[x] \cap DOMAIN sessions' = {}
  <2>1. minted'[x] = minted[x] /\ minted[x] \cap DOMAIN sessions = {}
    BY <1>2, <1>3 DEF GrantsAccounted
  <2>2. minted[x] \subseteq born  BY DEF Lineage
  <2>3. DOMAIN sessions' \subseteq DOMAIN sessions \cup (born' \ born)
    BY ProxySessions
  <2> QED  BY <2>1, <2>2, <2>3
<1>4. ASSUME AnswerDenied(y)
      PROVE  minted'[y] \cap DOMAIN sessions' = {}
  BY <1>4 DEF AnswerDenied, Without
<1> QED  BY <1>2, <1>3, <1>4

(* Every step of the system.                                               *)
LEMMA GrantsStep ==
    ASSUME TypeOK, Lineage, GrantsAccounted, [Next]_vars
    PROVE  GrantsAccounted'
<1>1. CASE ProxyNext  BY <1>1, LastingStep, DeniedStep DEF GrantsAccounted
<1>2. CASE (ApiNext \/ Outside \/ PassTime) /\ UNCHANGED proxy
  <2>1. /\ DOMAIN sessions' \subseteq DOMAIN sessions
        /\ \A s \in DOMAIN sessions' : sessions'[s] = sessions[s]
    BY <1>2 DEF Outside, PassTime, Reconfigure, ChangeUser, RemoveSession, around,
                ApiNext, Arrive, ArriveDirect, ReadBody, ReadBodyDirect, Leave, Ends, Becomes
  <2>2. UNCHANGED <<stage, minted, granted>>  BY <1>2 DEF proxy, exchange
  <2> QED  BY <2>1, <2>2 DEF GrantsAccounted
<1>3. CASE UNCHANGED vars
  BY <1>3 DEF vars, around, proxy, exchange, GrantsAccounted
<1> QED  BY <1>1, <1>2, <1>3 DEF Next

(* No session outlives a denial, and none lasts whose exchange was not     *)
(* answered with success.                                                  *)
THEOREM GrantsAreAccounted == Spec => []GrantsAccounted
<1>1. Init => GrantsInv  BY InitEntitled
<1>2. TypeOK /\ GrantsInv /\ [Next]_vars => GrantsInv'
  BY LineageStep, GrantsStep DEF GrantsInv
<1>3. GrantsInv => GrantsAccounted  BY DEF GrantsInv
<1> QED  BY <1>1, <1>2, <1>3, TypeCorrect, PTL DEF Spec
--------------------------------------------------------------------------------
(***************************************************************************)
(* The limiter of failures.  An exchange that is under way has looked at   *)
(* it already and may yet add a failure, so those count as well; and time  *)
(* only takes failures away, from the front, so the bound is kept for      *)
(* every rest of the queue that may be left.                               *)
(***************************************************************************)
Pending(v) == {x \in Exchanges : stage[x] \in Underway /\ View(form[x]) = v}

Left(v, m) == m < Len(failures[v]) => ~Aged(failures[v], m + 1)

Bounded == \A v \in {"token", "revoke"} : \A m \in 0..Len(failures[v]) :
    Left(v, m) => Len(failures[v]) - m + Cardinality(Pending(v))
                     < MaxFailures + Cardinality(Exchanges)

(* At most all exchanges are under way.                                    *)
LEMMA PendingCount ==
    ASSUME NEW v
    PROVE  /\ IsFiniteSet(Pending(v)) /\ Cardinality(Pending(v)) \in Nat
           /\ Cardinality(Exchanges) \in Nat
           /\ Cardinality(Pending(v)) <= Cardinality(Exchanges)
<1>1. Pending(v) \subseteq Exchanges /\ IsFiniteSet(Exchanges)
  BY FormsAssumption DEF Pending
<1> QED  BY <1>1, FS_Subset, FS_CardinalityType

(* How an exchange that moves enters and leaves them.                      *)
LEMMA PendingMoves ==
    ASSUME TypeOK, NEW x \in Exchanges, NEW from, NEW to, NEW f, Goes(x, from, to, f)
    PROVE  \A v : /\ x \in Pending(v) <=> from \in Underway /\ View(form[x]) = v
                  /\ Pending(v)' = IF to \in Underway /\ View(f) = v
                                   THEN Pending(v) \cup {x} ELSE Pending(v) \ {x}
<1>1. /\ stage[x] = from /\ stage'[x] = to /\ form'[x] = f
      /\ \A y \in Exchanges \ {x} : stage'[y] = stage[y] /\ form'[y] = form[y]
  BY DEF Goes, TypeOK, ProxyTypeOK
<1>2. \A v : \A y \in Exchanges \ {x} : y \in Pending(v)' <=> y \in Pending(v)
  BY <1>1 DEF Pending, View
<1>3. \A v : x \in Pending(v)' <=> to \in Underway /\ View(f) = v
  BY <1>1 DEF Pending, View
<1>4. \A v : x \in Pending(v) <=> from \in Underway /\ View(form[x]) = v
  BY <1>1 DEF Pending
<1>5. \A v : Pending(v) \subseteq Exchanges /\ Pending(v)' \subseteq Exchanges
  BY DEF Pending
<1> QED  BY <1>2, <1>3, <1>4, <1>5

(* An exchange that fails gives its place to the failure it leaves.        *)
LEMMA FailedBounded ==
    ASSUME TypeOK, Bounded, UNCHANGED clock, NEW x \in Exchanges, Failed(x),
           NEW from \in Underway, NEW to, to \notin Underway, NEW f, Goes(x, from, to, f)
    PROVE  Bounded'
<1>1. PICK w \in {"token", "revoke"} : w = View(form[x])
  BY ViewKnown
<1>2. failures[w] \in Seq(Nat) /\ Len(failures[w]) \in Nat
  BY <1>1 DEF TypeOK, ProxyTypeOK
<1>3. \A v : Pending(v)' = Pending(v) \ {x} /\ (x \in Pending(v) <=> w = v)
  BY <1>1, PendingMoves
<1>4. /\ failures'[w] = Append(failures[w], clock)
      /\ \A v \in {"token", "revoke"} \ {w} : failures'[v] = failures[v]
  BY <1>1 DEF Failed, TypeOK, ProxyTypeOK
<1>5. /\ Len(failures'[w]) = Len(failures[w]) + 1
      /\ \A i \in 1..Len(failures[w]) : failures'[w][i] = failures[w][i]
  BY <1>1, <1>2, <1>4
<1>6. /\ Cardinality(Pending(w)') = Cardinality(Pending(w)) - 1
      /\ Cardinality(Pending(w)) \in Nat /\ Cardinality(Exchanges) \in Nat
      /\ Cardinality(Pending(w)) <= Cardinality(Exchanges)
  <2>1. IsFiniteSet(Pending(w)) /\ x \in Pending(w)  BY <1>3, PendingCount
  <2>2. Cardinality(Pending(w) \ {x}) = Cardinality(Pending(w)) - 1
    BY <2>1, FS_RemoveElement
  <2> QED  BY <1>3, <2>2, PendingCount
<1>7. ASSUME NEW m \in 0..Len(failures'[w]), Left(w, m)'
      PROVE  Len(failures'[w]) - m + Cardinality(Pending(w)')
                < MaxFailures + Cardinality(Exchanges)
  <2>1. m \in Nat /\ MaxFailures \in Nat \ {0}  BY <1>2, <1>5, FormsAssumption
  <2>2. CASE m >= Len(failures[w])
    BY <1>2, <1>5, <1>6, <2>1, <2>2
  <2>3. CASE m < Len(failures[w])
    <3>1. m \in 0..Len(failures[w]) /\ m + 1 \in 1..Len(failures[w])
      BY <1>2, <2>1, <2>3
    <3>2. Left(w, m)
      <4>1. m < Len(failures'[w]) /\ failures'[w][m + 1] = failures[w][m + 1]
        BY <1>2, <1>5, <2>1, <2>3, <3>1
      <4> QED  BY <1>7, <4>1 DEF Left, Aged
    <3>3. Len(failures[w]) - m + Cardinality(Pending(w)) < MaxFailures + Cardinality(Exchanges)
      BY <1>1, <3>1, <3>2 DEF Bounded
    <3> QED  BY <1>2, <1>5, <1>6, <2>1, <3>3
  <2> QED  BY <1>2, <2>1, <2>2, <2>3
<1>8. ASSUME NEW v \in {"token", "revoke"} \ {w}
      PROVE  /\ failures'[v] = failures[v] /\ Pending(v)' = Pending(v)
             /\ \A m : Left(v, m)' <=> Left(v, m)
  BY <1>3, <1>4, <1>8 DEF Left, Aged
<1>9. ASSUME NEW v \in {"token", "revoke"} \ {w}, NEW m \in 0..Len(failures'[v]), Left(v, m)'
      PROVE  Len(failures'[v]) - m + Cardinality(Pending(v)')
                < MaxFailures + Cardinality(Exchanges)
  BY <1>8, <1>9 DEF Bounded
<1> QED  BY <1>7, <1>9 DEF Bounded

(* Nothing is counted, and no exchange enters.                             *)
LEMMA FewerBounded ==
    ASSUME TypeOK, Bounded, UNCHANGED <<clock, failures>>,
           \A v : Pending(v)' \subseteq Pending(v)
    PROVE  Bounded'
<1>1. \A v : Cardinality(Pending(v)') <= Cardinality(Pending(v))
             /\ Cardinality(Pending(v)') \in Nat
  BY PendingCount, FS_Subset, FS_CardinalityType
<1>2. \A v, m : Left(v, m)' <=> Left(v, m)  BY DEF Left, Aged
<1> SUFFICES ASSUME NEW v \in {"token", "revoke"}, NEW m \in 0..Len(failures[v]), Left(v, m)
             PROVE  Len(failures[v]) - m + Cardinality(Pending(v)')
                       < MaxFailures + Cardinality(Exchanges)
  BY <1>2 DEF Bounded
<1>3. Len(failures[v]) \in Nat /\ m \in Nat  BY DEF TypeOK, ProxyTypeOK
<1>4. Len(failures[v]) - m + Cardinality(Pending(v)) < MaxFailures + Cardinality(Exchanges)
  BY DEF Bounded
<1> QED  BY <1>1, <1>3, <1>4, PendingCount, FormsAssumption

(* Success forgets the failures of that view.                              *)
LEMMA SucceededBounded ==
    ASSUME TypeOK, Bounded, UNCHANGED clock, NEW x \in Exchanges, Succeeded(x),
           \A v : Pending(v)' \subseteq Pending(v)
    PROVE  Bounded'
<1> DEFINE w == View(form[x])
<1>1. \A v : /\ Cardinality(Pending(v)') <= Cardinality(Pending(v))
             /\ Cardinality(Pending(v)') \in Nat
             /\ Cardinality(Pending(v)) \in Nat
             /\ Cardinality(Pending(v)) <= Cardinality(Exchanges)
             /\ Cardinality(Exchanges) \in Nat
  BY PendingCount, FS_Subset, FS_CardinalityType
<1>2. failures'[w] = <<>> /\ \A v \in {"token", "revoke"} \ {w} : failures'[v] = failures[v]
  BY ViewKnown DEF Succeeded, TypeOK, ProxyTypeOK
<1> HIDE DEF w
<1> SUFFICES ASSUME NEW v \in {"token", "revoke"}, NEW m \in 0..Len(failures'[v]), Left(v, m)'
             PROVE  Len(failures'[v]) - m + Cardinality(Pending(v)')
                       < MaxFailures + Cardinality(Exchanges)
  BY DEF Bounded
<1>3. CASE v = w
  <2>1. Len(failures'[v]) = 0 /\ m = 0  BY <1>2, <1>3
  <2>2. MaxFailures \in Nat \ {0}  BY FormsAssumption
  <2>3. 0 - 0 + Cardinality(Pending(v)') < MaxFailures + Cardinality(Exchanges)
    BY <1>1, <2>2
  <2> QED  BY <2>1, <2>3
<1>4. CASE v # w
  <2>1. failures'[v] = failures[v] /\ Left(v, m)  BY <1>2, <1>4 DEF Left, Aged
  <2>2. Len(failures[v]) - m + Cardinality(Pending(v)) < MaxFailures + Cardinality(Exchanges)
    BY <2>1 DEF Bounded
  <2>3. Len(failures[v]) \in Nat /\ m \in Nat /\ MaxFailures \in Nat
    BY <2>1, FormsAssumption DEF TypeOK, ProxyTypeOK
  <2> QED  BY <1>1, <2>1, <2>2, <2>3
<1> QED  BY <1>3, <1>4

(* An exchange enters only while there are fewer failures than the limit.  *)
LEMMA SubmitBounded ==
    ASSUME TypeOK, Bounded, NEW x \in Exchanges, NEW f \in Forms, Submit(x, f)
    PROVE  Bounded'
<1> DEFINE w == View(f)
           queue == failures[w]
<1>1. w \in {"token", "revoke"} /\ queue \in Seq(Nat) /\ Len(queue) \in Nat
  BY ViewKnown DEF TypeOK, ProxyTypeOK
<1>2. PICK n \in 0..Len(queue) :
         /\ Drops(queue, n)
         /\ IF Blocked(queue, n) \/ ~config.enabled
            THEN Answers(x, stage[x]) ELSE Goes(x, stage[x], "form", f)
         /\ failures' = [failures EXCEPT ![w] = SubSeq(queue, n + 1, Len(queue))]
  BY DEF Submit
<1>3. clock' = clock /\ stage[x] \notin Underway
  BY DEF Submit, rateVars, Underway
<1>4. /\ Len(failures'[w]) = Len(queue) - n
      /\ \A i \in 1..(Len(queue) - n) : failures'[w][i] = queue[n + i]
      /\ \A v \in {"token", "revoke"} \ {w} : failures'[v] = failures[v]
  <2>1. failures'[w] = SubSeq(queue, n + 1, Len(queue))
    BY <1>1, <1>2 DEF TypeOK, ProxyTypeOK
  <2>2. \A v \in {"token", "revoke"} \ {w} : failures'[v] = failures[v]
    BY <1>1, <1>2 DEF TypeOK, ProxyTypeOK
  <2> QED  BY <1>1, <2>1, <2>2, Remaining
<1>5. \A v : /\ v # w => Pending(v)' = Pending(v)
             /\ Answers(x, stage[x]) => Pending(v)' = Pending(v)
  <2>1. \A v : x \notin Pending(v)  BY <1>3 DEF Pending
  <2>2. CASE Answers(x, stage[x])
    <3>1. Goes(x, stage[x], "answered", Nothing) /\ "answered" \notin Underway
      BY <2>2 DEF Answers, Underway
    <3>2. \A v : Pending(v)' = Pending(v) \ {x}  BY <3>1, PendingMoves
    <3> QED  BY <2>1, <3>2
  <2>3. CASE ~Answers(x, stage[x])
    <3>1. Goes(x, stage[x], "form", f)  BY <1>2, <2>3
    <3>2. \A v : v # w => Pending(v)' = Pending(v) \ {x}  BY <3>1, PendingMoves
    <3> QED  BY <2>1, <2>3, <3>2
  <2> QED  BY <2>2, <2>3
<1>6. Cardinality(Pending(w)') <= Cardinality(Exchanges) /\ Cardinality(Pending(w)') \in Nat
      /\ Cardinality(Exchanges) \in Nat
  <2>1. Pending(w)' \subseteq Exchanges /\ IsFiniteSet(Exchanges)
    BY FormsAssumption DEF Pending
  <2> QED  BY <2>1, FS_Subset, FS_CardinalityType
<1> HIDE DEF w, queue
<1>7. ASSUME NEW m \in 0..Len(failures'[w]), Left(w, m)'
      PROVE  Len(failures'[w]) - m + Cardinality(Pending(w)')
                < MaxFailures + Cardinality(Exchanges)
  <2>1. m \in Nat /\ n \in Nat /\ MaxFailures \in Nat \ {0} /\ n + m \in 0..Len(queue)
    BY <1>1, <1>4, FormsAssumption
  <2>2. CASE Blocked(queue, n) \/ ~config.enabled
    <3>1. Left(w, n + m)
      <4> SUFFICES ASSUME n + m < Len(queue) PROVE ~Aged(queue, n + m + 1)
        BY DEF Left, queue
      <4>1. m < Len(failures'[w]) /\ m + 1 \in 1..(Len(queue) - n)
        BY <1>1, <1>4, <2>1
      <4>2. failures'[w][m + 1] = queue[n + m + 1]
        <5>1. failures'[w][m + 1] = queue[n + (m + 1)]  BY <1>4, <4>1
        <5> QED  BY <2>1, <5>1
      <4>3. ~(clock' - failures'[w][m + 1] > TokenWindow)
        BY <1>7, <4>1 DEF Left, Aged
      <4> QED  BY <1>3, <4>2, <4>3 DEF Aged
    <3>2. Len(queue) - (n + m) + Cardinality(Pending(w)) < MaxFailures + Cardinality(Exchanges)
      BY <1>1, <2>1, <3>1 DEF Bounded, queue
    <3>3. Pending(w)' = Pending(w)  BY <1>2, <1>5, <2>2
    <3> QED  BY <1>1, <1>4, <1>6, <2>1, <3>2, <3>3
  <2>3. CASE ~Blocked(queue, n)
    <3>1. Len(queue) - n < MaxFailures  BY <1>1, <2>1, <2>3 DEF Blocked
    <3> QED  BY <1>1, <1>4, <1>6, <2>1, <3>1
  <2> QED  BY <2>2, <2>3
<1>8. ASSUME NEW v \in {"token", "revoke"} \ {w}
      PROVE  /\ failures'[v] = failures[v] /\ Pending(v)' = Pending(v)
             /\ \A m : Left(v, m)' <=> Left(v, m)
  BY <1>3, <1>4, <1>5, <1>8 DEF Left, Aged
<1> QED  BY <1>1, <1>7, <1>8 DEF Bounded

(* Time takes failures away and adds none.                                 *)
LEMMA PassBounded ==
    ASSUME TypeOK, Bounded, clock' = clock + 1, UNCHANGED <<stage, form, failures>>
    PROVE  Bounded'
<1> SUFFICES ASSUME NEW v \in {"token", "revoke"}, NEW m \in 0..Len(failures[v]), Left(v, m)'
             PROVE  Len(failures[v]) - m + Cardinality(Pending(v))
                       < MaxFailures + Cardinality(Exchanges)
  BY DEF Bounded, Pending
<1>1. failures[v] \in Seq(Nat) /\ clock \in Nat /\ TokenWindow \in Nat
  BY FormsAssumption DEF TypeOK, ProxyTypeOK, RateTypeOK
<1>2. Left(v, m)
  <2> SUFFICES ASSUME m < Len(failures[v]) PROVE ~Aged(failures[v], m + 1)
    BY DEF Left
  <2>1. failures[v][m + 1] \in Nat  BY <1>1
  <2>2. ~(clock + 1 - failures[v][m + 1] > TokenWindow)
    <3>1. m < Len(failures'[v])  OBVIOUS
    <3>2. ~(clock' - failures'[v][m + 1] > TokenWindow)  BY <3>1 DEF Left, Aged
    <3>3. failures'[v] = failures[v] /\ clock' = clock + 1  OBVIOUS
    <3> QED  BY <1>1, <2>1, <3>2, <3>3
  <2> QED  BY <1>1, <2>1, <2>2 DEF Aged
<1> QED  BY <1>2 DEF Bounded

(* Every step of the system.                                               *)
LEMMA BoundedStep == ASSUME TypeOK, Bounded, [Next]_vars PROVE Bounded'
<1>1. ASSUME NEW x \in Exchanges, NEW from, NEW to, NEW f, Goes(x, from, to, f),
             to \in Underway => from \in Underway /\ f = form[x]
      PROVE  \A v : Pending(v)' \subseteq Pending(v)
  BY <1>1, PendingMoves
<1>2. CASE ProxyNext
  <2> SUFFICES ASSUME NEW x \in Exchanges,
                      \/ \E f \in Forms : Submit(x, f)
                      \/ ReadForm(x) \/ FormBreaks(x)
                      \/ HomeAssistantGrants(x) \/ HomeAssistantRefuses(x)
                      \/ AnswerGranted(x) \/ AnswerDenied(x) \/ AnswerLost(x)
               PROVE  Bounded'
    BY <1>2 DEF ProxyNext
  <2>1. CASE \E f \in Forms : Submit(x, f)  BY <2>1, SubmitBounded
  <2>2. ASSUME UNCHANGED rateVars, UNCHANGED failures,
               \/ Continues(x, "form", "sent") \/ Continues(x, "sent", "acted")
               \/ \E from \in Underway : Answers(x, from)
        PROVE  Bounded'
    <3>1. \A v : Pending(v)' \subseteq Pending(v)
      BY <1>1, <2>2 DEF Continues, Answers, Underway
    <3> QED  BY <2>2, <3>1, FewerBounded DEF rateVars
  <2>3. ASSUME UNCHANGED rateVars, Failed(x),
               \/ \E from \in Underway : Answers(x, from)
               \/ Goes(x, "acted", "denied", Nothing)
        PROVE  Bounded'
    BY <2>3, FailedBounded DEF Answers, Underway, rateVars
  <2>4. CASE ReadForm(x)  BY <2>2, <2>3, <2>4 DEF ReadForm, Underway
  <2>5. CASE FormBreaks(x)  BY <2>2, <2>3, <2>5 DEF FormBreaks, Underway
  <2>6. CASE HomeAssistantGrants(x)  BY <2>2, <2>6 DEF HomeAssistantGrants
  <2>7. CASE HomeAssistantRefuses(x)  BY <2>3, <2>7 DEF HomeAssistantRefuses, Underway
  <2>8. CASE AnswerGranted(x)
    <3>1. \A v : Pending(v)' \subseteq Pending(v)
      BY <1>1, <2>8 DEF AnswerGranted, Answers, Underway
    <3> QED  BY <2>8, <3>1, SucceededBounded DEF AnswerGranted, rateVars
  <2>9. CASE AnswerDenied(x)  BY <2>3, <2>9 DEF AnswerDenied
  <2>10. CASE AnswerLost(x)  BY <2>2, <2>3, <2>10 DEF AnswerLost, Underway
  <2> QED  BY <2>1, <2>4, <2>5, <2>6, <2>7, <2>8, <2>9, <2>10
<1>3. CASE ((ApiNext \/ Outside \/ PassTime) /\ UNCHANGED proxy) \/ UNCHANGED vars
  <2>1. UNCHANGED <<stage, form, failures>>  BY <1>3 DEF proxy, exchange, vars
  <2>2. clock' = clock \/ clock' = clock + 1
    BY <1>3, RateStep DEF RateNext, Admit, Refuse, Pass, rateVars
  <2>3. \A v : Pending(v)' = Pending(v)  BY <2>1 DEF Pending
  <2> QED  BY <2>1, <2>2, <2>3, FewerBounded, PassBounded
<1> QED  BY <1>2, <1>3 DEF Next

(* Exchanges that overlap exceed the limit by no more than there are of    *)
(* them, however their steps and the clock interleave.                     *)
THEOREM FailuresAreBounded == Spec => []FailuresBounded
<1>1. Init => Bounded
  <2> SUFFICES ASSUME Init, NEW v \in {"token", "revoke"}, NEW m \in 0..Len(failures[v])
               PROVE  Len(failures[v]) - m + Cardinality(Pending(v))
                         < MaxFailures + Cardinality(Exchanges)
    BY DEF Bounded
  <2>1. failures[v] = <<>>  BY DEF Init
  <2>2. Len(failures[v]) = 0 /\ m = 0  BY <2>1
  <2>3. MaxFailures \in Nat \ {0}  BY FormsAssumption
  <2>4. 0 - 0 + Cardinality(Pending(v)) < MaxFailures + Cardinality(Exchanges)
    BY <2>3, PendingCount
  <2> QED  BY <2>2, <2>4
<1>2. TypeOK /\ Bounded /\ [Next]_vars => Bounded'  BY BoundedStep
<1>3. TypeOK /\ Bounded => FailuresBounded
  <2> SUFFICES ASSUME TypeOK, Bounded, NEW v \in DOMAIN failures,
                      NEW n \in 0..Len(failures[v]), Drops(failures[v], n)
               PROVE  Len(failures[v]) - n < MaxFailures + Cardinality(Exchanges)
    BY DEF FailuresBounded
  <2>1. v \in {"token", "revoke"} /\ Len(failures[v]) \in Nat
    BY DEF TypeOK, ProxyTypeOK
  <2>2. Len(failures[v]) - n + Cardinality(Pending(v)) < MaxFailures + Cardinality(Exchanges)
    BY <2>1 DEF Bounded, Left, Drops
  <2> QED  BY <2>1, <2>2, PendingCount, FormsAssumption
<1> QED  BY <1>1, <1>2, <1>3, TypeCorrect, PTL DEF Spec
================================================================================
