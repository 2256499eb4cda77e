---------------------------- MODULE Patches_proofs -----------------------------
(***************************************************************************)
(* The patches of a file, for files, blocks and lists of patches of every  *)
(* length; and the patches of a JSON document, for every document and      *)
(* every list of operations.                                               *)
(***************************************************************************)
EXTENDS FilePatch, JsonPatch, FiniteSetTheorems, SequenceTheorems,
        WellFoundedInduction, TLAPS

(***************************************************************************)
(* The patches of a file.  Each patch that was located has its block where *)
(* it was located, and one that moved has no other place; once they are    *)
(* found not to overlap, neither the file nor the patches change.          *)
(***************************************************************************)
Located == [first : Nat \ {0}, last : Nat, moved : BOOLEAN, old : Seq(Line),
            new : Replacements]

Placed(p) ==
    /\ p.first <= p.last /\ p.last <= Len(text)
    /\ p.old = SubSeq(text, p.first, p.last)
    /\ p.moved => ExactMatches(p.old) = {p.first}

InPlaces == /\ text \in Seq(Line) /\ checked \in Seq(Located)
            /\ \A i \in DOMAIN checked : Placed(checked[i])

PatchInv ==
    /\ InPlaces
    /\ verdict = "unread" => checked = <<>>
    /\ verdict \in {"located", "replaced", "INVALID_FILE_CONTENT"} => ~Overlap
    /\ verdict = "replaced" => patched = Patched

LEMMA TextsFit == ASSUME NEW n, NEW t \in Texts(n) PROVE t \in Seq(Line)
<1>1. PICK m \in 0..n : t \in [1..m -> Line]  BY DEF Texts
<1>2. m \in Nat  BY <1>1
<1> QED  BY <1>1, <1>2

(* The lines of a block, one by one.                                       *)
LEMMA BlockLines ==
    ASSUME NEW S, NEW t \in Seq(S), NEW first \in Nat \ {0}, NEW last \in Nat,
           first <= last + 1, last <= Len(t)
    PROVE  /\ SubSeq(t, first, last) \in Seq(S)
           /\ Len(SubSeq(t, first, last)) = last + 1 - first
           /\ \A k \in 1..(last + 1 - first) : SubSeq(t, first, last)[k] = t[first + k - 1]
BY SubSeqProperties

(* A text holds a block where its lines are those of the block.            *)
LEMMA BlockHeld ==
    ASSUME NEW S, NEW t \in Seq(S), NEW old \in Seq(S), NEW s \in 1..Len(t), old # <<>>,
           \A k \in DOMAIN old : s + k - 1 \in DOMAIN t /\ t[s + k - 1] = old[k]
    PROVE  s <= Len(t) + 1 - Len(old) /\ SubSeq(t, s, s + Len(old) - 1) = old
<1>1. Len(old) \in Nat \ {0} /\ DOMAIN old = 1..Len(old) /\ DOMAIN t = 1..Len(t)
      /\ Len(t) \in Nat
  BY EmptySeq, LenProperties
<1>2. s + Len(old) - 1 <= Len(t)  BY <1>1
<1> DEFINE block == SubSeq(t, s, s + Len(old) - 1)
<1>3. block \in Seq(S) /\ Len(block) = Len(old)
      /\ \A k \in 1..Len(old) : block[k] = t[s + k - 1]
  BY <1>1, <1>2, BlockLines
<1>4. \A k \in 1..Len(block) : block[k] = old[k]  BY <1>1, <1>3
<1>5. block = old
  <2> HIDE DEF block
  <2> QED  BY <1>3, <1>4, SeqEqual
<1> QED  BY <1>1, <1>2, <1>5

LEMMA BlockLength ==
    ASSUME NEW first \in Nat \ {0}, NEW last \in Nat, first <= last
    PROVE  Cardinality(first..last) = last + 1 - first
<1>1. first \in Int /\ last \in Int  OBVIOUS
<1>2. Cardinality(first..last) = IF first > last THEN 0 ELSE last - first + 1
  BY <1>1, FS_Interval, Zenon
<1> QED  BY <1>2

(* What is made of the text and the patches stays while they do.           *)
LEMMA SameText ==
    ASSUME UNCHANGED <<text, checked>>
    PROVE  (InPlaces' <=> InPlaces) /\ (Overlap' <=> Overlap) /\ Patched' = Patched
<1>1. text' = text /\ checked' = checked  OBVIOUS
<1>2. InPlaces' <=> InPlaces  BY <1>1 DEF InPlaces, Placed, ExactMatches, Block
<1>3. InOrder' = InOrder  BY <1>1 DEF InOrder, Rank, Earlier
<1>4. Overlap' <=> Overlap  BY <1>1, <1>3 DEF Overlap
<1>5. Patched' = Patched  BY <1>1, <1>3 DEF Patched, Put
<1> QED  BY <1>2, <1>4, <1>5

(* Where a patch is located, its block is there.                           *)
LEMMA LocatedIsPlaced ==
    ASSUME PatchInv, NEW p \in Patches, CheckPatch(p)
    PROVE  PatchInv'
<1> USE DEF PatchInv
<1>0. verdict = "checking"  BY DEF CheckPatch
<1>1. p.first \in Nat /\ p.last \in Nat /\ p.old \in Seq(Line)
      /\ p.new \in Replacements
  BY TextsFit DEF Patches
<1> DEFINE Errors == {"INVALID_FILE_PATCH_RANGE", "FILE_PATCH_AMBIGUOUS",
                      "FILE_PATCH_MISMATCH"}
<1>2. ASSUME NEW code \in Errors, Concludes(code) PROVE PatchInv'
  <2>1. UNCHANGED <<text, checked>> /\ verdict' \in Errors  BY <1>2 DEF Concludes
  <2> QED  BY <2>1, SameText
<1>3. ASSUME NEW first \in Nat \ {0}, NEW last \in Nat, Locate(p, first, last),
             first <= last, last <= Len(text), p.old = SubSeq(text, first, last),
             <<first, last>> # <<p.first, p.last>> => ExactMatches(p.old) = {first}
      PROVE  PatchInv'
  <2> DEFINE found == [first |-> first, last |-> last,
                       moved |-> <<first, last>> # <<p.first, p.last>>,
                       old |-> p.old, new |-> p.new]
  <2>1. found \in Located  BY <1>1 DEF Located
  <2>2. Placed(found)  BY <1>3 DEF Placed
  <2>3. UNCHANGED <<text, verdict>> /\ checked' = Append(checked, found)
    BY <1>3 DEF Locate
  <2> HIDE DEF found
  <2>4. text' \in Seq(Line) /\ checked' \in Seq(Located)
    BY <2>1, <2>3, AppendProperties DEF InPlaces
  <2>5. \A i \in DOMAIN checked' : Placed(checked[i])'
    <3> SUFFICES ASSUME NEW i \in DOMAIN checked' PROVE Placed(checked[i])'
      OBVIOUS
    <3>1. /\ checked \in Seq(Located) /\ Len(checked) \in Nat
          /\ DOMAIN checked = 1..Len(checked)
          /\ DOMAIN checked' = 1..(Len(checked) + 1)
      BY <2>1, <2>3, AppendProperties, LenProperties DEF InPlaces
    <3>2. CASE i = Len(checked) + 1
      <4>1. checked'[i] = found  BY <2>1, <2>3, <3>1, <3>2, AppendProperties
      <4>2. text' = text  BY <2>3
      <4> QED  BY <2>2, <4>1, <4>2 DEF Placed, ExactMatches, Block
    <3>3. CASE i # Len(checked) + 1
      <4>1. i \in DOMAIN checked  BY <3>1, <3>3
      <4>2. checked'[i] = checked[i]  BY <2>1, <2>3, <3>1, <4>1, AppendProperties
      <4>3. Placed(checked[i])  BY <4>1 DEF InPlaces
      <4> QED  BY <2>3, <4>2, <4>3 DEF Placed, ExactMatches, Block
    <3> QED  BY <3>2, <3>3
  <2>6. InPlaces'  BY <2>4, <2>5 DEF InPlaces
  <2>7. verdict' = "checking"  BY <1>0, <2>3
  <2> QED  BY <2>6, <2>7
<1>4. CASE InPlace(p) /\ Locate(p, p.first, p.last) /\ 1 <= p.first
           /\ p.first <= p.last
  <2>1. p.last <= Len(text) /\ p.old = SubSeq(text, p.first, p.last)
    BY <1>4 DEF InPlace, InBounds
  <2>2. p.first \in Nat \ {0} /\ p.first <= p.last  BY <1>1, <1>4
  <2> QED  BY <1>1, <1>3, <1>4, <2>1, <2>2
<1>5. ASSUME NEW s \in ExactMatches(p.old), ExactMatches(p.old) = {s},
             Locate(p, s, s + Len(p.old) - 1)
      PROVE  PatchInv'
  <2>1. /\ s \in 1..(Len(text) + 1 - Len(p.old)) /\ p.old # <<>>
        /\ SubSeq(text, s, s + Len(p.old) - 1) = p.old
    BY <1>5 DEF ExactMatches, Block
  <2>2. Len(p.old) \in Nat \ {0} /\ Len(text) \in Nat  BY <1>1, <2>1, EmptySeq, LenProperties
  <2> DEFINE last == s + Len(p.old) - 1
  <2>3. s \in Nat \ {0} /\ last \in Nat /\ s <= last /\ last <= Len(text)
    BY <2>1, <2>2
  <2> HIDE DEF last
  <2>4. Locate(p, s, last) /\ p.old = SubSeq(text, s, last)  BY <1>5, <2>1 DEF last
  <2> QED  BY <1>3, <1>5, <2>3, <2>4
<1>6. CASE ~(1 <= p.first /\ p.first <= p.last)
  <2>1. Concludes("INVALID_FILE_PATCH_RANGE")  BY <1>6 DEF CheckPatch
  <2> QED  BY <1>2, <2>1
<1>7. CASE 1 <= p.first /\ p.first <= p.last /\ ~InPlace(p)
  <2>1. \/ \E s \in ExactMatches(p.old) :
              ExactMatches(p.old) = {s} /\ Locate(p, s, s + Len(p.old) - 1)
        \/ \E code \in {"FILE_PATCH_AMBIGUOUS", "FILE_PATCH_MISMATCH",
                         "INVALID_FILE_PATCH_RANGE"} : Concludes(code)
    BY <1>7, Zenon DEF CheckPatch
  <2> QED  BY <1>2, <1>5, <2>1
<1> QED  BY <1>4, <1>6, <1>7 DEF CheckPatch

--------------------------------------------------------------------------------
(***************************************************************************)
(* Induction over the lines of a text and over its patches, from the least *)
(* element that every nonempty set of numbers has.                         *)
(***************************************************************************)
LEMMA Least ==
    ASSUME NEW T \in SUBSET Nat, T # {}
    PROVE  \E x \in T : \A y \in T : x <= y
<1> DEFINE R == OpToRel(<, Nat)
<1>1. IsWellFoundedOn(R, Nat)  BY NatLessThanWellFounded
<1>2. \A x, y \in Nat : x < y => <<x, y>> \in R  BY DEF OpToRel
<1> HIDE DEF R
<1>3. PICK x \in T : \A y \in T : <<y, x>> \notin R  BY <1>1, WFMin
<1>4. \A y \in T : ~(y < x)  BY <1>2, <1>3
<1>5. \A y \in T : x <= y  BY <1>4
<1> QED  BY <1>5

LEMMA UpTo ==
    ASSUME NEW n \in Nat, NEW T, 0 \in T, \A i \in 0..(n - 1) : i \in T => i + 1 \in T
    PROVE  \A i \in 0..n : i \in T
<1> DEFINE F == {i \in 0..n : i \notin T}
<1> SUFFICES ASSUME F # {} PROVE FALSE
  OBVIOUS
<1>0. F \in SUBSET Nat  OBVIOUS
<1>1. PICK x \in F : \A y \in F : x <= y
  <2> HIDE DEF F
  <2> QED  BY <1>0, Least
<1>2. x # 0 /\ x - 1 \in 0..(n - 1) /\ (x - 1) + 1 = x  BY <1>1
<1>3. x - 1 \notin F  BY <1>1, <1>2
<1> QED  BY <1>1, <1>2, <1>3
\* F[k] takes every value of step k - 1 to one of step k; f has all of them, from base.
Leads(F, G, n) == \A k \in 1..n : \A t \in G[k - 1] : F[k][t] \in G[k]
Iterates(f, F, G, n, base) == /\ DOMAIN f = 0..n /\ f[0] = base
                              /\ \A k \in 1..n : f[k] = F[k][f[k - 1]]
                              /\ \A k \in 0..n : f[k] \in G[k]

LEMMA Iterated ==
    ASSUME NEW n \in Nat, NEW F, NEW G, Leads(F, G, n), NEW base, base \in G[0]
    PROVE  \E f : Iterates(f, F, G, n, base)
<1> USE DEF Leads
<1> DEFINE Part(f, m) == /\ DOMAIN f = 0..m /\ f[0] = base
                         /\ \A k \in 1..m : f[k] = F[k][f[k - 1]]
                         /\ \A k \in 0..m : f[k] \in G[k]
           T == {m \in 0..n : \E f : Part(f, m)}
<1>1. 0 \in T
  <2>1. Part([k \in 0..0 |-> base], 0)  OBVIOUS
  <2> HIDE DEF Part
  <2> QED  BY <2>1
<1>2. ASSUME NEW m \in 0..(n - 1), m \in T PROVE m + 1 \in T
  <2>1. PICK f : Part(f, m)  BY <1>2
  <2> DEFINE g == [k \in 0..(m + 1) |-> IF k = m + 1 THEN F[m + 1][f[m]] ELSE f[k]]
  <2>2. m \in Nat /\ m \in 0..m /\ m + 1 \in 1..n /\ (m + 1) - 1 = m  OBVIOUS
  <2>3. F[m + 1][f[m]] \in G[m + 1]  BY <2>1, <2>2
  <2>4. \A k \in 0..m : k \in 0..(m + 1) /\ k # m + 1  BY <2>2
  <2>5. \A k \in 0..m : g[k] = f[k]  BY <2>4
  <2>6. g[m + 1] = F[m + 1][f[m]]  BY <2>2
  <2>7. DOMAIN g = 0..(m + 1)  OBVIOUS
  <2> HIDE DEF g
  <2>8. g[0] = base  BY <2>1, <2>2, <2>5
  <2>9. ASSUME NEW k \in 1..(m + 1) PROVE g[k] = F[k][g[k - 1]]
    <3>1. CASE k = m + 1  BY <2>2, <2>5, <2>6, <3>1
    <3>2. CASE k # m + 1
      <4>1. k \in 1..m /\ k \in 0..m /\ k - 1 \in 0..m  BY <2>2, <3>2
      <4> QED  BY <2>1, <2>5, <4>1
    <3> QED  BY <3>1, <3>2
  <2>10. ASSUME NEW k \in 0..(m + 1) PROVE g[k] \in G[k]
    <3>1. CASE k = m + 1  BY <2>3, <2>6, <3>1
    <3>2. CASE k # m + 1
      <4>1. k \in 0..m  BY <2>2, <3>2
      <4> QED  BY <2>1, <2>5, <4>1
    <3> QED  BY <3>1, <3>2
  <2>11. Part(g, m + 1)  BY <2>7, <2>8, <2>9, <2>10
  <2> HIDE DEF Part
  <2>12. m + 1 \in 0..n  BY <2>2
  <2> QED  BY <2>11, <2>12
<1>3. n \in T
  <2> HIDE DEF T
  <2>1. \A m \in 0..n : m \in T  BY <1>1, <1>2, UpTo
  <2> QED  BY <2>1
<1> QED  BY <1>3 DEF Iterates
--------------------------------------------------------------------------------
(***************************************************************************)
(* InOrder is the patches in ascending order, and if none overlaps the one *)
(* before it, each begins after all that come before it.                   *)
(***************************************************************************)
LEMMA LocatedFits ==
    ASSUME InPlaces
    PROVE  /\ Len(checked) \in Nat /\ DOMAIN checked = 1..Len(checked)
           /\ \A i \in DOMAIN checked :
                 /\ checked[i] \in Located
                 /\ checked[i].first \in Nat \ {0} /\ checked[i].last \in Nat
                 /\ checked[i].first <= checked[i].last /\ checked[i].last <= Len(text)
                 /\ checked[i].new \in Seq(Line)
<1>1. Len(checked) \in Nat /\ DOMAIN checked = 1..Len(checked)
  BY LenProperties DEF InPlaces
<1>2. \A i \in DOMAIN checked : checked[i] \in Located /\ Placed(checked[i])
  BY <1>1 DEF InPlaces
<1> QED  BY <1>1, <1>2, ReplacementsAssumption DEF Located, Placed

LEMMA EarlierIsOrder ==
    ASSUME InPlaces, NEW i \in DOMAIN checked, NEW j \in DOMAIN checked
    PROVE  /\ ~Earlier(i, i) /\ (i = j \/ Earlier(i, j) \/ Earlier(j, i))
           /\ \A l \in DOMAIN checked : Earlier(i, j) /\ Earlier(j, l) => Earlier(i, l)
<1>1. \A l \in DOMAIN checked : checked[l].first \in Nat /\ checked[l].last \in Nat
                                /\ l \in Nat
  BY LocatedFits
<1> QED  BY <1>1 DEF Earlier

LEMMA Ranked ==
    ASSUME InPlaces
    PROVE  /\ \A i \in DOMAIN checked : Rank(i) \in DOMAIN checked
           /\ \A i, j \in DOMAIN checked : Earlier(i, j) => Rank(i) < Rank(j)
           /\ \A k \in DOMAIN checked : \E i \in DOMAIN checked : Rank(i) = k
<1> DEFINE n == Len(checked)
           Ahead(j) == {i \in DOMAIN checked : Earlier(i, j)}
<1>1. /\ n \in Nat /\ DOMAIN checked = 1..n
      /\ IsFiniteSet(1..n) /\ Cardinality(1..n) = n
  <2>1. n \in Nat /\ DOMAIN checked = 1..n  BY LocatedFits
  <2>2. IsFiniteSet(1..n) /\ Cardinality(1..n) = IF 1 > n THEN 0 ELSE n - 1 + 1
    BY <2>1, FS_Interval
  <2> QED  BY <2>1, <2>2
<1>2. \A j \in DOMAIN checked : /\ IsFiniteSet(Ahead(j)) /\ Cardinality(Ahead(j)) \in Nat
                                /\ Rank(j) = Cardinality(Ahead(j)) + 1
  <2>1. \A j : Ahead(j) \in SUBSET (1..n)  BY <1>1
  <2> HIDE DEF Ahead
  <2>2. \A j : IsFiniteSet(Ahead(j)) /\ Cardinality(Ahead(j)) \in Nat
    BY <1>1, <2>1, FS_Subset, FS_CardinalityType
  <2> QED  BY <2>2 DEF Rank, Ahead
<1>3. ASSUME NEW i \in DOMAIN checked, NEW j \in DOMAIN checked, Earlier(i, j)
      PROVE  Rank(i) < Rank(j)
  <2>1. Ahead(i) \subseteq Ahead(j) /\ i \in Ahead(j) /\ i \notin Ahead(i)
    BY <1>3, EarlierIsOrder
  <2> HIDE DEF Ahead
  <2>2. Cardinality(Ahead(i)) <= Cardinality(Ahead(j))
        /\ Cardinality(Ahead(i)) # Cardinality(Ahead(j))
    BY <1>2, <2>1, FS_Subset
  <2> QED  BY <1>2, <2>2
<1>4. ASSUME NEW i \in DOMAIN checked PROVE Rank(i) \in 1..n
  <2>1. Ahead(i) \in SUBSET (1..n) /\ i \notin Ahead(i) /\ i \in 1..n
    BY <1>1, EarlierIsOrder
  <2> HIDE DEF Ahead
  <2>2. Cardinality(Ahead(i)) <= n /\ Cardinality(Ahead(i)) # n
    BY <1>1, <2>1, FS_Subset
  <2> QED  BY <1>1, <1>2, <2>2
<1> DEFINE f == [i \in 1..n |-> Rank(i)]
<1>5. f \in Injection(1..n, 1..n)
  <2>1. f \in [1..n -> 1..n]  BY <1>1, <1>4
  <2>2. \A i, j \in 1..n : f[i] = f[j] => i = j
    <3>1. ASSUME NEW i \in 1..n, NEW j \in 1..n, Rank(i) = Rank(j) PROVE i = j
      <4>1. Rank(i) \in Nat /\ ~(Rank(i) < Rank(j)) /\ ~(Rank(j) < Rank(i))
        BY <1>1, <1>4, <3>1
      <4> QED  BY <1>1, <1>3, <4>1, EarlierIsOrder
    <3> QED  BY <3>1
  <2> HIDE DEF f
  <2> QED  BY <2>1, <2>2 DEF Injection, IsInjective
<1>6. f \in Surjection(1..n, 1..n)
  <2> HIDE DEF f
  <2> QED  BY <1>1, <1>5, FS_Injection
<1>7. \A k \in 1..n : \E i \in 1..n : f[i] = k
  <2> HIDE DEF f
  <2> QED  BY <1>6 DEF Surjection
<1> QED  BY <1>1, <1>3, <1>4, <1>7

LEMMA Arranged ==
    ASSUME InPlaces
    PROVE  /\ \A k \in DOMAIN checked : \E i \in DOMAIN checked :
                 Rank(i) = k /\ InOrder[k] = checked[i]
           /\ \A i \in DOMAIN checked : InOrder[Rank(i)] = checked[i]
<1>1. \A i, j \in DOMAIN checked : Rank(i) = Rank(j) => i = j
  <2> SUFFICES ASSUME NEW i \in DOMAIN checked, NEW j \in DOMAIN checked, Rank(i) = Rank(j)
               PROVE  i = j
    OBVIOUS
  <2>1. Rank(i) \in DOMAIN checked /\ DOMAIN checked \subseteq Nat  BY Ranked, LocatedFits
  <2>2. ~(Rank(i) < Rank(j)) /\ ~(Rank(j) < Rank(i))  BY <2>1
  <2> QED  BY <2>2, Ranked, EarlierIsOrder
<1>2. ASSUME NEW k \in DOMAIN checked
      PROVE  \E i \in DOMAIN checked : Rank(i) = k /\ InOrder[k] = checked[i]
  <2>1. \E i \in DOMAIN checked : Rank(i) = k  BY Ranked
  <2> QED  BY <2>1 DEF InOrder
<1> QED  BY <1>1, <1>2, Ranked

LEMMA Ascending ==
    ASSUME InPlaces, ~Overlap, NEW k \in DOMAIN checked, NEW m \in DOMAIN checked, k < m
    PROVE  InOrder[k].last < InOrder[m].first
<1> DEFINE n == Len(checked)
           T == {d \in Nat : k + 1 + d <= n => InOrder[k].last < InOrder[k + 1 + d].first}
<1>1. n \in Nat /\ DOMAIN checked = 1..n  BY LocatedFits
<1>2. \A l \in 1..n : /\ InOrder[l].first \in Nat /\ InOrder[l].last \in Nat
                      /\ InOrder[l].first <= InOrder[l].last
  BY <1>1, Arranged, LocatedFits
<1>3. \A l \in 1..n : l + 1 <= n => InOrder[l].last < InOrder[l + 1].first
  <2> SUFFICES ASSUME NEW l \in 1..n, l + 1 <= n
               PROVE  InOrder[l].last < InOrder[l + 1].first
    OBVIOUS
  <2>1. l + 1 \in 2..n /\ (l + 1) - 1 = l /\ l + 1 \in 1..n  BY <1>1
  <2>2. ~(InOrder[l + 1].first <= InOrder[l].last)  BY <2>1 DEF Overlap
  <2> QED  BY <1>2, <2>1, <2>2
<1>4. 0 \in T  BY <1>1, <1>3
<1>5. ASSUME NEW d \in Nat, d \in T PROVE d + 1 \in T
  <2> SUFFICES ASSUME k + 1 + (d + 1) <= n
               PROVE  InOrder[k].last < InOrder[k + 1 + (d + 1)].first
    OBVIOUS
  <2> DEFINE l == k + 1 + d
  <2>1. l \in 1..n /\ l + 1 \in 1..n /\ l + 1 <= n /\ k + 1 + (d + 1) = l + 1  BY <1>1
  <2>2. InOrder[k].last < InOrder[l].first  BY <1>5, <2>1
  <2> HIDE DEF l
  <2>3. InOrder[l].last < InOrder[l + 1].first /\ InOrder[l].first <= InOrder[l].last
    BY <1>2, <1>3, <2>1
  <2>4. InOrder[k].last \in Nat /\ InOrder[l].first \in Nat /\ InOrder[l].last \in Nat
        /\ InOrder[l + 1].first \in Nat
    BY <1>1, <1>2, <2>1
  <2> DEFINE x == InOrder[k].last
             y == InOrder[l].first
             z == InOrder[l].last
             w == InOrder[l + 1].first
  <2>5. x < y /\ y <= z /\ z < w  BY <2>2, <2>3
  <2>6. x < w
    <3> HIDE DEF x, y, z, w
    <3>1. x \in Nat /\ y \in Nat /\ z \in Nat /\ w \in Nat  BY <2>4 DEF x, y, z, w
    <3> QED  BY <2>5, <3>1
  <2> QED  BY <2>1, <2>6
<1>6. m - (k + 1) \in 0..n /\ k + 1 + (m - (k + 1)) = m  BY <1>1
<1>7. m - (k + 1) \in T
  <2> HIDE DEF T
  <2>1. \A d \in 0..(n - 1) : d \in T => d + 1 \in T  BY <1>1, <1>5
  <2>2. \A d \in 0..n : d \in T  BY <1>1, <1>4, <2>1, UpTo
  <2> QED  BY <1>6, <2>2
<1> QED  BY <1>1, <1>6, <1>7
--------------------------------------------------------------------------------
LEMMA OneEach ==
    ASSUME InPlaces, ~Overlap, NEW l, NEW i \in By(l), NEW j \in By(l)
    PROVE  i = j
<1>1. i \in DOMAIN checked /\ j \in DOMAIN checked
      /\ checked[i].first <= l /\ l <= checked[i].last /\ l \in Int
      /\ checked[j].first <= l /\ l <= checked[j].last
  BY LocatedFits DEF By, Lines
<1>2. /\ InOrder[Rank(i)] = checked[i] /\ InOrder[Rank(j)] = checked[j]
      /\ Rank(i) \in DOMAIN checked /\ Rank(j) \in DOMAIN checked
  BY <1>1, Ranked, Arranged
<1>3. ASSUME NEW a \in DOMAIN checked, NEW b \in DOMAIN checked, Earlier(a, b),
             checked[b].first <= l, l <= checked[a].last
      PROVE  FALSE
  <2>1. checked[a].last < checked[b].first
    BY <1>3, Ranked, Arranged, Ascending
  <2> DEFINE x == checked[a].last
             y == checked[b].first
  <2>2. x \in Nat /\ y \in Nat /\ x < y /\ y <= l /\ l <= x  BY <1>3, <2>1, LocatedFits
  <2> HIDE DEF x, y
  <2> QED  BY <1>1, <2>2
<1> QED  BY <1>1, <1>3, EarlierIsOrder

LEMMA OneAtMost ==
    ASSUME InPlaces, ~Overlap, NEW l
    PROVE  Cardinality(By(l)) <= 1
<1>1. CASE By(l) = {}  BY <1>1, FS_EmptySet
<1>2. ASSUME NEW i \in By(l) PROVE Cardinality(By(l)) <= 1
  <2>1. By(l) = {i}  BY <1>2, OneEach
  <2> QED  BY <2>1, FS_Singleton
<1> QED  BY <1>1, <1>2

(* What becomes of the lines of a block, and of a line outside all blocks. *)
LEMMA Becoming ==
    ASSUME InPlaces, ~Overlap
    PROVE  /\ \A k \in DOMAIN checked : \A l \in InOrder[k].first..InOrder[k].last :
                 Becomes(l) = IF l = InOrder[k].first THEN InOrder[k].new ELSE <<>>
           /\ \A l : (\A k \in DOMAIN checked : l \notin InOrder[k].first..InOrder[k].last)
                     => Becomes(l) = <<text[l]>>
<1>1. ASSUME NEW k \in DOMAIN checked, NEW l \in InOrder[k].first..InOrder[k].last
      PROVE  Becomes(l) = IF l = InOrder[k].first THEN InOrder[k].new ELSE <<>>
  <2>1. PICK i \in DOMAIN checked : InOrder[k] = checked[i]  BY Arranged
  <2>2. i \in By(l)  BY <1>1, <2>1 DEF By, Lines
  <2>3. By(l) = {i}  BY <2>2, OneEach
  <2>4. (CHOOSE j \in By(l) : TRUE) = i  BY <2>3
  <2> QED  BY <2>1, <2>3, <2>4 DEF Becomes
<1>2. ASSUME NEW l, \A k \in DOMAIN checked : l \notin InOrder[k].first..InOrder[k].last
      PROVE  Becomes(l) = <<text[l]>>
  <2>1. ASSUME NEW i \in By(l) PROVE FALSE
    <3>1. i \in DOMAIN checked /\ l \in checked[i].first..checked[i].last  BY DEF By, Lines
    <3>2. Rank(i) \in DOMAIN checked /\ InOrder[Rank(i)] = checked[i]
      BY <3>1, Ranked, Arranged
    <3> QED  BY <1>2, <3>1, <3>2
  <2>2. By(l) = {}  BY <2>1
  <2> QED  BY <2>2 DEF Becomes
<1> QED  BY <1>1, <1>2
--------------------------------------------------------------------------------
\* The beginnings of B, one after the other, in one.
Joined(flat, B) ==
    /\ flat \in [0..Len(B) -> Seq(Line)] /\ flat[0] = <<>>
    /\ \A i \in 1..Len(B) : flat[i] = flat[i - 1] \o B[i]

LEMMA JoinedExists ==
    ASSUME NEW B \in Seq(Seq(Line))
    PROVE  \E flat : Joined(flat, B)
<1> DEFINE n == Len(B)
           G == [k \in 0..n |-> Seq(Line)]
           F == [k \in 1..n |-> [t \in Seq(Line) |-> t \o B[k]]]
<1>1. n \in Nat /\ \A i \in 1..n : B[i] \in Seq(Line)  BY LenProperties
<1>2. <<>> \in Seq(Line) /\ <<>> \in G[0]  BY <1>1
<1>3. \A k \in 1..n : \A t \in G[k - 1] : F[k][t] = t \o B[k] /\ F[k][t] \in G[k]
  <2> SUFFICES ASSUME NEW k \in 1..n, NEW t \in G[k - 1]
               PROVE  F[k][t] = t \o B[k] /\ F[k][t] \in G[k]
    OBVIOUS
  <2>1. k - 1 \in 0..n /\ k \in 0..n  BY <1>1
  <2>2. G[k - 1] = Seq(Line) /\ G[k] = Seq(Line)  BY <2>1
  <2>3. t \in Seq(Line) /\ B[k] \in Seq(Line)  BY <1>1, <2>2
  <2>4. t \o B[k] \in Seq(Line)  BY <2>3, ConcatProperties
  <2> QED  BY <2>2, <2>3, <2>4
<1> HIDE DEF F, G
<1>4. PICK f : Iterates(f, F, G, n, <<>>)  BY <1>1, <1>2, <1>3, Iterated DEF Leads
<1> USE DEF Iterates
<1> DEFINE flat == [k \in 0..n |-> f[k]]
<1>5. flat \in [0..n -> Seq(Line)]  BY <1>4 DEF G
<1>6. flat[0] = <<>>  BY <1>1, <1>4
<1>7. ASSUME NEW k \in 1..n PROVE flat[k] = flat[k - 1] \o B[k]
  <2>1. k \in 0..n /\ k - 1 \in 0..n  BY <1>1
  <2>2. f[k] = f[k - 1] \o B[k]  BY <1>3, <1>4, <2>1
  <2> QED  BY <2>1, <2>2
<1>8. Joined(flat, B)
  <2> HIDE DEF flat
  <2> QED  BY <1>5, <1>6, <1>7 DEF Joined
<1> QED  BY <1>8

LEMMA JoinedIsFlat ==
    ASSUME NEW B \in Seq(Seq(Line)), NEW flat, Joined(flat, B)
    PROVE  FlattenSeq(B) = flat[Len(B)]
<1> DEFINE n == Len(B)
           flatten == CHOOSE f : f = [i \in 1..n |-> IF i = 1 THEN B[i] ELSE f[i - 1] \o B[i]]
<1>1. n \in Nat /\ (\A i \in 1..n : B[i] \in Seq(Line))  BY LenProperties
<1>2. CASE n = 0
  <2>1. B = <<>>  BY <1>2, EmptySeq
  <2> QED  BY <1>2, <2>1 DEF FlattenSeq, Joined
<1>3. CASE n # 0
  <2> DEFINE g == [i \in 1..n |-> flat[i]]
  <2>1. \A i \in 1..n : g[i] = IF i = 1 THEN B[i] ELSE g[i - 1] \o B[i]
    <3> SUFFICES ASSUME NEW i \in 1..n PROVE g[i] = IF i = 1 THEN B[i] ELSE g[i - 1] \o B[i]
      OBVIOUS
    <3>1. flat[i] = flat[i - 1] \o B[i] /\ flat[0] = <<>>  BY DEF Joined
    <3>2. CASE i = 1
      <4>1. B[i] \in Seq(Line) /\ i - 1 = 0  BY <1>1, <3>2
      <4>2. <<>> \o B[i] = B[i]  BY <4>1, ConcatEmptySeq
      <4> QED  BY <3>1, <3>2, <4>1, <4>2
    <3>3. CASE i # 1
      <4>1. i - 1 \in 1..n  BY <1>1, <3>3
      <4> QED  BY <3>1, <3>3, <4>1
    <3> QED  BY <3>2, <3>3
  <2>2. g = [i \in 1..n |-> IF i = 1 THEN B[i] ELSE g[i - 1] \o B[i]]  BY <2>1
  <2>3. flatten = [i \in 1..n |-> IF i = 1 THEN B[i] ELSE flatten[i - 1] \o B[i]]
    <3> HIDE DEF g
    <3> QED  BY <2>2
  <2>4. FlattenSeq(B) = flatten[n]  BY <1>3 DEF FlattenSeq
  <2> HIDE DEF flatten
  <2> DEFINE T == {d \in 0..(n - 1) : flatten[d + 1] = g[d + 1]}
  <2>5. 0 \in T
    <3>1. 1 \in 1..n  BY <1>1, <1>3
    <3>2. flatten[1] = B[1]  BY <2>3, <3>1
    <3>3. g[1] = B[1]  BY <2>1, <3>1
    <3> QED  BY <1>1, <1>3, <3>2, <3>3
  <2> HIDE DEF g
  <2>6. ASSUME NEW d \in 0..((n - 1) - 1), d \in T PROVE d + 1 \in T
    <3>1. d + 2 \in 1..n /\ d + 2 # 1 /\ (d + 2) - 1 = d + 1 /\ (d + 1) + 1 = d + 2
          /\ d + 1 \in 0..(n - 1)
      BY <1>1, <1>3
    <3>2. flatten[d + 2] = flatten[d + 1] \o B[d + 2]  BY <2>3, <3>1
    <3>3. g[d + 2] = g[d + 1] \o B[d + 2]  BY <2>1, <3>1
    <3> QED  BY <2>6, <3>1, <3>2, <3>3
  <2>7. n - 1 \in T
    <3>1. n - 1 \in Nat /\ n - 1 \in 0..(n - 1)  BY <1>1, <1>3
    <3> HIDE DEF T
    <3> QED  BY <2>5, <2>6, <3>1, UpTo
  <2>8. (n - 1) + 1 = n /\ n \in 1..n  BY <1>1, <1>3
  <2> QED  BY <2>4, <2>7, <2>8 DEF g
<1> QED  BY <1>2, <1>3
--------------------------------------------------------------------------------
LEMMA Part ==
    ASSUME NEW S, NEW t \in Seq(S), NEW a \in Nat, NEW b \in Nat, a <= b, b <= Len(t)
    PROVE  /\ SubSeq(t, a + 1, b) \in Seq(S) /\ Len(SubSeq(t, a + 1, b)) = b - a
           /\ \A k \in 1..(b - a) : SubSeq(t, a + 1, b)[k] = t[a + k]
<1>1. \A i \in (a + 1)..b : t[i] \in S  OBVIOUS
<1>2. /\ SubSeq(t, a + 1, b) \in Seq(S)
      /\ Len(SubSeq(t, a + 1, b)) = IF a + 1 <= b THEN b - (a + 1) + 1 ELSE 0
      /\ \A k \in 1..(b - (a + 1) + 1) : SubSeq(t, a + 1, b)[k] = t[(a + 1) + k - 1]
  BY <1>1, SubSeqProperties
<1>3. \A k \in 1..(b - a) : (a + 1) + k - 1 = a + k /\ k \in 1..(b - (a + 1) + 1)
  OBVIOUS
<1> QED  BY <1>2, <1>3

LEMMA ConcatAt ==
    ASSUME NEW S, NEW s \in Seq(S), NEW t \in Seq(S), NEW m, m = Len(s),
           NEW n, n = Len(s) + Len(t)
    PROVE  /\ s \o t \in Seq(S) /\ Len(s \o t) = n
           /\ \A k \in 1..n : (s \o t)[k] = IF k <= m THEN s[k] ELSE t[k - m]
BY ConcatProperties

LEMMA Reassociated ==
    \A s1, s2, s3 \in Seq(Line) : (s1 \o s2) \o s3 = s1 \o (s2 \o s3)
BY ConcatAssociative

LEMMA PartGrows ==
    ASSUME NEW S, NEW t \in Seq(S), NEW a \in Nat, NEW b \in Nat, a <= b, b + 1 <= Len(t)
    PROVE  SubSeq(t, a + 1, b + 1) = SubSeq(t, a + 1, b) \o <<t[b + 1]>>
<1> DEFINE x == SubSeq(t, a + 1, b)
           y == SubSeq(t, a + 1, b + 1)
           z == <<t[b + 1]>>
<1>1. /\ x \in Seq(S) /\ Len(x) = b - a /\ \A k \in 1..(b - a) : x[k] = t[a + k]
  BY Part
<1>2. /\ y \in Seq(S) /\ Len(y) = b + 1 - a /\ \A k \in 1..(b + 1 - a) : y[k] = t[a + k]
  BY Part
<1>3. z \in Seq(S) /\ Len(z) = 1 /\ z[1] = t[b + 1]  OBVIOUS
<1> HIDE DEF x, y, z
<1>4. /\ x \o z \in Seq(S) /\ Len(x \o z) = b + 1 - a
      /\ \A k \in 1..(b + 1 - a) : (x \o z)[k] = IF k <= b - a THEN x[k] ELSE z[k - (b - a)]
  <2> DEFINE m == b - a
             n == b + 1 - a
  <2>1. m = Len(x) /\ n = Len(x) + Len(z)  BY <1>1, <1>3
  <2>2. x \in Seq(S) /\ z \in Seq(S)  BY <1>1, <1>3
  <2> HIDE DEF m, n
  <2>3. /\ x \o z \in Seq(S) /\ Len(x \o z) = n
        /\ \A k \in 1..n : (x \o z)[k] = IF k <= m THEN x[k] ELSE z[k - m]
    BY <2>1, <2>2, ConcatAt
  <2> QED  BY <2>3 DEF m, n
<1>5. \A k \in 1..(b + 1 - a) : (x \o z)[k] = y[k]
  <2> SUFFICES ASSUME NEW k \in 1..(b + 1 - a) PROVE (x \o z)[k] = y[k]
    OBVIOUS
  <2>1. CASE k <= b - a  BY <1>1, <1>2, <1>4, <2>1
  <2>2. CASE ~(k <= b - a)
    <3>1. k = b + 1 - a /\ k - (b - a) = 1 /\ a + k = b + 1  BY <2>2
    <3> QED  BY <1>2, <1>3, <1>4, <2>2, <3>1
  <2> QED  BY <2>1, <2>2
<1>6. y = x \o z  BY <1>2, <1>4, <1>5, SeqEqual
<1> QED  BY <1>6 DEF x, y, z

LEMMA CutOff ==
    ASSUME NEW S, NEW t \in Seq(S), NEW s \in Seq(S), NEW a \in Nat, NEW c \in Nat,
           a <= c, c <= Len(t), NEW u, u = SubSeq(t, 1, c) \o s
    PROVE  /\ u \in Seq(S) /\ SubSeq(u, 1, a) = SubSeq(t, 1, a)
           /\ SubSeq(u, a + 1, Len(u)) = SubSeq(t, a + 1, c) \o s
<1> DEFINE x == SubSeq(t, 1, c)
           n == Len(s)
<1>1. /\ x \in Seq(S) /\ Len(x) = c /\ \A k \in 1..c : x[k] = t[k]
  <2>1. SubSeq(t, 0 + 1, c) = x  OBVIOUS
  <2>2. /\ SubSeq(t, 0 + 1, c) \in Seq(S) /\ Len(SubSeq(t, 0 + 1, c)) = c - 0
        /\ \A k \in 1..(c - 0) : SubSeq(t, 0 + 1, c)[k] = t[0 + k]
    BY Part
  <2> QED  BY <2>1, <2>2
<1>2. n \in Nat  OBVIOUS
<1> HIDE DEF x
<1>3. /\ u \in Seq(S) /\ Len(u) = c + n
      /\ \A k \in 1..(c + n) : u[k] = IF k <= c THEN t[k] ELSE s[k - c]
  <2>1. u = x \o s  BY DEF x
  <2> QED  BY <1>1, <2>1, ConcatProperties
<1>4. SubSeq(u, 1, a) = SubSeq(t, 1, a)
  <2> DEFINE y == SubSeq(u, 1, a)
             z == SubSeq(t, 1, a)
  <2>1. y = SubSeq(u, 0 + 1, a) /\ z = SubSeq(t, 0 + 1, a)  OBVIOUS
  <2> HIDE DEF y, z
  <2>2. /\ y \in Seq(S) /\ Len(y) = a - 0 /\ \A k \in 1..(a - 0) : y[k] = u[0 + k]
    BY <1>2, <1>3, <2>1, Part
  <2>3. /\ z \in Seq(S) /\ Len(z) = a - 0 /\ \A k \in 1..(a - 0) : z[k] = t[0 + k]
    BY <2>1, Part
  <2>4. Len(y) = a /\ Len(z) = a /\ \A k \in 1..a : y[k] = z[k]
    <3>1. a - 0 = a /\ \A k \in 1..a : 0 + k = k  OBVIOUS
    <3>2. \A k \in 1..a : u[k] = t[k]  BY <1>2, <1>3
    <3> QED  BY <2>2, <2>3, <3>1, <3>2
  <2>5. y = z  BY <2>2, <2>3, <2>4, SeqEqual
  <2> QED  BY <2>5 DEF y, z
<1>5. SubSeq(u, a + 1, Len(u)) = SubSeq(t, a + 1, c) \o s
  <2> DEFINE y == SubSeq(u, a + 1, c + n)
             z == SubSeq(t, a + 1, c)
  <2>1. /\ y \in Seq(S) /\ Len(y) = c + n - a /\ \A k \in 1..(c + n - a) : y[k] = u[a + k]
    BY <1>2, <1>3, Part
  <2>2. /\ z \in Seq(S) /\ Len(z) = c - a /\ \A k \in 1..(c - a) : z[k] = t[a + k]
    BY Part
  <2> HIDE DEF y, z
  <2>3. /\ z \o s \in Seq(S) /\ Len(z \o s) = c + n - a
        /\ \A k \in 1..(c + n - a) : (z \o s)[k] = IF k <= c - a THEN z[k] ELSE s[k - (c - a)]
    <3> DEFINE m == c - a
               w == c + n - a
    <3>1. m = Len(z) /\ w = Len(z) + Len(s)  BY <1>2, <2>2
    <3>2. z \in Seq(S)  BY <2>2
    <3> HIDE DEF m, w
    <3>3. /\ z \o s \in Seq(S) /\ Len(z \o s) = w
          /\ \A k \in 1..w : (z \o s)[k] = IF k <= m THEN z[k] ELSE s[k - m]
      BY <3>1, <3>2, ConcatAt
    <3> QED  BY <3>3 DEF m, w
  <2>4. \A k \in 1..(c + n - a) : (z \o s)[k] = y[k]
    <3> SUFFICES ASSUME NEW k \in 1..(c + n - a) PROVE (z \o s)[k] = y[k]
      OBVIOUS
    <3>1. a + k \in 1..(c + n) /\ k - (c - a) = a + k - c  BY <1>2
    <3>2. CASE k <= c - a
      <4>1. a + k <= c /\ k \in 1..(c - a)  BY <3>2
      <4> QED  BY <1>3, <2>1, <2>2, <2>3, <3>1, <3>2, <4>1
    <3>3. CASE ~(k <= c - a)
      <4>1. ~(a + k <= c)  BY <3>3
      <4>2. y[k] = s[(a + k) - c]  BY <1>3, <2>1, <3>1, <4>1
      <4>3. (z \o s)[k] = s[k - (c - a)]  BY <2>3, <3>3
      <4> QED  BY <3>1, <4>2, <4>3
    <3> QED  BY <3>2, <3>3
  <2>5. y = z \o s  BY <2>1, <2>3, <2>4, SeqEqual
  <2> QED  BY <1>3, <2>5 DEF y, z
<1> QED  BY <1>3, <1>4, <1>5
--------------------------------------------------------------------------------
Become == [l \in DOMAIN text |-> Becomes(l)]

\* The line before block k, or the last line of the file.
Cut(k) == IF k = Len(checked) + 1 THEN Len(text) ELSE InOrder[k].first - 1

LEMMA BecomeFits ==
    ASSUME InPlaces
    PROVE  Become \in Seq(Seq(Line)) /\ Len(Become) = Len(text)
           /\ \A l \in 1..Len(text) : Become[l] = Becomes(l)
<1>1. Len(text) \in Nat /\ DOMAIN text = 1..Len(text)
      /\ \A l \in 1..Len(text) : text[l] \in Line
  BY LenProperties DEF InPlaces
<1>2. ASSUME NEW l \in 1..Len(text) PROVE Becomes(l) \in Seq(Line)
  <2>1. CASE By(l) = {}
    <3>1. <<text[l]>> \in Seq(Line)  BY <1>1
    <3> QED  BY <2>1, <3>1 DEF Becomes
  <2>2. CASE By(l) # {}
    <3> DEFINE i == CHOOSE i \in By(l) : TRUE
    <3>1. i \in By(l)  BY <2>2
    <3>2. i \in DOMAIN checked  BY <3>1 DEF By
    <3>3. checked[i].new \in Seq(Line) /\ <<>> \in Seq(Line)  BY <3>2, LocatedFits
    <3> QED  BY <2>2, <3>3 DEF Becomes
  <2> QED  BY <2>1, <2>2
<1>3. Become \in [1..Len(text) -> Seq(Line)]  BY <1>1, <1>2 DEF Become
<1> QED  BY <1>1, <1>3 DEF Become

LEMMA CutFits ==
    ASSUME InPlaces, ~Overlap, NEW k \in DOMAIN checked
    PROVE  /\ InOrder[k].first \in Nat \ {0} /\ InOrder[k].last \in Nat
           /\ InOrder[k].new \in Seq(Line)
           /\ Cut(k) = InOrder[k].first - 1 /\ Cut(k) \in Nat /\ Cut(k + 1) \in Nat
           /\ InOrder[k].first <= InOrder[k].last /\ InOrder[k].last <= Cut(k + 1)
           /\ Cut(k + 1) <= Len(text)
<1> DEFINE n == Len(checked)
<1>1. n \in Nat /\ DOMAIN checked = 1..n /\ Len(text) \in Nat
  BY LocatedFits, LenProperties DEF InPlaces
<1>2. \A m \in 1..n : /\ InOrder[m].first \in Nat \ {0} /\ InOrder[m].last \in Nat
                      /\ InOrder[m].first <= InOrder[m].last /\ InOrder[m].last <= Len(text)
                      /\ InOrder[m].new \in Seq(Line)
  BY <1>1, Arranged, LocatedFits
<1>3. Cut(k) = InOrder[k].first - 1 /\ Cut(k) \in Nat  BY <1>1, <1>2 DEF Cut
<1>4. CASE k = n
  <2>1. Cut(k + 1) = Len(text)  BY <1>4 DEF Cut
  <2> DEFINE x == InOrder[k].last
  <2>2. x \in Nat /\ x <= Len(text)  BY <1>1, <1>2
  <2>3. x <= Cut(k + 1) /\ Cut(k + 1) \in Nat /\ Cut(k + 1) <= Len(text)
    BY <1>1, <2>1, <2>2
  <2> QED  BY <1>1, <1>2, <1>3, <2>3
<1>5. CASE k # n
  <2> DEFINE m == k + 1
             x == InOrder[k].last
             y == InOrder[m].first
  <2>1. m \in 1..n /\ k < m /\ m # n + 1  BY <1>1, <1>5
  <2>2. x < y  BY <1>1, <2>1, Ascending
  <2>3. x \in Nat /\ y \in Nat \ {0} /\ y <= Len(text)
    <3>1. y <= InOrder[m].last /\ InOrder[m].last <= Len(text) /\ InOrder[m].last \in Nat
          /\ y \in Nat \ {0}
      BY <1>2, <2>1
    <3>2. x \in Nat  BY <1>1, <1>2
    <3> HIDE DEF x, y, m
    <3> QED  BY <1>1, <3>1, <3>2
  <2>4. Cut(m) = y - 1  BY <2>1 DEF Cut
  <2>5. x <= Cut(m) /\ Cut(m) \in Nat /\ Cut(m) <= Len(text)
    <3> HIDE DEF x, y, m
    <3> QED  BY <1>1, <2>2, <2>3, <2>4
  <2> QED  BY <1>1, <1>2, <1>3, <2>5
<1> QED  BY <1>4, <1>5

(* Lines that no block names stay as they are ...                          *)
LEMMA Stay ==
    ASSUME InPlaces, NEW flat, Joined(flat, Become),
           NEW a \in Nat, NEW b \in Nat, a <= b, b <= Len(text),
           \A l \in (a + 1)..b : Becomes(l) = <<text[l]>>
    PROVE  flat[b] = flat[a] \o SubSeq(text, a + 1, b)
<1>1. text \in Seq(Line) /\ Len(text) \in Nat  BY DEF InPlaces
<1>2. /\ \A i \in 0..Len(text) : flat[i] \in Seq(Line)
      /\ \A i \in 1..Len(text) : flat[i] = flat[i - 1] \o Becomes(i)
  BY BecomeFits DEF Joined
<1> DEFINE T == {d \in 0..(b - a) : flat[a + d] = flat[a] \o SubSeq(text, a + 1, a + d)}
<1>3. 0 \in T
  <2>1. SubSeq(text, a + 1, a) = <<>>
    <3>1. a + 1 \in Int /\ a \in Int /\ a < a + 1  OBVIOUS
    <3> QED  BY <3>1, SubSeqEmpty
  <2>2. flat[a] \o <<>> = flat[a]  BY <1>1, <1>2, ConcatEmptySeq
  <2>3. a + 0 = a /\ 0 \in 0..(b - a)  OBVIOUS
  <2> QED  BY <2>1, <2>2, <2>3
<1>4. ASSUME NEW d \in 0..((b - a) - 1), d \in T PROVE d + 1 \in T
  <2> DEFINE m == a + d
  <2>1. m \in Nat /\ m + 1 \in 1..Len(text) /\ m + 1 \in (a + 1)..b /\ (m + 1) - 1 = m
        /\ a + (d + 1) = m + 1 /\ d + 1 \in 0..(b - a) /\ a <= m /\ m + 1 <= Len(text)
        /\ a \in 0..Len(text) /\ m <= Len(text)
    BY <1>1
  <2>2. flat[m] = flat[a] \o SubSeq(text, a + 1, m)  BY <1>4
  <2> HIDE DEF m
  <2>3. flat[m + 1] = (flat[a] \o SubSeq(text, a + 1, m)) \o <<text[m + 1]>>
    BY <1>2, <2>1, <2>2
  <2>4. SubSeq(text, a + 1, m + 1) = SubSeq(text, a + 1, m) \o <<text[m + 1]>>
    BY <1>1, <2>1, PartGrows
  <2>5. flat[a] \in Seq(Line) /\ SubSeq(text, a + 1, m) \in Seq(Line)
        /\ <<text[m + 1]>> \in Seq(Line)
    <3>1. text[m + 1] \in Line  BY <1>1, <2>1
    <3> QED  BY <1>1, <1>2, <2>1, <3>1, Part
  <2>6. flat[m + 1] = flat[a] \o SubSeq(text, a + 1, m + 1)
    <3>1. (flat[a] \o SubSeq(text, a + 1, m)) \o <<text[m + 1]>>
          = flat[a] \o (SubSeq(text, a + 1, m) \o <<text[m + 1]>>)
      BY <2>5, Reassociated
    <3> QED  BY <2>3, <2>4, <3>1
  <2> QED  BY <2>1, <2>6
<1>5. b - a \in Nat /\ b - a \in 0..(b - a) /\ a + (b - a) = b  OBVIOUS
<1>6. b - a \in T
  <2> HIDE DEF T
  <2> DEFINE n == b - a
  <2>1. n \in Nat /\ n \in 0..n /\ \A d \in 0..(n - 1) : d \in T => d + 1 \in T
    BY <1>4, <1>5
  <2> HIDE DEF n
  <2>2. n \in T  BY <1>3, <2>1, UpTo
  <2> QED  BY <2>2 DEF n
<1> QED  BY <1>5, <1>6

(* ... and the lines of a block become the replacement.                    *)
LEMMA Become1 ==
    ASSUME InPlaces, ~Overlap, NEW flat, Joined(flat, Become), NEW k \in DOMAIN checked
    PROVE  flat[InOrder[k].last] = flat[Cut(k)] \o InOrder[k].new
<1> DEFINE a == InOrder[k].first
           b == InOrder[k].last
           new == InOrder[k].new
<1>1. /\ a \in Nat \ {0} /\ b \in Nat /\ a <= b /\ b <= Len(text) /\ new \in Seq(Line)
      /\ Cut(k) = a - 1 /\ Len(text) \in Nat
  <2>1. Cut(k + 1) \in Nat /\ Len(text) \in Nat  BY CutFits DEF InPlaces
  <2> QED  BY <2>1, CutFits
<1>2. \A l \in a..b : Becomes(l) = IF l = a THEN new ELSE <<>>  BY Becoming
<1>3. /\ \A i \in 0..Len(text) : flat[i] \in Seq(Line)
      /\ \A i \in 1..Len(text) : flat[i] = flat[i - 1] \o Becomes(i)
  BY BecomeFits DEF Joined
<1> HIDE DEF a, b, new
<1> DEFINE T == {d \in 0..(b - a) : flat[a + d] = flat[a]}
<1>4. 0 \in T
  <2>1. a + 0 = a /\ 0 \in 0..(b - a)  BY <1>1
  <2> QED  BY <2>1
<1>5. ASSUME NEW d \in 0..((b - a) - 1), d \in T PROVE d + 1 \in T
  <2> DEFINE m == a + d
  <2>1. m + 1 \in a..b /\ m + 1 # a /\ m + 1 \in 1..Len(text) /\ (m + 1) - 1 = m
        /\ a + (d + 1) = m + 1 /\ d + 1 \in 0..(b - a) /\ m \in 0..Len(text)
    BY <1>1
  <2>2. flat[m] = flat[a]  BY <1>5
  <2> HIDE DEF m
  <2>3. flat[m + 1] = flat[m] \o <<>>  BY <1>2, <1>3, <2>1
  <2>4. flat[m] \o <<>> = flat[m]  BY <1>3, <2>1, ConcatEmptySeq
  <2> QED  BY <2>1, <2>2, <2>3, <2>4
<1>6. b - a \in T
  <2> HIDE DEF T
  <2> DEFINE n == b - a
  <2>1. n \in Nat /\ n \in 0..n /\ \A d \in 0..(n - 1) : d \in T => d + 1 \in T
    BY <1>1, <1>5
  <2> HIDE DEF n
  <2>2. n \in T  BY <1>4, <2>1, UpTo
  <2> QED  BY <2>2 DEF n
<1>7. flat[b] = flat[a]
  <2>1. a + (b - a) = b  BY <1>1
  <2> QED  BY <1>6, <2>1
<1>8. flat[a] = flat[a - 1] \o new
  <2>1. a \in a..b /\ a \in 1..Len(text)  BY <1>1
  <2> QED  BY <1>2, <1>3, <2>1
<1> QED  BY <1>1, <1>7, <1>8 DEF a, b, new

(* From before one block to before the next one.                           *)
LEMMA Advance ==
    ASSUME InPlaces, ~Overlap, NEW flat, Joined(flat, Become), NEW k \in DOMAIN checked
    PROVE  flat[Cut(k + 1)] =
             flat[Cut(k)] \o (InOrder[k].new \o SubSeq(text, InOrder[k].last + 1, Cut(k + 1)))
<1> DEFINE a == InOrder[k].last
           b == Cut(k + 1)
           x == flat[Cut(k)]
           y == InOrder[k].new
           z == SubSeq(text, a + 1, b)
<1>1. /\ a \in Nat /\ b \in Nat /\ a <= b /\ b <= Len(text) /\ y \in Seq(Line)
      /\ Cut(k) \in Nat /\ Cut(k) <= Len(text)
  <2> DEFINE f == InOrder[k].first
  <2>1. /\ a \in Nat /\ b \in Nat /\ f \in Nat /\ f <= a /\ a <= b /\ b <= Len(text)
        /\ y \in Seq(Line) /\ Cut(k) = f - 1 /\ Cut(k) \in Nat /\ Len(text) \in Nat
    BY CutFits DEF InPlaces
  <2> HIDE DEF a, b, f, y
  <2> QED  BY <2>1
<1>2. \A l \in (a + 1)..b : Becomes(l) = <<text[l]>>
  <2> SUFFICES ASSUME NEW l \in (a + 1)..b PROVE Becomes(l) = <<text[l]>>
    OBVIOUS
  <2>1. ASSUME NEW m \in DOMAIN checked, l \in InOrder[m].first..InOrder[m].last
        PROVE  FALSE
    <3> DEFINE f == InOrder[m].first
               g == InOrder[m].last
    <3>1. f \in Nat /\ g \in Nat /\ f <= g /\ f <= l /\ l <= g /\ l \in Int
      BY <2>1, CutFits
    <3>2. k \in Nat /\ m \in Nat /\ k + 1 \in Nat  BY LocatedFits
    <3>3. CASE m < k
      <4>1. g < InOrder[k].first  BY <3>3, Ascending
      <4>2. InOrder[k].first \in Nat /\ InOrder[k].first <= a  BY CutFits
      <4> DEFINE c == InOrder[k].first
      <4> HIDE DEF a, b, c, f, g
      <4> QED  BY <1>1, <3>1, <4>1, <4>2 DEF c
    <3>4. CASE m = k  BY <1>1, <3>1, <3>4
    <3>5. CASE m > k
      <4>1. k + 1 \in DOMAIN checked /\ k + 1 # Len(checked) + 1 /\ k + 1 <= m
        BY <3>5, LocatedFits
      <4> DEFINE c == InOrder[k + 1].first
      <4>2. b = c - 1 /\ c \in Nat /\ c <= InOrder[k + 1].last /\ InOrder[k + 1].last \in Nat
        BY <4>1, CutFits
      <4>3. c <= f
        <5>1. CASE m = k + 1  BY <3>1, <4>2, <5>1
        <5>2. CASE m # k + 1
          <6>1. k + 1 < m  BY <3>2, <4>1, <5>2
          <6>2. InOrder[k + 1].last < f  BY <4>1, <6>1, Ascending
          <6> DEFINE d == InOrder[k + 1].last
          <6>3. c <= d /\ d < f /\ d \in Nat  BY <4>2, <6>2
          <6> HIDE DEF c, d, f
          <6> QED  BY <3>1, <4>2, <6>3
        <5> QED  BY <5>1, <5>2
      <4> HIDE DEF a, b, c, f, g
      <4> QED  BY <1>1, <3>1, <4>2, <4>3
    <3> QED  BY <3>2, <3>3, <3>4, <3>5
  <2> QED  BY <2>1, Becoming
<1>3. flat[b] = flat[a] \o z
  <2> HIDE DEF a, b
  <2> QED  BY <1>1, <1>2, Stay
<1>4. flat[a] = x \o y  BY Become1
<1>5. x \in Seq(Line) /\ z \in Seq(Line)
  <2>1. text \in Seq(Line) /\ Len(text) \in Nat  BY DEF InPlaces
  <2>2. \A i \in 0..Len(text) : flat[i] \in Seq(Line)  BY BecomeFits DEF Joined
  <2>3. x \in Seq(Line)
    <3> DEFINE c == Cut(k)
    <3>1. c \in Nat /\ c <= Len(text)  BY <1>1
    <3> HIDE DEF c
    <3>2. flat[c] \in Seq(Line)  BY <2>1, <2>2, <3>1
    <3> QED  BY <3>2 DEF c
  <2>4. z \in Seq(Line)
    <3> HIDE DEF a, b
    <3> QED  BY <1>1, <2>1, Part
  <2> QED  BY <2>3, <2>4
<1>6. (x \o y) \o z = x \o (y \o z)
  BY <1>1, <1>5, Reassociated
<1> QED  BY <1>3, <1>4, <1>6

LEMMA BeforeFirst ==
    ASSUME InPlaces, ~Overlap, NEW flat, Joined(flat, Become)
    PROVE  /\ Cut(1) \in Nat /\ Cut(1) <= Len(text)
           /\ flat[Cut(1)] = SubSeq(text, 1, Cut(1))
<1> DEFINE b == Cut(1)
<1>1. text \in Seq(Line) /\ Len(text) \in Nat
      /\ Len(checked) \in Nat /\ DOMAIN checked = 1..Len(checked)
  BY LocatedFits DEF InPlaces
<1>2. b \in Nat /\ b <= Len(text)
  <2>1. CASE checked = <<>>
    <3>1. b = Len(text)  BY <2>1 DEF Cut
    <3> QED  BY <1>1, <3>1
  <2>2. CASE checked # <<>>
    <3>1. 1 \in DOMAIN checked  BY <1>1, <2>2, EmptySeq DEF InPlaces
    <3> DEFINE f == InOrder[1].first
               g == InOrder[1].last
               c == Cut(1 + 1)
    <3>2. f \in Nat /\ g \in Nat /\ c \in Nat /\ b = f - 1 /\ b \in Nat
          /\ f <= g /\ g <= c /\ c <= Len(text)
      BY <3>1, CutFits
    <3> HIDE DEF b, c, f, g
    <3> QED  BY <1>1, <3>2
  <2> QED  BY <2>1, <2>2
<1>3. \A l \in (0 + 1)..b : Becomes(l) = <<text[l]>>
  <2> SUFFICES ASSUME NEW l \in 1..b PROVE Becomes(l) = <<text[l]>>
    BY <1>2
  <2>1. ASSUME NEW m \in DOMAIN checked, l \in InOrder[m].first..InOrder[m].last
        PROVE  FALSE
    <3> DEFINE f == InOrder[m].first
               c == InOrder[1].first
               d == InOrder[1].last
    <3>1. f \in Nat /\ f <= l /\ l \in Int /\ l <= b  BY <1>2, <2>1, CutFits
    <3>2. 1 \in DOMAIN checked /\ m \in Nat /\ 1 <= m  BY <1>1
    <3>3. b = c - 1 /\ c \in Nat /\ d \in Nat /\ c <= d  BY <3>2, CutFits
    <3>4. c <= f
      <4>1. CASE m = 1  BY <3>1, <4>1
      <4>2. CASE m # 1
        <5>1. 1 < m  BY <3>2, <4>2
        <5>2. d < f  BY <3>2, <5>1, Ascending
        <5> HIDE DEF c, d, f
        <5> QED  BY <3>1, <3>3, <5>2
      <4> QED  BY <4>1, <4>2
    <3> HIDE DEF b, c, d, f
    <3> QED  BY <1>2, <3>1, <3>3, <3>4
  <2> QED  BY <2>1, Becoming
<1>4. flat[b] = flat[0] \o SubSeq(text, 0 + 1, b)
  <2> HIDE DEF b
  <2>1. 0 \in Nat /\ 0 <= b  BY <1>2
  <2> QED  BY <1>2, <1>3, <2>1, Stay
<1>5. flat[0] = <<>>  BY DEF Joined
<1>6. SubSeq(text, 1, b) \in Seq(Line)
  <2> HIDE DEF b
  <2>1. SubSeq(text, 0 + 1, b) \in Seq(Line)  BY <1>1, <1>2, Part
  <2> QED  BY <2>1
<1>7. <<>> \o SubSeq(text, 1, b) = SubSeq(text, 1, b)  BY <1>6, ConcatEmptySeq
<1> QED  BY <1>2, <1>4, <1>5, <1>7

\* Blocks k and below are still to be put into t.
Good(flat, t, k) == \E s \in Seq(Line) : /\ t = SubSeq(text, 1, Cut(k)) \o s
                                         /\ flat[Len(text)] = flat[Cut(k)] \o s

LEMMA GoodAtFirst ==
    ASSUME InPlaces, ~Overlap, NEW flat, Joined(flat, Become)
    PROVE  Good(flat, text, Len(checked) + 1)
<1> DEFINE b == Len(text)
<1>1. text \in Seq(Line) /\ b \in Nat /\ Cut(Len(checked) + 1) = b
  BY DEF InPlaces, Cut
<1>2. flat[b] \in Seq(Line) /\ <<>> \in Seq(Line)
  <2>1. \A i \in 0..b : flat[i] \in Seq(Line)  BY BecomeFits DEF Joined
  <2> QED  BY <1>1, <2>1
<1>3. flat[b] = flat[b] \o <<>>  BY <1>2, ConcatEmptySeq
<1>4. text = text \o <<>>  BY <1>1, ConcatEmptySeq
<1>5. SubSeq(text, 1, b) = text
  <2> DEFINE x == SubSeq(text, 1, b)
  <2>1. /\ SubSeq(text, 0 + 1, b) \in Seq(Line) /\ Len(SubSeq(text, 0 + 1, b)) = b - 0
        /\ \A k \in 1..(b - 0) : SubSeq(text, 0 + 1, b)[k] = text[0 + k]
    <3> HIDE DEF b
    <3>1. b <= Len(text)  BY <1>1 DEF b
    <3> QED  BY <1>1, <3>1, Part
  <2>2. x \in Seq(Line) /\ Len(x) = b /\ \A k \in 1..b : x[k] = text[k]
    BY <1>1, <2>1
  <2> HIDE DEF x
  <2>3. x = text  BY <1>1, <2>2, SeqEqual
  <2> QED  BY <2>3 DEF x
<1> QED  BY <1>1, <1>2, <1>3, <1>4, <1>5 DEF Good

\* What is behind line a of a text that was cut off after line c.
LEMMA LinesBehind ==
    ASSUME NEW t \in Seq(Line), NEW s \in Seq(Line), NEW a \in Nat, NEW c \in Nat,
           a <= c, c <= Len(t)
    PROVE  LET u == SubSeq(t, 1, c) \o s
           IN  SubSeq(u, a + 1, Len(u)) = SubSeq(t, a + 1, c) \o s
BY CutOff

(* Block k is put into a text that holds the blocks after it.              *)
LEMMA PutStep ==
    ASSUME InPlaces, ~Overlap, NEW flat, Joined(flat, Become), NEW k \in DOMAIN checked,
           NEW t \in Seq(Line), Good(flat, t, k + 1)
    PROVE  Put(t, InOrder[k]) \in Seq(Line) /\ Good(flat, Put(t, InOrder[k]), k)
<1> DEFINE p == InOrder[k]
           a == Cut(k)
           l == p.last
           c == Cut(k + 1)
           new == p.new
           gap == SubSeq(text, l + 1, c)
<1>1. PICK s \in Seq(Line) : /\ t = SubSeq(text, 1, c) \o s
                             /\ flat[Len(text)] = flat[c] \o s
  BY DEF Good
<1>2. /\ a \in Nat /\ l \in Nat /\ c \in Nat /\ a <= l /\ l <= c /\ c <= Len(text)
      /\ new \in Seq(Line) /\ p.first - 1 = a /\ text \in Seq(Line) /\ Len(text) \in Nat
  <2> DEFINE f == InOrder[k].first
  <2>1. /\ a \in Nat /\ l \in Nat /\ c \in Nat /\ f \in Nat /\ f <= l /\ l <= c
        /\ c <= Len(text) /\ new \in Seq(Line) /\ a = f - 1
        /\ text \in Seq(Line) /\ Len(text) \in Nat
    BY CutFits DEF InPlaces
  <2>2. p.first - 1 = a  BY <2>1
  <2>3. a <= l
    <3> HIDE DEF a, c, l, f
    <3> QED  BY <2>1
  <2> QED  BY <2>1, <2>2, <2>3
<1>3. /\ t \in Seq(Line) /\ SubSeq(t, 1, a) = SubSeq(text, 1, a)
      /\ SubSeq(t, l + 1, Len(t)) = gap \o s
  <2>1. a <= c
    <3> HIDE DEF a, l, c
    <3> QED  BY <1>2
  <2> HIDE DEF a, l, c
  <2>2. SubSeq(t, 1, a) = SubSeq(text, 1, a)  BY <1>1, <1>2, <2>1, CutOff
  <2>3. SubSeq(t, l + 1, Len(t)) = SubSeq(text, l + 1, c) \o s
    <3>1. t = SubSeq(text, 1, c) \o s  BY <1>1
    <3>2. /\ text \in Seq(Line) /\ s \in Seq(Line) /\ l \in Nat /\ c \in Nat
          /\ l <= c /\ c <= Len(text)
      BY <1>1, <1>2
    <3>3. LET u == SubSeq(text, 1, c) \o s
          IN  SubSeq(u, l + 1, Len(u)) = SubSeq(text, l + 1, c) \o s
      BY <3>2, LinesBehind
    <3> QED  BY <3>1, <3>3
  <2> QED  BY <2>2, <2>3
<1> DEFINE x == SubSeq(text, 1, a)
           tail == new \o (gap \o s)
<1>4. x \in Seq(Line) /\ gap \in Seq(Line)
  <2> HIDE DEF a, l, c
  <2>1. SubSeq(text, l + 1, c) \in Seq(Line)  BY <1>2, Part
  <2>2. 0 <= a /\ a <= Len(text) /\ 0 \in Nat  BY <1>2
  <2>3. SubSeq(text, 0 + 1, a) \in Seq(Line)  BY <1>2, <2>2, Part
  <2> QED  BY <2>1, <2>3
<1>5. Put(t, p) = (x \o new) \o (gap \o s)  BY <1>2, <1>3 DEF Put
<1>6. flat[c] = flat[a] \o (new \o gap)  BY Advance
<1>7. flat[a] \in Seq(Line)
  <2>1. \A i \in 0..Len(text) : flat[i] \in Seq(Line)  BY BecomeFits DEF Joined
  <2> HIDE DEF a, l, c
  <2>2. a \in 0..Len(text)  BY <1>2
  <2> QED  BY <2>1, <2>2
<1>8. /\ tail \in Seq(Line) /\ x \o tail \in Seq(Line)
      /\ (x \o new) \o (gap \o s) = x \o tail
      /\ (flat[a] \o (new \o gap)) \o s = flat[a] \o tail
  <2> DEFINE y == flat[a]
  <2>1. /\ x \in Seq(Line) /\ y \in Seq(Line) /\ new \in Seq(Line) /\ gap \in Seq(Line)
        /\ s \in Seq(Line)
    BY <1>2, <1>4, <1>7
  <2> HIDE DEF x, y, new, gap
  <2>2. gap \o s \in Seq(Line) /\ new \o gap \in Seq(Line)  BY <2>1, ConcatProperties
  <2>3. tail \in Seq(Line)  BY <2>1, <2>2, ConcatProperties
  <2>4. x \o tail \in Seq(Line)  BY <2>1, <2>3, ConcatProperties
  <2>5. (x \o new) \o (gap \o s) = x \o (new \o (gap \o s))
    <3> DEFINE z == gap \o s
    <3>1. z \in Seq(Line)  BY <2>2
    <3> HIDE DEF z
    <3>2. x \in Seq(Line) /\ new \in Seq(Line) /\ z \in Seq(Line)  BY <2>1, <3>1
    <3>3. (x \o new) \o z = x \o (new \o z)  BY <3>2, Reassociated
    <3> QED  BY <3>3 DEF z
  <2>6. (y \o (new \o gap)) \o s = y \o ((new \o gap) \o s)
    <3> DEFINE z == new \o gap
    <3>1. z \in Seq(Line)  BY <2>2
    <3> HIDE DEF z
    <3>2. y \in Seq(Line) /\ z \in Seq(Line)  BY <2>1, <3>1
    <3>3. (y \o z) \o s = y \o (z \o s)  BY <3>2, Reassociated
    <3> QED  BY <3>3 DEF z
  <2>7. (new \o gap) \o s = new \o (gap \o s)
    <3>1. new \in Seq(Line) /\ gap \in Seq(Line) /\ s \in Seq(Line)  BY <2>1
    <3> QED  BY <3>1, Reassociated
  <2> QED  BY <2>3, <2>4, <2>5, <2>6, <2>7 DEF y
<1>9. Put(t, p) = x \o tail /\ flat[Len(text)] = flat[a] \o tail
  BY <1>1, <1>5, <1>6, <1>8
<1> QED  BY <1>8, <1>9 DEF Good

LEMMA AllPut ==
    ASSUME InPlaces, ~Overlap, NEW flat, Joined(flat, Become)
    PROVE  Patched \in Seq(Line) /\ Good(flat, Patched, 1)
<1> DEFINE n == Len(checked)
           Step(g) == [k \in 0..n |-> IF k = 0 THEN text
                                      ELSE Put(g[k - 1], InOrder[n + 1 - k])]
           put == CHOOSE g : g = Step(g)
           G == [k \in 0..n |-> {t \in Seq(Line) : Good(flat, t, n + 1 - k)}]
           F == [k \in 1..n |-> [t \in G[k - 1] |-> Put(t, InOrder[n + 1 - k])]]
<1>1. n \in Nat /\ DOMAIN checked = 1..n /\ text \in Seq(Line)
  BY LocatedFits DEF InPlaces
<1>2. text \in G[0]
  <2>1. n + 1 - 0 = n + 1 /\ 0 \in 0..n  BY <1>1
  <2> QED  BY <1>1, <2>1, GoodAtFirst
<1>3. ASSUME NEW k \in 1..n, NEW t \in G[k - 1]
      PROVE  F[k][t] = Put(t, InOrder[n + 1 - k]) /\ F[k][t] \in G[k]
  <2> DEFINE m == n + 1 - k
  <2>1. m \in DOMAIN checked /\ n + 1 - (k - 1) = m + 1 /\ k - 1 \in 0..n /\ k \in 0..n
    BY <1>1
  <2>2. t \in Seq(Line) /\ Good(flat, t, m + 1)
    <3>1. G[k - 1] = {u \in Seq(Line) : Good(flat, u, n + 1 - (k - 1))}  BY <2>1
    <3> HIDE DEF G
    <3> QED  BY <1>3, <2>1, <3>1
  <2>3. Put(t, InOrder[m]) \in Seq(Line) /\ Good(flat, Put(t, InOrder[m]), m)
    <3> HIDE DEF m
    <3> QED  BY <2>1, <2>2, PutStep
  <2>4. G[k] = {u \in Seq(Line) : Good(flat, u, m)}  BY <2>1
  <2>5. F[k][t] = Put(t, InOrder[m])
    <3> HIDE DEF G
    <3> QED  BY <1>3
  <2> HIDE DEF F, G
  <2> QED  BY <2>3, <2>4, <2>5
<1>4. G[n] = {t \in Seq(Line) : Good(flat, t, 1)}
  <2>1. n \in 0..n /\ n + 1 - n = 1  BY <1>1
  <2> QED  BY <2>1
<1> HIDE DEF F, G
<1>5. PICK f : Iterates(f, F, G, n, text)  BY <1>1, <1>2, <1>3, Iterated DEF Leads
<1> DEFINE h == [k \in 0..n |-> f[k]]
<1>6. h = Step(h)
  <2>1. ASSUME NEW k \in 0..n
        PROVE  h[k] = IF k = 0 THEN text ELSE Put(h[k - 1], InOrder[n + 1 - k])
    <3>1. CASE k = 0  BY <1>5, <3>1 DEF Iterates
    <3>2. CASE k # 0
      <4>1. k \in 1..n /\ k - 1 \in 0..n  BY <1>1, <3>2
      <4>2. f[k] = F[k][f[k - 1]] /\ f[k - 1] \in G[k - 1]  BY <1>5, <4>1 DEF Iterates
      <4>3. f[k] = Put(f[k - 1], InOrder[n + 1 - k])  BY <1>3, <4>1, <4>2
      <4> QED  BY <3>2, <4>1, <4>3
    <3> QED  BY <3>1, <3>2
  <2> QED  BY <2>1
<1>7. put = Step(put)
  <2> HIDE DEF h, Step
  <2> QED  BY <1>6
<1>8. Patched = put[n]  BY DEF Patched
<1> HIDE DEF put
<1>9. /\ put[0] = text
      /\ \A k \in 1..n : put[k] = Put(put[k - 1], InOrder[n + 1 - k])
  <2>1. 0 \in 0..n /\ \A k \in 1..n : k \in 0..n /\ k # 0  BY <1>1
  <2> QED  BY <1>7, <2>1
<1> DEFINE T == {k \in 0..n : put[k] \in G[k]}
<1>10. 0 \in T  BY <1>1, <1>2, <1>9
<1>11. ASSUME NEW k \in 0..(n - 1), k \in T PROVE k + 1 \in T
  <2>1. k + 1 \in 1..n /\ k + 1 \in 0..n /\ (k + 1) - 1 = k  BY <1>1
  <2> DEFINE m == k + 1
  <2>2. m \in 1..n /\ m \in 0..n /\ put[m - 1] \in G[m - 1]  BY <1>11, <2>1
  <2> HIDE DEF m
  <2>3. put[m] \in G[m]  BY <1>3, <1>9, <2>2
  <2> QED  BY <2>2, <2>3 DEF m
<1>12. n \in T
  <2> HIDE DEF T
  <2>1. n \in 0..n  BY <1>1
  <2> QED  BY <1>1, <1>10, <1>11, <2>1, UpTo
<1> QED  BY <1>4, <1>8, <1>12

LEMMA PatchedIsFlat ==
    ASSUME InPlaces, ~Overlap
    PROVE  Patched = FlattenSeq(Become)
<1>1. PICK flat : Joined(flat, Become)  BY BecomeFits, JoinedExists
<1>2. PICK s \in Seq(Line) : /\ Patched = SubSeq(text, 1, Cut(1)) \o s
                             /\ flat[Len(text)] = flat[Cut(1)] \o s
  BY <1>1, AllPut DEF Good
<1>3. flat[Cut(1)] = SubSeq(text, 1, Cut(1))  BY <1>1, BeforeFirst
<1>4. FlattenSeq(Become) = flat[Len(text)]  BY <1>1, BecomeFits, JoinedIsFlat
<1> QED  BY <1>2, <1>3, <1>4
--------------------------------------------------------------------------------
LEMMA PatchHolds == PatchSpec => []PatchInv
<1>1. PatchInit => PatchInv
  <2> SUFFICES ASSUME PatchInit PROVE PatchInv
    OBVIOUS
  <2>1. text = <<>> /\ checked = <<>> /\ verdict = "unread"  BY DEF PatchInit
  <2> QED  BY <2>1 DEF PatchInv, InPlaces
<1>2. PatchInv /\ [PatchNext]_patchVars => PatchInv'
  <2> SUFFICES ASSUME PatchInv, [PatchNext]_patchVars PROVE PatchInv'
    OBVIOUS
  <2> USE DEF PatchInv
  <2>1. ASSUME NEW t \in Texts(MaxLines), ReadText(t) PROVE PatchInv'
    <3>1. text' = t /\ t \in Seq(Line) /\ checked' = <<>>
          /\ verdict' \in {"checking", "STALE_FILE_HASH"}
      BY <2>1, TextsFit DEF ReadText
    <3> QED  BY <3>1 DEF InPlaces
  <2>2. CASE CheckOverlap
    <3>1. UNCHANGED <<text, checked, patched>> /\ verdict' # "unread" /\ verdict' # "replaced"
          /\ (verdict' \in {"located", "INVALID_FILE_CONTENT"} => ~Overlap)
      BY <2>2 DEF CheckOverlap, Concludes
    <3> QED  BY <3>1, SameText
  <2>3. CASE Replace  BY <2>3, SameText DEF Replace
  <2>4. CASE UNCHANGED patchVars  BY <2>4, SameText DEF patchVars
  <2> QED  BY <2>1, <2>2, <2>3, <2>4, LocatedIsPlaced DEF PatchNext
<1> QED  BY <1>1, <1>2, PTL DEF PatchSpec

(* The patches are applied as if at once, in whatever order the client     *)
(* lists them, in every file and for every number of patches.              *)
THEOREM PatchesAtOnce == PatchSpec => []PatchedAtOnce
<1>1. ASSUME PatchInv PROVE PatchedAtOnce
  <2> SUFFICES ASSUME verdict = "replaced"
               PROVE  /\ \A l \in DOMAIN text : Cardinality(By(l)) <= 1
                      /\ patched = FlattenSeq([l \in DOMAIN text |-> Becomes(l)])
    BY DEF PatchedAtOnce
  <2>1. InPlaces /\ ~Overlap /\ patched = Patched  BY <1>1 DEF PatchInv
  <2> QED  BY <2>1, OneAtMost, PatchedIsFlat DEF Become
<1> QED  BY <1>1, PatchHolds, PTL

(* A patch that is applied elsewhere than asked has no other place to go,  *)
(* in every file and for every block.                                      *)
THEOREM MovesToTheOnlyPlace == PatchSpec => []MovedIfUnique
<1>1. ASSUME PatchInv PROVE MovedIfUnique
  <2> SUFFICES ASSUME NEW i \in DOMAIN checked
               PROVE  LET p == checked[i]
                          HoldsOld(s) == \A k \in DOMAIN p.old :
                              s + k - 1 \in DOMAIN text /\ text[s + k - 1] = p.old[k]
                      IN  HoldsOld(p.first) /\ Cardinality(Lines(p)) = Len(p.old)
                            /\ (p.moved => \A s \in DOMAIN text : HoldsOld(s) => s = p.first)
    BY DEF MovedIfUnique
  <2> DEFINE p == checked[i]
  <2>1. /\ Placed(p) /\ p.old \in Seq(Line)
        /\ p.first \in Nat \ {0} /\ p.last \in Nat
    <3>1. InPlaces /\ p \in Located  BY <1>1, LocatedFits DEF PatchInv
    <3> QED  BY <3>1 DEF InPlaces, Located
  <2> HIDE DEF p
  <2>0. p.first <= p.last /\ p.last <= Len(text)  BY <2>1 DEF Placed
  <2>2. text \in Seq(Line)  BY <1>1 DEF PatchInv, InPlaces
  <2>3. Len(text) \in Nat /\ DOMAIN text = 1..Len(text)  BY <2>2, LenProperties
  <2>4. /\ DOMAIN p.old = 1..Len(p.old) /\ Len(p.old) = p.last + 1 - p.first
        /\ \A k \in 1..Len(p.old) : p.old[k] = text[p.first + k - 1]
    BY <2>1, <2>2, BlockLines, LenProperties DEF Placed
  <2>5. ASSUME NEW k \in DOMAIN p.old
        PROVE  p.first + k - 1 \in DOMAIN text /\ text[p.first + k - 1] = p.old[k]
    <3>1. k \in 1..(p.last + 1 - p.first)  BY <2>4
    <3>2. p.first + k - 1 \in 1..Len(text)  BY <2>0, <2>1, <2>3, <3>1
    <3> QED  BY <2>3, <2>4, <3>2
  <2>6. Cardinality(Lines(p)) = Len(p.old)
    BY <2>0, <2>1, <2>4, BlockLength DEF Lines
  <2>7. ASSUME p.moved, NEW s \in DOMAIN text,
               \A k \in DOMAIN p.old : s + k - 1 \in DOMAIN text /\ text[s + k - 1] = p.old[k]
        PROVE  s = p.first
    <3>1. ExactMatches(p.old) = {p.first}  BY <2>1, <2>7 DEF Placed
    <3>2. p.old # <<>>  BY <3>1 DEF ExactMatches
    <3>3. s <= Len(text) + 1 - Len(p.old) /\ SubSeq(text, s, s + Len(p.old) - 1) = p.old
      BY <2>1, <2>2, <2>3, <2>7, <3>2, BlockHeld
    <3>4. s \in 1..(Len(text) + 1 - Len(p.old))  BY <2>0, <2>3, <2>4, <3>3
    <3>5. s \in ExactMatches(p.old)  BY <3>2, <3>3, <3>4 DEF ExactMatches, Block
    <3> QED  BY <3>1, <3>5
  <2> QED  BY <2>5, <2>6, <2>7 DEF p
<1> QED  BY <1>1, PatchHolds, PTL
--------------------------------------------------------------------------------
(***************************************************************************)
(* The places of a document.  A key names a member of an object or an item *)
(* of a list; a path is a sequence of keys, and a set of places says what  *)
(* is at which path.                                                       *)
(***************************************************************************)
AllKeys == {"member", "item"} \X (STRING \cup Int)
AllPaths == Seq(AllKeys)
Place(path, what) == [path |-> path, what |-> what]

(* The laws of paths.                                                      *)
LEMMA Paths ==
    /\ <<>> \in AllPaths /\ Len(<<>>) = 0
    /\ \A p, q \in AllPaths : p \o q \in AllPaths /\ Len(p \o q) = Len(p) + Len(q)
    /\ \A p \in AllPaths : <<>> \o p = p /\ p \o <<>> = p /\ Len(p) \in Nat
    /\ \A k \in AllKeys : <<k>> \in AllPaths /\ Len(<<k>>) = 1 /\ <<k>> # <<>> /\ <<k>>[1] = k
<1>1. /\ <<>> \in AllPaths /\ Len(<<>>) = 0
      /\ \A k \in AllKeys : <<k>> \in AllPaths /\ Len(<<k>>) = 1 /\ <<k>> # <<>> /\ <<k>>[1] = k
  BY DEF AllPaths
<1>2. \A p, q \in AllPaths : p \o q \in AllPaths /\ Len(p \o q) = Len(p) + Len(q)
  BY ConcatProperties DEF AllPaths
<1>3. \A p \in AllPaths : <<>> \o p = p /\ p \o <<>> = p /\ Len(p) \in Nat
  BY ConcatEmptySeq, LenProperties DEF AllPaths
<1> QED  BY <1>1, <1>2, <1>3

LEMMA Joins ==
    \A p, q, r \in AllPaths : (p \o q) \o r = p \o (q \o r)
BY ConcatAssociative DEF AllPaths

LEMMA Cancels ==
    \A p, q, r \in AllPaths : p \o q = p \o r => q = r
<1>1. \A S : \A s, t, v \in Seq(S) : s \o t = s \o v => t = v
  BY ConcatSimplifications
<1> QED  BY <1>1 DEF AllPaths

(* A path begins with one key.                                             *)
LEMMA SameHead ==
    ASSUME NEW k \in AllKeys, NEW l \in AllKeys, NEW p \in AllPaths, NEW q \in AllPaths,
           <<k>> \o p = <<l>> \o q
    PROVE  k = l /\ p = q
<1>1. (<<k>> \o p)[1] = k /\ (<<l>> \o q)[1] = l
  BY Paths, ConcatProperties DEF AllPaths
<1>2. k = l  BY <1>1
<1> QED  BY <1>2, Paths, Cancels

LEMMA NotEmpty ==
    ASSUME NEW k \in AllKeys, NEW p \in AllPaths
    PROVE  <<k>> \o p # <<>> /\ <<k>> \o p \in AllPaths /\ Len(<<k>> \o p) = Len(p) + 1
           /\ (<<k>> \o p)[1] = k /\ Tail(<<k>> \o p) = p
<1>1. /\ <<k>> \o p \in AllPaths /\ Len(<<k>> \o p) = Len(p) + 1 /\ Len(p) \in Nat
      /\ (<<k>> \o p)[1] = k
      /\ \A i \in 1..Len(p) : (<<k>> \o p)[i + 1] = p[i]
  BY Paths, ConcatProperties DEF AllPaths
<1>2. <<k>> \o p # <<>>  BY <1>1, Paths
<1> DEFINE s == <<k>> \o p
<1>3. s \in Seq(AllKeys) /\ s # <<>> /\ p \in Seq(AllKeys)  BY <1>1, <1>2 DEF AllPaths
<1> HIDE DEF s
<1>4. /\ Tail(s) \in Seq(AllKeys) /\ Len(Tail(s)) = Len(s) - 1
      /\ \A i \in 1..Len(Tail(s)) : Tail(s)[i] = s[i + 1]
  BY <1>3, HeadTailProperties
<1>5. Len(Tail(s)) = Len(p) /\ \A i \in 1..Len(p) : Tail(s)[i] = p[i]
  BY <1>1, <1>4 DEF s
<1>6. Tail(s) = p  BY <1>3, <1>4, <1>5, SeqEqual
<1> QED  BY <1>1, <1>2, <1>6 DEF s

(* A path is empty, or one key and a path.                                 *)
LEMMA Split ==
    ASSUME NEW p \in AllPaths
    PROVE  p = <<>> \/ \E k \in AllKeys, q \in AllPaths : p = <<k>> \o q
<1> SUFFICES ASSUME p # <<>> PROVE \E k \in AllKeys, q \in AllPaths : p = <<k>> \o q
  OBVIOUS
<1>1. /\ p[1] \in AllKeys /\ Tail(p) \in AllPaths /\ Len(Tail(p)) = Len(p) - 1
      /\ \A i \in 1..Len(Tail(p)) : Tail(p)[i] = p[i + 1] /\ Len(p) \in Nat \ {0}
  BY HeadTailProperties, EmptySeq DEF AllPaths
<1> DEFINE s == <<p[1]>> \o Tail(p)
<1>2. /\ s \in AllPaths /\ Len(s) = Len(p) /\ Len(p) \in Nat \ {0}
      /\ \A i \in 1..Len(p) : s[i] = IF i <= 1 THEN <<p[1]>>[i] ELSE Tail(p)[i - 1]
  <2>1. <<p[1]>> \in Seq(AllKeys) /\ Tail(p) \in Seq(AllKeys) /\ Len(<<p[1]>>) = 1
        /\ Len(p) \in Nat \ {0} /\ 1 + Len(Tail(p)) = Len(p)
    BY <1>1, EmptySeq DEF AllPaths
  <2> QED  BY <2>1, ConcatProperties DEF AllPaths
<1> HIDE DEF s
<1>3. \A i \in 1..Len(p) : s[i] = p[i]  BY <1>1, <1>2
<1>4. s = p  BY <1>2, <1>3, SeqEqual DEF AllPaths
<1> QED  BY <1>1, <1>4 DEF s

LEMMA Appended ==
    ASSUME NEW p \in AllPaths, NEW k \in AllKeys
    PROVE  Append(p, k) = p \o <<k>> /\ Append(p, k) \in AllPaths
           /\ Len(Append(p, k)) = Len(p) + 1 /\ Append(p, k)[Len(p) + 1] = k
           /\ \A i \in 1..Len(p) : Append(p, k)[i] = p[i]
BY AppendIsConcat, AppendProperties DEF AllPaths

(* What begins with a path is the path and the rest of it.                 *)
LEMMA Prefixed ==
    ASSUME NEW p \in AllPaths, NEW q \in AllPaths
    PROVE  /\ IsPrefix(p, p \o q) /\ SubSeq(p \o q, Len(p) + 1, Len(p \o q)) = q
           /\ IsPrefix(p, q) => \E r \in AllPaths : q = p \o r
<1>1. p \in Seq(AllKeys) /\ q \in Seq(AllKeys) /\ Len(p) \in Nat /\ Len(q) \in Nat
  BY LenProperties DEF AllPaths
<1>2. /\ p \o q \in Seq(AllKeys) /\ Len(p \o q) = Len(p) + Len(q)
      /\ \A i \in 1..(Len(p) + Len(q)) : (p \o q)[i] = IF i <= Len(p) THEN p[i] ELSE q[i - Len(p)]
  BY <1>1, ConcatProperties
<1> DEFINE s == p \o q
<1> HIDE DEF s
<1>3. SubSeq(s, 1, Len(p)) = p
  <2>1. /\ SubSeq(s, 1, Len(p)) \in Seq(AllKeys)
        /\ Len(SubSeq(s, 1, Len(p))) = Len(p)
        /\ \A i \in 1..Len(p) : SubSeq(s, 1, Len(p))[i] = s[i]
    <3>1. \A i \in 1..Len(p) : s[i] \in AllKeys  BY <1>1, <1>2 DEF s
    <3> QED  BY <1>1, <3>1, SubSeqProperties
  <2>2. \A i \in 1..Len(p) : s[i] = p[i]  BY <1>1, <1>2 DEF s
  <2> QED  BY <1>1, <2>1, <2>2, SeqEqual
<1>4. SubSeq(p, 1, Len(p)) = p  BY <1>1, SubSeqFull
<1>5. IsPrefix(p, s)  BY <1>1, <1>2, <1>3, <1>4 DEF IsPrefix, s
<1>6. SubSeq(s, Len(p) + 1, Len(s)) = q
  <2> DEFINE m == Len(p) + 1
             n == Len(p) + Len(q)
  <2>1. m \in Int /\ n \in Int /\ n - m + 1 = Len(q) /\ (m <= n \/ Len(q) = 0)
        /\ \A i \in m..n : s[i] \in AllKeys
    BY <1>1, <1>2 DEF s
  <2>2. /\ SubSeq(s, m, n) \in Seq(AllKeys)
        /\ Len(SubSeq(s, m, n)) = Len(q)
        /\ \A i \in 1..Len(q) : SubSeq(s, m, n)[i] = s[m + i - 1]
    <3> HIDE DEF m, n
    <3>1. /\ SubSeq(s, m, n) \in Seq(AllKeys)
          /\ Len(SubSeq(s, m, n)) = IF m <= n THEN n - m + 1 ELSE 0
          /\ \A i \in 1..(n - m + 1) : SubSeq(s, m, n)[i] = s[m + i - 1]
      BY <2>1, SubSeqProperties
    <3> QED  BY <1>1, <2>1, <3>1
  <2>3. \A i \in 1..Len(q) : s[m + i - 1] = q[i]
    BY <1>1, <1>2 DEF s
  <2>4. SubSeq(s, m, n) = q
    <3> HIDE DEF m, n
    <3> QED  BY <1>1, <2>2, <2>3, SeqEqual
  <2> QED  BY <1>2, <2>4 DEF s
<1>7. IsPrefix(p, q) => \E r \in AllPaths : q = p \o r
  <2> SUFFICES ASSUME IsPrefix(p, q) PROVE \E r \in AllPaths : q = p \o r
    OBVIOUS
  <2>1. Len(p) <= Len(q) /\ SubSeq(q, 1, Len(p)) = p
    BY <1>4 DEF IsPrefix
  <2> DEFINE r == SubSeq(q, Len(p) + 1, Len(q))
  <2>2. 1 \in 1..(Len(q) + 1) /\ Len(p) \in (1 - 1)..Len(q) /\ Len(q) \in Len(p)..Len(q)
    BY <1>1, <2>1
  <2>3. SubSeq(q, 1, Len(p)) \o r = SubSeq(q, 1, Len(q))
    BY <1>1, <2>2, ConcatAdjacentSubSeq
  <2>4. r \in AllPaths
    <3>1. \A i \in (Len(p) + 1)..Len(q) : q[i] \in AllKeys  BY <1>1
    <3> QED  BY <1>1, <3>1, SubSeqProperties DEF AllPaths
  <2>5. SubSeq(q, 1, Len(q)) = q  BY <1>1, SubSeqFull
  <2> QED  BY <2>1, <2>3, <2>4, <2>5
<1> QED  BY <1>5, <1>6, <1>7 DEF s

\* f is what is on the way along a path: the value, its member, and so on.
Trail(v, p, f) == /\ DOMAIN f = 0..Len(p) /\ f[0] = v
                  /\ \A i \in 1..Len(p) : /\ p[i] \in Members(f[i - 1])
                                          /\ f[i] = Inside(f[i - 1], p[i])
\* x is the mark of what is at p in v, and every value in v is one of the three.
Occurs(v, p, x) == v # Failure /\ \E f : Trail(v, p, f) /\ x = Mark(f[Len(p)])
Formed(v) == \A p \in AllPaths : \A f : Trail(v, p, f) => IsNode(f[Len(p)])

(* A value is an object, a list or a leaf, and its members are called so.  *)
LEMMA Nodes ==
    ASSUME NEW v, IsNode(v)
    PROVE  /\ v # Failure /\ Members(v) \subseteq AllKeys
           /\ v.type = "object" =>
                /\ v = Object([k \in DOMAIN v.fields |-> v.fields[k]])
                /\ DOMAIN v.fields \subseteq STRING
                /\ Members(v) = {<<"member", k>> : k \in DOMAIN v.fields}
                /\ Mark(v) = <<"object">>
           /\ v.type = "list" =>
                /\ v = List(v.items) /\ v.items \in Seq(Range(v.items)) /\ Len(v.items) \in Nat
                /\ Members(v) = {<<"item", i>> : i \in 0..(Len(v.items) - 1)}
                /\ Mark(v) = <<"list">>
           /\ v.type # "object" /\ v.type # "list" =>
                v = Leaf(v.value) /\ v.type = "leaf" /\ Members(v) = {}
                /\ Mark(v) = <<"leaf", v.value>>
<1>1. CASE v.type = "object"
  <2>1. /\ v = Object([k \in DOMAIN v.fields |-> v.fields[k]]) /\ DOMAIN v.fields \subseteq STRING
    BY <1>1 DEF IsNode
  <2>2. Members(v) = {<<"member", k>> : k \in DOMAIN v.fields} /\ Mark(v) = <<"object">>
    BY <1>1 DEF Members, Mark
  <2>3. v # Failure  BY <1>1 DEF Failure
  <2>4. Members(v) \subseteq AllKeys  BY <2>1, <2>2 DEF AllKeys
  <2> QED  BY <1>1, <2>1, <2>2, <2>3, <2>4
<1>2. CASE v.type = "list"
  <2>1. v = List(v.items) /\ v.items \in Seq(Range(v.items))
    BY <1>2 DEF IsNode
  <2>2. Members(v) = {<<"item", i>> : i \in 0..(Len(v.items) - 1)} /\ Mark(v) = <<"list">>
    BY <1>2 DEF Members, Mark
  <2>3. v # Failure  BY <1>2 DEF Failure
  <2>4. Members(v) \subseteq AllKeys  BY <2>1, <2>2 DEF AllKeys
  <2>5. Len(v.items) \in Nat  BY <2>1, LenProperties
  <2> QED  BY <1>2, <2>1, <2>2, <2>3, <2>4, <2>5
<1>3. CASE v.type # "object" /\ v.type # "list"
  <2>1. v = Leaf(v.value)
    BY <1>3 DEF IsNode
  <2>2. v.type = "leaf"  BY <2>1 DEF Leaf
  <2>3. v # Failure  BY <2>2 DEF Failure
  <2>4. Members(v) = {} /\ Mark(v) = <<"leaf", v.value>>  BY <2>2 DEF Members, Mark
  <2> QED  BY <1>3, <2>1, <2>2, <2>3, <2>4
<1> QED  BY <1>1, <1>2, <1>3

(* The trail below a member of a value, and the trail of the value.        *)
LEMMA TrailDown ==
    ASSUME NEW v, NEW k \in AllKeys, NEW q \in AllPaths, NEW f, Trail(v, <<k>> \o q, f)
    PROVE  /\ k \in Members(v)
           /\ \E g : Trail(Inside(v, k), q, g) /\ g[Len(q)] = f[Len(<<k>> \o q)]
<1> DEFINE p == <<k>> \o q
           n == Len(q)
           g == [i \in 0..n |-> f[i + 1]]
<1>1. n \in Nat /\ Len(p) = n + 1 /\ p[1] = k /\ \A i \in 1..n : p[i + 1] = q[i]
  BY Paths, NotEmpty, ConcatProperties DEF AllPaths
<1>2. DOMAIN f = 0..Len(p) /\ f[0] = v /\ \A i \in 1..Len(p) : p[i] \in Members(f[i - 1])
                                             /\ f[i] = Inside(f[i - 1], p[i])
  BY DEF Trail
<1> HIDE DEF p, n
<1>3. 1 \in 1..Len(p) /\ 1 - 1 = 0  BY <1>1
<1>4. k \in Members(v) /\ f[1] = Inside(v, k)  BY <1>1, <1>2, <1>3
<1>5. g[0] = Inside(v, k)  BY <1>1, <1>4
<1>6. ASSUME NEW i \in 1..n PROVE q[i] \in Members(g[i - 1]) /\ g[i] = Inside(g[i - 1], q[i])
  <2>1. i + 1 \in 1..Len(p) /\ (i + 1) - 1 = i /\ i - 1 \in 0..n /\ i \in 0..n /\ (i - 1) + 1 = i
    BY <1>1
  <2>2. g[i] = f[i + 1] /\ g[i - 1] = f[i]  BY <2>1
  <2>3. p[i + 1] \in Members(f[i]) /\ f[i + 1] = Inside(f[i], p[i + 1])
    <3> DEFINE j == i + 1
    <3>1. j \in 1..Len(p) /\ j - 1 = i  BY <2>1
    <3> HIDE DEF j
    <3>2. p[j] \in Members(f[i]) /\ f[j] = Inside(f[i], p[j])  BY <1>2, <3>1
    <3> QED  BY <3>2 DEF j
  <2> HIDE DEF g
  <2> QED  BY <1>1, <2>2, <2>3
<1>7. DOMAIN g = 0..Len(q) /\ g[n] = f[Len(p)]  BY <1>1 DEF n
<1>8. Trail(Inside(v, k), q, g)
  <2> HIDE DEF g
  <2> QED  BY <1>5, <1>6, <1>7 DEF Trail, n
<1> QED  BY <1>4, <1>7, <1>8 DEF p, n

LEMMA TrailUp ==
    ASSUME NEW v, NEW k \in AllKeys, NEW q \in AllPaths, NEW g, k \in Members(v),
           Trail(Inside(v, k), q, g)
    PROVE  \E f : Trail(v, <<k>> \o q, f) /\ f[Len(<<k>> \o q)] = g[Len(q)]
<1> DEFINE p == <<k>> \o q
           n == Len(q)
           f == [i \in 0..(n + 1) |-> IF i = 0 THEN v ELSE g[i - 1]]
<1>1. n \in Nat /\ Len(p) = n + 1 /\ p[1] = k /\ \A i \in 1..(n + 1) : i # 1 => p[i] = q[i - 1]
  BY Paths, NotEmpty, ConcatProperties DEF AllPaths
<1>2. DOMAIN g = 0..n /\ g[0] = Inside(v, k)
      /\ \A i \in 1..n : q[i] \in Members(g[i - 1]) /\ g[i] = Inside(g[i - 1], q[i])
  BY DEF Trail
<1> HIDE DEF p, n
<1>3. f[0] = v /\ \A i \in 1..(n + 1) : f[i] = g[i - 1]
  BY <1>1
<1>4. DOMAIN f = 0..Len(p)  BY <1>1
<1> HIDE DEF f
<1>5. ASSUME NEW i \in 1..Len(p) PROVE p[i] \in Members(f[i - 1]) /\ f[i] = Inside(f[i - 1], p[i])
  <2>1. CASE i = 1
    <3>1. i - 1 = 0  BY <2>1
    <3> QED  BY <1>1, <1>2, <1>3, <2>1, <3>1
  <2>2. CASE i # 1
    <3>1. i \in 1..(n + 1) /\ i - 1 \in 1..(n + 1) /\ i - 1 \in 1..n  BY <1>1, <2>2
    <3>2. f[i] = g[i - 1] /\ f[i - 1] = g[(i - 1) - 1] /\ p[i] = q[i - 1]
      BY <1>1, <1>3, <2>2, <3>1
    <3>3. q[i - 1] \in Members(g[(i - 1) - 1]) /\ g[i - 1] = Inside(g[(i - 1) - 1], q[i - 1])
      BY <1>2, <3>1
    <3> QED  BY <3>2, <3>3
  <2> QED  BY <2>1, <2>2
<1>6. Trail(v, p, f)  BY <1>3, <1>4, <1>5 DEF Trail
<1>7. n + 1 \in 1..(n + 1) /\ (n + 1) - 1 = n  BY <1>1
<1>8. f[Len(p)] = g[n]  BY <1>1, <1>3, <1>7
<1> QED  BY <1>6, <1>8 DEF p, n

LEMMA NoTrail ==
    ASSUME NEW v PROVE /\ Trail(v, <<>>, [i \in 0..0 |-> v])
                       /\ \A f : Trail(v, <<>>, f) => f[Len(<<>>)] = v
BY Paths DEF Trail

(* A value is formed if it is a node and its members are formed.           *)
LEMMA FormedDown ==
    ASSUME NEW v, Formed(v)
    PROVE  IsNode(v) /\ \A k \in Members(v) : k \in AllKeys /\ Formed(Inside(v, k))
                                             /\ Inside(v, k) # Failure
<1>1. IsNode(v)
  <2>1. <<>> \in AllPaths /\ Len(<<>>) = 0  BY Paths
  <2> DEFINE f == [i \in 0..0 |-> v]
  <2>2. Trail(v, <<>>, f) /\ f[Len(<<>>)] = v  BY NoTrail
  <2> HIDE DEF f
  <2> QED  BY <2>1, <2>2 DEF Formed
<1>2. ASSUME NEW k \in Members(v) PROVE k \in AllKeys /\ Formed(Inside(v, k))
  <2>1. k \in AllKeys  BY <1>1, <1>2, Nodes
  <2>2. ASSUME NEW p \in AllPaths, NEW g, Trail(Inside(v, k), p, g) PROVE IsNode(g[Len(p)])
    <3>1. PICK f : Trail(v, <<k>> \o p, f) /\ f[Len(<<k>> \o p)] = g[Len(p)]
      BY <2>1, <2>2, TrailUp
    <3>2. <<k>> \o p \in AllPaths  BY <2>1, NotEmpty
    <3> QED  BY <3>1, <3>2 DEF Formed
  <2> QED  BY <2>1, <2>2 DEF Formed
<1>3. ASSUME NEW k \in Members(v) PROVE Inside(v, k) # Failure
  <2>1. Formed(Inside(v, k))  BY <1>2
  <2> DEFINE u == Inside(v, k)
  <2> HIDE DEF u
  <2>2. <<>> \in AllPaths /\ Len(<<>>) = 0  BY Paths
  <2> DEFINE f == [i \in 0..0 |-> u]
  <2>3. Trail(u, <<>>, f) /\ f[Len(<<>>)] = u  BY NoTrail
  <2> HIDE DEF f
  <2>4. IsNode(u)  BY <2>1, <2>2, <2>3 DEF Formed, u
  <2> QED  BY <2>4, Nodes DEF u
<1> QED  BY <1>1, <1>2, <1>3

LEMMA FormedUp ==
    ASSUME NEW v, IsNode(v), \A k \in Members(v) : Formed(Inside(v, k))
    PROVE  Formed(v)
<1> SUFFICES ASSUME NEW p \in AllPaths, NEW f, Trail(v, p, f) PROVE IsNode(f[Len(p)])
  BY DEF Formed
<1>1. CASE p = <<>>  BY <1>1, NoTrail
<1>2. ASSUME NEW k \in AllKeys, NEW q \in AllPaths, p = <<k>> \o q PROVE IsNode(f[Len(p)])
  <2>1. /\ k \in Members(v)
        /\ \E g : Trail(Inside(v, k), q, g) /\ g[Len(q)] = f[Len(p)]
    BY <1>2, TrailDown
  <2> QED  BY <2>1 DEF Formed
<1> QED  BY <1>1, <1>2, Split

(* What is in a value is its own mark, or in one of its members.           *)
LEMMA OccursInside ==
    ASSUME NEW v, Formed(v)
    PROVE  /\ \A x : Occurs(v, <<>>, x) <=> x = Mark(v)
           /\ \A k \in AllKeys, q \in AllPaths : \A x :
                 Occurs(v, <<k>> \o q, x) <=> k \in Members(v) /\ Occurs(Inside(v, k), q, x)
<1>1. v # Failure  BY FormedDown, Nodes
<1>2. ASSUME NEW x PROVE Occurs(v, <<>>, x) <=> x = Mark(v)
  <2> DEFINE f == [i \in 0..0 |-> v]
  <2>1. Trail(v, <<>>, f) /\ \A g : Trail(v, <<>>, g) => g[Len(<<>>)] = v  BY NoTrail
  <2> HIDE DEF f
  <2> QED  BY <1>1, <2>1 DEF Occurs
<1>3. ASSUME NEW k \in AllKeys, NEW q \in AllPaths, NEW x
      PROVE  Occurs(v, <<k>> \o q, x) <=> k \in Members(v) /\ Occurs(Inside(v, k), q, x)
  <2>1. ASSUME Occurs(v, <<k>> \o q, x) PROVE k \in Members(v) /\ Occurs(Inside(v, k), q, x)
    <3>1. PICK f : Trail(v, <<k>> \o q, f) /\ x = Mark(f[Len(<<k>> \o q)])  BY <2>1 DEF Occurs
    <3>2. /\ k \in Members(v)
          /\ \E g : Trail(Inside(v, k), q, g) /\ g[Len(q)] = f[Len(<<k>> \o q)]
      BY <3>1, TrailDown
    <3>3. Inside(v, k) # Failure  BY <3>2, FormedDown
    <3> QED  BY <3>1, <3>2, <3>3 DEF Occurs
  <2>2. ASSUME k \in Members(v), Occurs(Inside(v, k), q, x) PROVE Occurs(v, <<k>> \o q, x)
    <3>1. PICK g : Trail(Inside(v, k), q, g) /\ x = Mark(g[Len(q)])  BY <2>2 DEF Occurs
    <3>2. \E f : Trail(v, <<k>> \o q, f) /\ f[Len(<<k>> \o q)] = g[Len(q)]
      BY <2>2, <3>1, TrailUp
    <3> QED  BY <1>1, <3>1, <3>2 DEF Occurs
  <2> QED  BY <2>1, <2>2
<1> QED  BY <1>2, <1>3
--------------------------------------------------------------------------------
(***************************************************************************)
(* A set of places shows a value if it says, for every path, what is there;*)
(* nothing shows a failure.  The rest of this module is that every operator*)
(* of the reference shows what the code's operator makes.                  *)
(***************************************************************************)
Proper(P) == \A r \in P : r.path \in AllPaths /\ r = Place(r.path, r.what)
Describes(P, v) == /\ Proper(P)
                   /\ \A p \in AllPaths : \A x : Place(p, x) \in P <=> Occurs(v, p, x)
Shows(P, v) == IF v = Failure THEN P = {} ELSE Formed(v) /\ Describes(P, v)

(* Two sets of places are the same if they have the same places.           *)
LEMMA SamePlaces ==
    ASSUME NEW P, NEW Q, Proper(P), Proper(Q),
           \A p \in AllPaths : \A x : Place(p, x) \in P <=> Place(p, x) \in Q
    PROVE  P = Q
<1>1. \A r \in P : r \in Q
  <2> TAKE r \in P
  <2>1. r.path \in AllPaths /\ r = Place(r.path, r.what)  BY DEF Proper
  <2>2. Place(r.path, r.what) \in P  BY <2>1
  <2> QED  BY <2>1, <2>2
<1>2. \A r \in Q : r \in P
  <2> TAKE r \in Q
  <2>1. r.path \in AllPaths /\ r = Place(r.path, r.what)  BY DEF Proper
  <2>2. Place(r.path, r.what) \in Q  BY <2>1
  <2> QED  BY <2>1, <2>2
<1> QED  BY <1>1, <1>2

LEMMA PlaceIs ==
    \A p, x : /\ Place(p, x).path = p /\ Place(p, x).what = x
              /\ \A q, y : Place(p, x) = Place(q, y) <=> p = q /\ x = y
BY DEF Place

LEMMA Repathed ==
    ASSUME NEW p, NEW x, NEW e, NEW r, r = Place(p, x)
    PROVE  [r EXCEPT !.path = e] = Place(e, x)
BY DEF Place

LEMMA ProperPlace ==
    ASSUME NEW P, Proper(P), NEW r \in P
    PROVE  \E p \in AllPaths : \E x : r = Place(p, x)
BY DEF Proper

(* The places under a path, put at a path, and what is left without them.  *)
LEMMA UnderIs ==
    ASSUME NEW P, Proper(P), NEW a \in AllPaths
    PROVE  /\ Proper(Under(P, a))
           /\ \A q \in AllPaths : \A x : Place(q, x) \in Under(P, a) <=> Place(a \o q, x) \in P
<1>1. ASSUME NEW r \in Under(P, a)
      PROVE  \E q \in AllPaths : \E x : r = Place(q, x) /\ Place(a \o q, x) \in P
  <2>1. PICK s \in P : IsPrefix(a, s.path)
                       /\ r = [s EXCEPT !.path = SubSeq(@, Len(a) + 1, Len(@))]
    BY <1>1 DEF Under
  <2>2. PICK p \in AllPaths : \E x : s = Place(p, x)  BY ProperPlace
  <2>3. PICK x : s = Place(p, x)  BY <2>2
  <2>4. s.path = p  BY <2>3, PlaceIs
  <2>5. PICK q \in AllPaths : p = a \o q  BY <2>1, <2>4, Prefixed
  <2>6. SubSeq(s.path, Len(a) + 1, Len(s.path)) = q  BY <2>4, <2>5, Prefixed
  <2>7. [s EXCEPT !.path = q] = Place(q, x)  BY <2>3, Repathed
  <2>8. r = Place(q, x)  BY <2>1, <2>6, <2>7
  <2> QED  BY <2>3, <2>5, <2>8
<1>2. Proper(Under(P, a))
  <2> SUFFICES ASSUME NEW r \in Under(P, a) PROVE r.path \in AllPaths /\ r = Place(r.path, r.what)
    BY DEF Proper
  <2> QED  BY <1>1, PlaceIs
<1>3. ASSUME NEW q \in AllPaths, NEW x, Place(q, x) \in Under(P, a) PROVE Place(a \o q, x) \in P
  <2>1. PICK y \in AllPaths : \E z : Place(q, x) = Place(y, z) /\ Place(a \o y, z) \in P
    BY <1>1, <1>3
  <2> QED  BY <2>1, PlaceIs
<1>4. ASSUME NEW q \in AllPaths, NEW x, Place(a \o q, x) \in P PROVE Place(q, x) \in Under(P, a)
  <2> DEFINE s == Place(a \o q, x)
  <2>1. s.path = a \o q  BY PlaceIs
  <2>2. IsPrefix(a, s.path) /\ SubSeq(s.path, Len(a) + 1, Len(s.path)) = q
    BY <2>1, Prefixed
  <2>3. [s EXCEPT !.path = q] = Place(q, x)  BY Repathed
  <2>4. s \in P  BY <1>4
  <2> HIDE DEF s
  <2>5. [s EXCEPT !.path = SubSeq(@, Len(a) + 1, Len(@))] = Place(q, x)  BY <2>2, <2>3
  <2> QED  BY <2>2, <2>4, <2>5 DEF Under
<1> QED  BY <1>2, <1>3, <1>4

LEMMA PutAtIs ==
    ASSUME NEW P, Proper(P), NEW a \in AllPaths
    PROVE  /\ Proper(PutAt(P, a))
           /\ \A p \in AllPaths : \A x :
                 Place(p, x) \in PutAt(P, a)
                   <=> \E q \in AllPaths : p = a \o q /\ Place(q, x) \in P
<1>1. ASSUME NEW r \in PutAt(P, a)
      PROVE  \E q \in AllPaths : \E x : r = Place(a \o q, x) /\ Place(q, x) \in P
  <2>1. PICK s \in P : r = [s EXCEPT !.path = a \o @]
    BY <1>1 DEF PutAt
  <2>2. PICK q \in AllPaths : \E x : s = Place(q, x)  BY ProperPlace
  <2>3. PICK x : s = Place(q, x)  BY <2>2
  <2>4. s.path = q  BY <2>3, PlaceIs
  <2>5. [s EXCEPT !.path = a \o q] = Place(a \o q, x)
    <3> DEFINE e == a \o q
    <3> HIDE DEF e
    <3>1. [s EXCEPT !.path = e] = Place(e, x)  BY <2>3, Repathed
    <3> QED  BY <3>1 DEF e
  <2>6. r = Place(a \o q, x)  BY <2>1, <2>4, <2>5
  <2> QED  BY <2>3, <2>6
<1>2. Proper(PutAt(P, a))
  <2> SUFFICES ASSUME NEW r \in PutAt(P, a) PROVE r.path \in AllPaths /\ r = Place(r.path, r.what)
    BY DEF Proper
  <2> QED  BY <1>1, PlaceIs, Paths
<1>3. ASSUME NEW p \in AllPaths, NEW x, Place(p, x) \in PutAt(P, a)
      PROVE  \E q \in AllPaths : p = a \o q /\ Place(q, x) \in P
  <2>1. PICK y \in AllPaths : \E z : Place(p, x) = Place(a \o y, z) /\ Place(y, z) \in P
    BY <1>1, <1>3
  <2>2. PICK z : Place(p, x) = Place(a \o y, z) /\ Place(y, z) \in P  BY <2>1
  <2>3. p = a \o y /\ x = z  BY <2>2 DEF Place
  <2> QED  BY <2>2, <2>3
<1>4. ASSUME NEW q \in AllPaths, NEW x, Place(q, x) \in P PROVE Place(a \o q, x) \in PutAt(P, a)
  <2> DEFINE s == Place(q, x)
  <2>0. [s EXCEPT !.path = a \o q] = Place(a \o q, x)
    <3> DEFINE e == a \o q
    <3> HIDE DEF e
    <3>1. [s EXCEPT !.path = e] = Place(e, x)  BY Repathed
    <3> QED  BY <3>1 DEF e
  <2>1. [s EXCEPT !.path = a \o q] = Place(a \o q, x) /\ s.path = q  BY <2>0, PlaceIs
  <2>2. s \in P  BY <1>4
  <2> HIDE DEF s
  <2>3. [s EXCEPT !.path = a \o @] = Place(a \o q, x)  BY <2>1
  <2> QED  BY <2>2, <2>3 DEF PutAt
<1> QED  BY <1>2, <1>3, <1>4

LEMMA PutUnder ==
    ASSUME NEW P, Proper(P), NEW a \in AllPaths, NEW q \in AllPaths, NEW x
    PROVE  Place(a \o q, x) \in PutAt(P, a) <=> Place(q, x) \in P
<1>1. a \o q \in AllPaths  BY Paths
<1>2. Place(a \o q, x) \in PutAt(P, a)
        <=> \E y \in AllPaths : a \o q = a \o y /\ Place(y, x) \in P
  BY <1>1, PutAtIs
<1> QED  BY <1>2, Cancels

LEMMA PrunedIs ==
    ASSUME NEW P, Proper(P), NEW a \in AllPaths
    PROVE  /\ Proper(Pruned(P, a))
           /\ \A p \in AllPaths : \A x :
                 Place(p, x) \in Pruned(P, a)
                   <=> Place(p, x) \in P /\ ~\E q \in AllPaths : p = a \o q
<1>1. Proper(Pruned(P, a))  BY DEF Proper, Pruned
<1>2. ASSUME NEW p \in AllPaths, NEW x
      PROVE  Place(p, x) \in Pruned(P, a)
                   <=> Place(p, x) \in P /\ ~\E q \in AllPaths : p = a \o q
  <2>1. Place(p, x) \in Pruned(P, a) <=> Place(p, x) \in P /\ ~IsPrefix(a, p)
    BY PlaceIs DEF Pruned
  <2>2. IsPrefix(a, p) <=> \E q \in AllPaths : p = a \o q  BY Prefixed
  <2> QED  BY <2>1, <2>2
<1> QED  BY <1>1, <1>2

LEMMA ProperUnion == \A P, Q : Proper(P) /\ Proper(Q) => Proper(P \cup Q)
BY DEF Proper

(* What shows a value shows its members, and the other way.               *)
LEMMA ShowsUp ==
    ASSUME NEW P, NEW v, Formed(v), Proper(P),
           \A x : Place(<<>>, x) \in P <=> x = Mark(v),
           \A k \in AllKeys, q \in AllPaths : \A x :
              Place(<<k>> \o q, x) \in P <=> k \in Members(v) /\ Occurs(Inside(v, k), q, x)
    PROVE  Shows(P, v)
<1>1. v # Failure  BY FormedDown, Nodes
<1>2. ASSUME NEW p \in AllPaths, NEW x PROVE Place(p, x) \in P <=> Occurs(v, p, x)
  <2>1. CASE p = <<>>  BY <2>1, OccursInside
  <2>2. ASSUME NEW k \in AllKeys, NEW q \in AllPaths, p = <<k>> \o q
        PROVE  Place(p, x) \in P <=> Occurs(v, p, x)
    BY <2>2, OccursInside
  <2> QED  BY <2>1, <2>2, Split
<1> QED  BY <1>1, <1>2 DEF Shows, Describes

LEMMA ShowsDown ==
    ASSUME NEW P, NEW v, Shows(P, v), v # Failure
    PROVE  /\ Formed(v) /\ Proper(P) /\ IsNode(v) /\ Members(v) \subseteq AllKeys
           /\ \A x : Place(<<>>, x) \in P <=> x = Mark(v)
           /\ \A k \in AllKeys, q \in AllPaths : \A x :
                 Place(<<k>> \o q, x) \in P <=> k \in Members(v) /\ Occurs(Inside(v, k), q, x)
           /\ \A k \in AllKeys : Has(P, k) <=> k \in Members(v)
           /\ IsList(P) <=> v.type = "list"
           /\ IsObject(P) <=> v.type = "object"
<1>1. Formed(v) /\ Proper(P) /\ \A p \in AllPaths : \A x : Place(p, x) \in P <=> Occurs(v, p, x)
  BY DEF Shows, Describes
<1>2. IsNode(v) /\ Members(v) \subseteq AllKeys  BY <1>1, FormedDown, Nodes
<1>3. \A x : Place(<<>>, x) \in P <=> x = Mark(v)
  BY <1>1, OccursInside, Paths
<1>4. \A k \in AllKeys, q \in AllPaths : \A x :
         Place(<<k>> \o q, x) \in P <=> k \in Members(v) /\ Occurs(Inside(v, k), q, x)
  <2> TAKE k \in AllKeys, q \in AllPaths
  <2> TAKE x
  <2>1. <<k>> \o q \in AllPaths  BY NotEmpty
  <2> QED  BY <1>1, <2>1, OccursInside
<1>5. ASSUME NEW k \in AllKeys PROVE Has(P, k) <=> k \in Members(v)
  <2>1. <<k>> \o <<>> = <<k>> /\ <<>> \in AllPaths /\ <<k>> \in AllPaths  BY Paths
  <2>2. ASSUME Has(P, k) PROVE k \in Members(v)
    <3>1. PICK r \in P : r.path = <<k>>  BY <2>2 DEF Has
    <3>2. r = Place(<<k>>, r.what)  BY <1>1, <3>1 DEF Proper
    <3> QED  BY <1>4, <2>1, <3>2
  <2>3. ASSUME k \in Members(v) PROVE Has(P, k)
    <3>1. Formed(Inside(v, k))  BY <1>1, <2>3, FormedDown
    <3>2. Occurs(Inside(v, k), <<>>, Mark(Inside(v, k)))  BY <3>1, OccursInside
    <3>3. Place(<<k>>, Mark(Inside(v, k))) \in P  BY <1>4, <2>1, <2>3, <3>2
    <3> QED  BY <3>3, PlaceIs DEF Has
  <2> QED  BY <2>2, <2>3
<1>6. IsList(P) <=> Mark(v) = <<"list">>  BY <1>3 DEF IsList, Place
<1>7. IsObject(P) <=> Mark(v) = <<"object">>  BY <1>3 DEF IsObject, Place
<1>8. <<"list">> # <<"object">>  OBVIOUS
<1>9. \A y : <<"leaf", y>> # <<"list">> /\ <<"leaf", y>> # <<"object">>  OBVIOUS
<1>10. /\ Mark(v) = <<"list">> <=> v.type = "list"
       /\ Mark(v) = <<"object">> <=> v.type = "object"
  BY <1>2, <1>8, <1>9, Nodes
<1> QED  BY <1>1, <1>2, <1>3, <1>4, <1>5, <1>6, <1>7, <1>10

LEMMA ShowsNone ==
    ASSUME NEW P, Shows(P, Failure)
    PROVE  P = {} /\ ~IsList(P) /\ ~IsObject(P) /\ \A k : ~Has(P, k)
<1>1. P = {}  BY DEF Shows
<1> QED  BY <1>1 DEF IsList, IsObject, Has

(* What is under a key shows the member, if the value has it.              *)
LEMMA ShowsMember ==
    ASSUME NEW P, NEW v, Shows(P, v), NEW k \in AllKeys
    PROVE  Shows(Under(P, <<k>>),
                 IF v # Failure /\ k \in Members(v) THEN Inside(v, k) ELSE Failure)
<1>1. <<k>> \in AllPaths  BY Paths
<1>2. CASE v = Failure
  <2>1. P = {}  BY <1>2 DEF Shows
  <2>2. Under(P, <<k>>) = {}  BY <2>1 DEF Under
  <2> QED  BY <1>2, <2>2 DEF Shows
<1>3. CASE v # Failure
  <2>1. /\ Formed(v) /\ Proper(P)
        /\ \A q \in AllPaths : \A x :
              Place(<<k>> \o q, x) \in P <=> k \in Members(v) /\ Occurs(Inside(v, k), q, x)
    BY <1>3, ShowsDown
  <2>2. /\ Proper(Under(P, <<k>>))
        /\ \A q \in AllPaths : \A x :
              Place(q, x) \in Under(P, <<k>>) <=> k \in Members(v) /\ Occurs(Inside(v, k), q, x)
    BY <1>1, <2>1, UnderIs
  <2>3. CASE k \in Members(v)
    <3>1. Formed(Inside(v, k)) /\ Inside(v, k) # Failure  BY <2>1, <2>3, FormedDown
    <3> QED  BY <1>3, <2>2, <2>3, <3>1 DEF Shows, Describes
  <2>4. CASE k \notin Members(v)
    <3>1. Under(P, <<k>>) = {}  BY <2>2, <2>4, ProperPlace
    <3> QED  BY <2>4, <3>1 DEF Shows
  <2> QED  BY <2>3, <2>4
<1> QED  BY <1>2, <1>3

(* What the operators on lists do, item by item, counted from 0.           *)
LEMMA Inserted ==
    ASSUME NEW S, NEW s \in Seq(S), NEW e \in S, NEW i \in 0..Len(s)
    PROVE  /\ InsertAt(s, i + 1, e) \in Seq(S) /\ Len(InsertAt(s, i + 1, e)) = Len(s) + 1
           /\ \A j \in 0..Len(s) : InsertAt(s, i + 1, e)[j + 1] =
                 IF j < i THEN s[j + 1] ELSE IF j = i THEN e ELSE s[j]
<1> DEFINE n == Len(s)
           a == SubSeq(s, 0 + 1, i)
           b == SubSeq(s, i + 1, n)
           c == a \o <<e>>
           r == c \o b
<1>0. n \in Nat /\ i \in Nat /\ i <= n /\ 0 <= i  BY LenProperties
<1>1. a \in Seq(S) /\ Len(a) = i - 0 /\ \A k \in 1..(i - 0) : a[k] = s[0 + k]
  BY <1>0, Part
<1>2. b \in Seq(S) /\ Len(b) = n - i /\ \A k \in 1..(n - i) : b[k] = s[i + k]
  BY <1>0, Part
<1>3. InsertAt(s, i + 1, e) = r
  <2>1. (i + 1) - 1 = i /\ 0 + 1 = 1  BY <1>0
  <2> QED  BY <2>1 DEF InsertAt
<1>4. <<e>> \in Seq(S) /\ Len(<<e>>) = 1 /\ <<e>>[1] = e  OBVIOUS
<1> HIDE DEF a, b, n
<1>5. c \in Seq(S) /\ Len(c) = i + 1 /\ \A k \in 1..(i + 1) : c[k] = IF k <= i THEN s[k] ELSE e
  <2>1. Len(a) = i /\ i + 1 = Len(a) + Len(<<e>>)  BY <1>0, <1>1, <1>4
  <2>2. c \in Seq(S) /\ Len(c) = i + 1
        /\ \A k \in 1..(i + 1) : c[k] = IF k <= i THEN a[k] ELSE <<e>>[k - i]
    BY <1>1, <1>4, <2>1, ConcatAt
  <2>3. \A k \in 1..(i + 1) : ~(k <= i) => k - i = 1  BY <1>0
  <2>4. \A k \in 1..(i + 1) : k <= i => a[k] = s[k]  BY <1>0, <1>1
  <2> HIDE DEF c
  <2> QED  BY <1>4, <2>2, <2>3, <2>4
<1> HIDE DEF c
<1>6. r \in Seq(S) /\ Len(r) = n + 1
      /\ \A k \in 1..(n + 1) : r[k] = IF k <= i + 1 THEN c[k] ELSE b[k - (i + 1)]
  <2>1. n + 1 = Len(c) + Len(b) /\ i + 1 = Len(c)  BY <1>0, <1>2, <1>5
  <2>2. r \in Seq(S) /\ Len(r) = Len(c) + Len(b)
        /\ \A k \in 1..(Len(c) + Len(b)) : r[k] = IF k <= Len(c) THEN c[k] ELSE b[k - Len(c)]
    BY <1>2, <1>5, ConcatProperties
  <2> HIDE DEF r
  <2> QED  BY <2>1, <2>2
<1> HIDE DEF r
<1>7. ASSUME NEW j \in 0..n
      PROVE  r[j + 1] = IF j < i THEN s[j + 1] ELSE IF j = i THEN e ELSE s[j]
  <2>1. CASE j <= i
    <3>1. j + 1 \in 1..(n + 1) /\ j + 1 \in 1..(i + 1) /\ (j + 1 <= i <=> j < i)  BY <1>0, <2>1
    <3>2. r[j + 1] = c[j + 1]  BY <1>6, <3>1
    <3> QED  BY <1>5, <2>1, <3>1, <3>2
  <2>2. CASE i < j
    <3>1. j + 1 \in 1..(n + 1) /\ ~(j + 1 <= i + 1) /\ (j + 1) - (i + 1) = j - i
          /\ j - i \in 1..(n - i) /\ i + (j - i) = j
      BY <1>0, <2>2
    <3>2. r[j + 1] = b[j - i]  BY <1>6, <3>1
    <3>3. b[j - i] = s[i + (j - i)]  BY <1>2, <3>1
    <3>4. ~(j < i) /\ j # i  BY <1>0, <2>2
    <3> QED  BY <3>1, <3>2, <3>3, <3>4
  <2> QED  BY <1>0, <2>1, <2>2
<1> QED  BY <1>3, <1>6, <1>7 DEF n

LEMMA Removed ==
    ASSUME NEW S, NEW s \in Seq(S), NEW i \in 0..(Len(s) - 1)
    PROVE  /\ RemoveAt(s, i + 1) \in Seq(S) /\ Len(RemoveAt(s, i + 1)) = Len(s) - 1
           /\ \A j \in 0..(Len(s) - 2) : RemoveAt(s, i + 1)[j + 1] =
                 IF j < i THEN s[j + 1] ELSE s[j + 2]
<1> DEFINE n == Len(s)
           a == SubSeq(s, 0 + 1, i)
           b == SubSeq(s, (i + 1) + 1, n)
           r == a \o b
<1>0. n \in Nat /\ i \in Nat /\ i + 1 \in Nat /\ i + 1 <= n /\ i <= n /\ 0 <= i
  BY LenProperties
<1>1. a \in Seq(S) /\ Len(a) = i - 0 /\ \A k \in 1..(i - 0) : a[k] = s[0 + k]
  BY <1>0, Part
<1>2. b \in Seq(S) /\ Len(b) = n - (i + 1) /\ \A k \in 1..(n - (i + 1)) : b[k] = s[(i + 1) + k]
  BY <1>0, Part
<1>3. RemoveAt(s, i + 1) = r
  <2>1. (i + 1) - 1 = i /\ 0 + 1 = 1  BY <1>0
  <2> QED  BY <2>1 DEF RemoveAt
<1> HIDE DEF a, b, n
<1>6. r \in Seq(S) /\ Len(r) = n - 1
      /\ \A k \in 1..(n - 1) : r[k] = IF k <= i THEN a[k] ELSE b[k - i]
  <2>1. n - 1 = Len(a) + Len(b) /\ i = Len(a)  BY <1>0, <1>1, <1>2
  <2>2. r \in Seq(S) /\ Len(r) = Len(a) + Len(b)
        /\ \A k \in 1..(Len(a) + Len(b)) : r[k] = IF k <= Len(a) THEN a[k] ELSE b[k - Len(a)]
    BY <1>1, <1>2, ConcatProperties
  <2> HIDE DEF r
  <2> QED  BY <2>1, <2>2
<1> HIDE DEF r
<1>7. ASSUME NEW j \in 0..(n - 2)
      PROVE  r[j + 1] = IF j < i THEN s[j + 1] ELSE s[j + 2]
  <2>1. CASE j < i
    <3>1. j + 1 \in 1..(n - 1) /\ j + 1 <= i /\ j + 1 \in 1..(i - 0) /\ 0 + (j + 1) = j + 1
      BY <1>0, <2>1
    <3>2. r[j + 1] = a[j + 1]  BY <1>6, <3>1
    <3>3. a[j + 1] = s[0 + (j + 1)]  BY <1>1, <3>1
    <3> QED  BY <2>1, <3>1, <3>2, <3>3
  <2>2. CASE i <= j
    <3>1. j + 1 \in 1..(n - 1) /\ ~(j + 1 <= i) /\ (j + 1) - i \in 1..(n - (i + 1))
          /\ (i + 1) + ((j + 1) - i) = j + 2 /\ ~(j < i)
      BY <1>0, <2>2
    <3>2. r[j + 1] = b[(j + 1) - i]  BY <1>6, <3>1
    <3>3. b[(j + 1) - i] = s[(i + 1) + ((j + 1) - i)]  BY <1>2, <3>1
    <3> QED  BY <3>1, <3>2, <3>3
  <2> QED  BY <1>0, <2>1, <2>2
<1> QED  BY <1>3, <1>6, <1>7 DEF n

--------------------------------------------------------------------------------
(* An object or a list of given members.                                   *)
LEMMA NewObject ==
    ASSUME NEW f, f = [k \in DOMAIN f |-> f[k]], DOMAIN f \subseteq STRING
    PROVE  /\ IsNode(Object(f)) /\ Mark(Object(f)) = <<"object">>
           /\ Members(Object(f)) = {<<"member", k>> : k \in DOMAIN f}
           /\ \A k : Inside(Object(f), <<"member", k>>) = f[k]
<1>1. Object(f).type = "object" /\ Object(f).fields = f  BY DEF Object
<1> QED  BY <1>1 DEF IsNode, Mark, Members, Inside

LEMMA NewList ==
    ASSUME NEW S, NEW s \in Seq(S)
    PROVE  /\ IsNode(List(s)) /\ Mark(List(s)) = <<"list">>
           /\ Members(List(s)) = {<<"item", i>> : i \in 0..(Len(s) - 1)}
           /\ \A i : Inside(List(s), <<"item", i>>) = s[i + 1]
<1>1. List(s).type = "list" /\ List(s).items = s  BY DEF List
<1>2. s \in Seq(Range(s))  BY SeqOfRange
<1>3. "item" # "member" /\ "list" # "object"  OBVIOUS
<1> QED  BY <1>1, <1>2, <1>3 DEF IsNode, Mark, Members, Inside

(* Nothing is shown of a failure, and something of everything else.        *)
LEMMA ShowsSome ==
    ASSUME NEW P, NEW v, Shows(P, v)
    PROVE  P = {} <=> v = Failure
<1>1. ASSUME v # Failure PROVE P # {}
  <2>1. Place(<<>>, Mark(v)) \in P  BY <1>1, ShowsDown
  <2> QED  BY <2>1
<1> QED  BY <1>1 DEF Shows

(* An object or a list with one member set to another value.              *)
LEMMA AssignedIs ==
    ASSUME NEW P, NEW V, Proper(P), Proper(V), NEW k \in AllKeys
    PROVE  /\ Proper(Assigned(P, k, V))
           /\ \A x : Place(<<>>, x) \in Assigned(P, k, V) <=> Place(<<>>, x) \in P
           /\ \A l \in AllKeys, q \in AllPaths : \A x :
                Place(<<l>> \o q, x) \in Assigned(P, k, V)
                   <=> IF l = k THEN Place(q, x) \in V ELSE Place(<<l>> \o q, x) \in P
<1>1. <<k>> \in AllPaths /\ <<>> \in AllPaths  BY Paths
<1>2. Proper(Assigned(P, k, V))  BY <1>1, PrunedIs, PutAtIs, ProperUnion DEF Assigned
<1>3. \A q \in AllPaths : <<>> # <<k>> \o q  BY NotEmpty
<1>4. ASSUME NEW x PROVE Place(<<>>, x) \in Assigned(P, k, V) <=> Place(<<>>, x) \in P
  <2>1. Place(<<>>, x) \in Pruned(P, <<k>>) <=> Place(<<>>, x) \in P  BY <1>1, <1>3, PrunedIs
  <2>2. Place(<<>>, x) \in PutAt(V, <<k>>)
          <=> \E q \in AllPaths : <<>> = <<k>> \o q /\ Place(q, x) \in V
    BY <1>1, PutAtIs
  <2> QED  BY <1>3, <2>1, <2>2 DEF Assigned
<1>5. ASSUME NEW l \in AllKeys, NEW q \in AllPaths, NEW x
      PROVE  Place(<<l>> \o q, x) \in Assigned(P, k, V)
                   <=> IF l = k THEN Place(q, x) \in V ELSE Place(<<l>> \o q, x) \in P
  <2>1. <<l>> \o q \in AllPaths  BY NotEmpty
  <2>2. (\E y \in AllPaths : <<l>> \o q = <<k>> \o y) <=> l = k  BY SameHead
  <2>3. Place(<<l>> \o q, x) \in Pruned(P, <<k>>) <=> Place(<<l>> \o q, x) \in P /\ l # k
    BY <1>1, <2>1, <2>2, PrunedIs
  <2>4. Place(<<l>> \o q, x) \in PutAt(V, <<k>>) <=> l = k /\ Place(q, x) \in V
    <3>1. Place(<<l>> \o q, x) \in PutAt(V, <<k>>)
            <=> \E y \in AllPaths : <<l>> \o q = <<k>> \o y /\ Place(y, x) \in V
      BY <1>1, <2>1, PutAtIs
    <3> QED  BY <3>1, SameHead
  <2> QED  BY <2>3, <2>4 DEF Assigned
<1> QED  BY <1>2, <1>4, <1>5

LEMMA ShowsAssigned ==
    ASSUME NEW P, NEW u, Shows(P, u), u # Failure, NEW V, NEW c, Shows(V, c), c # Failure,
           NEW k \in AllKeys, NEW w, IsNode(w), Mark(w) = Mark(u),
           Members(w) = Members(u) \cup {k},
           \A l \in Members(w) : Inside(w, l) = IF l = k THEN c ELSE Inside(u, l)
    PROVE  Shows(Assigned(P, k, V), w)
<1>1. /\ Formed(u) /\ Proper(P)
      /\ \A x : Place(<<>>, x) \in P <=> x = Mark(u)
      /\ \A l \in AllKeys, q \in AllPaths : \A x :
            Place(<<l>> \o q, x) \in P <=> l \in Members(u) /\ Occurs(Inside(u, l), q, x)
  BY ShowsDown
<1>2. Formed(c) /\ Proper(V) /\ \A q \in AllPaths : \A x : Place(q, x) \in V <=> Occurs(c, q, x)
  BY DEF Shows, Describes
<1>3. Formed(w)
  <2>1. \A l \in Members(w) : Formed(Inside(w, l))  BY <1>1, <1>2, FormedDown
  <2> QED  BY <2>1, FormedUp
<1>4. Proper(Assigned(P, k, V)) /\ \A x : Place(<<>>, x) \in Assigned(P, k, V) <=> x = Mark(w)
  BY <1>1, <1>2, AssignedIs
<1>5. ASSUME NEW l \in AllKeys, NEW q \in AllPaths, NEW x
      PROVE  Place(<<l>> \o q, x) \in Assigned(P, k, V)
                <=> l \in Members(w) /\ Occurs(Inside(w, l), q, x)
  <2>1. Place(<<l>> \o q, x) \in Assigned(P, k, V)
                   <=> IF l = k THEN Place(q, x) \in V ELSE Place(<<l>> \o q, x) \in P
    BY <1>1, <1>2, AssignedIs
  <2>2. CASE l = k  BY <1>2, <2>1, <2>2
  <2>3. CASE l # k  BY <1>1, <2>1, <2>3
  <2> QED  BY <2>2, <2>3
<1> QED  BY <1>3, <1>4, <1>5, ShowsUp

LEMMA PrunedHead ==
    ASSUME NEW P, Proper(P), NEW k \in AllKeys
    PROVE  /\ Proper(Pruned(P, <<k>>))
           /\ \A x : Place(<<>>, x) \in Pruned(P, <<k>>) <=> Place(<<>>, x) \in P
           /\ \A l \in AllKeys, q \in AllPaths : \A x :
                Place(<<l>> \o q, x) \in Pruned(P, <<k>>)
                   <=> l # k /\ Place(<<l>> \o q, x) \in P
<1>1. <<k>> \in AllPaths /\ <<>> \in AllPaths  BY Paths
<1>2. \A q \in AllPaths : <<>> # <<k>> \o q  BY NotEmpty
<1>3. ASSUME NEW l \in AllKeys, NEW q \in AllPaths, NEW x
      PROVE  Place(<<l>> \o q, x) \in Pruned(P, <<k>>) <=> l # k /\ Place(<<l>> \o q, x) \in P
  <2>1. <<l>> \o q \in AllPaths  BY NotEmpty
  <2>2. (\E y \in AllPaths : <<l>> \o q = <<k>> \o y) <=> l = k  BY SameHead
  <2> QED  BY <1>1, <2>1, <2>2, PrunedIs
<1> QED  BY <1>1, <1>2, <1>3, PrunedIs

(* An object without one of its members.                                   *)
LEMMA ShowsPruned ==
    ASSUME NEW P, NEW u, Shows(P, u), u # Failure,
           NEW k \in AllKeys, NEW w, IsNode(w), Mark(w) = Mark(u),
           Members(w) = Members(u) \ {k},
           \A l \in Members(w) : Inside(w, l) = Inside(u, l)
    PROVE  Shows(Pruned(P, <<k>>), w)
<1>1. /\ Formed(u) /\ Proper(P)
      /\ \A x : Place(<<>>, x) \in P <=> x = Mark(u)
      /\ \A l \in AllKeys, q \in AllPaths : \A x :
            Place(<<l>> \o q, x) \in P <=> l \in Members(u) /\ Occurs(Inside(u, l), q, x)
  BY ShowsDown
<1>3. Formed(w)
  <2>1. \A l \in Members(w) : Formed(Inside(w, l))  BY <1>1, FormedDown
  <2> QED  BY <2>1, FormedUp
<1>4. /\ Proper(Pruned(P, <<k>>)) /\ \A x : Place(<<>>, x) \in Pruned(P, <<k>>) <=> x = Mark(w)
      /\ \A l \in AllKeys, q \in AllPaths : \A x :
            Place(<<l>> \o q, x) \in Pruned(P, <<k>>) <=> l # k /\ Place(<<l>> \o q, x) \in P
  BY <1>1, PrunedHead
<1>5. ASSUME NEW l \in AllKeys, NEW q \in AllPaths, NEW x
      PROVE  Place(<<l>> \o q, x) \in Pruned(P, <<k>>)
                <=> l \in Members(w) /\ Occurs(Inside(w, l), q, x)
  BY <1>1, <1>4
<1> QED  BY <1>3, <1>4, <1>5, ShowsUp

Item(i) == <<"item", i>>

LEMMA ItemIs ==
    \A i \in Int : Item(i) \in AllKeys /\ Item(i)[1] = "item" /\ Item(i)[2] = i
                   /\ \A j : Item(i) = Item(j) <=> i = j
BY DEF Item, AllKeys

(* What Shifted makes of the places of a list.                            *)
LEMMA ShiftedIs ==
    ASSUME NEW P, Proper(P), NEW n \in Int, NEW d \in Int,
           \A l \in AllKeys, q \in AllPaths : \A x :
              Place(<<l>> \o q, x) \in P => \E i \in Int : l = Item(i)
    PROVE  /\ Proper(Shifted(P, n, d))
           /\ \A x : Place(<<>>, x) \in Shifted(P, n, d) <=> Place(<<>>, x) \in P
           /\ \A l \in AllKeys, q \in AllPaths : \A x :
                Place(<<l>> \o q, x) \in Shifted(P, n, d)
                   <=> \E i \in Int : /\ Place(<<Item(i)>> \o q, x) \in P
                                      /\ l = IF i >= n THEN Item(i + d) ELSE Item(i)
<1> DEFINE Moves(p) == p.path # <<>> /\ p.path[1][2] >= n
           To(p) == [p EXCEPT !.path = <<<<"item", @[1][2] + d>>>> \o Tail(@)]
           Sh(p) == IF Moves(p) THEN To(p) ELSE p
<1>1. \A r : r \in Shifted(P, n, d) <=> \E s \in P : r = Sh(s)
  BY DEF Shifted
<1>2. \A x : Sh(Place(<<>>, x)) = Place(<<>>, x)
  BY PlaceIs
<1>3. ASSUME NEW i \in Int, NEW q \in AllPaths, NEW x
      PROVE  Sh(Place(<<Item(i)>> \o q, x))
               = Place(<<IF i >= n THEN Item(i + d) ELSE Item(i)>> \o q, x)
  <2> DEFINE p == <<Item(i)>> \o q
             s == Place(p, x)
             e == <<Item(i + d)>> \o q
  <2>1. p # <<>> /\ p[1] = Item(i) /\ Tail(p) = q /\ Item(i)[2] = i
    BY ItemIs, NotEmpty
  <2> HIDE DEF p
  <2>2. s.path = p /\ (Moves(s) <=> i >= n)  BY <2>1, PlaceIs
  <2> HIDE DEF e, s, Moves
  <2>3. [s EXCEPT !.path = e] = Place(e, x)  BY Repathed DEF s
  <2>4. <<<<"item", s.path[1][2] + d>>>> \o Tail(s.path) = e  BY <2>1, <2>2 DEF e, Item
  <2>5. To(s) = Place(e, x)  BY <2>3, <2>4
  <2> HIDE DEF To
  <2>6. CASE i >= n
    BY <2>2, <2>5, <2>6 DEF s, e, p
  <2>7. CASE ~(i >= n)
    BY <2>2, <2>7 DEF s, p
  <2> QED  BY <2>6, <2>7
<1> HIDE DEF Sh
<1>4. ASSUME NEW s \in P
      PROVE  \/ \E x : s = Place(<<>>, x)
             \/ \E i \in Int : \E q \in AllPaths : \E x : s = Place(<<Item(i)>> \o q, x)
  <2>1. PICK p \in AllPaths : \E x : s = Place(p, x)  BY ProperPlace
  <2>2. PICK x : s = Place(p, x)  BY <2>1
  <2>3. CASE p = <<>>  BY <2>2, <2>3
  <2>4. CASE p # <<>>
    <3>1. PICK l \in AllKeys, q \in AllPaths : p = <<l>> \o q  BY <2>4, Split
    <3>2. Place(<<l>> \o q, x) \in P  BY <2>2, <3>1
    <3>3. PICK i \in Int : l = Item(i)  BY <3>2
    <3>4. s = Place(<<Item(i)>> \o q, x)  BY <2>2, <3>1, <3>3
    <3> HIDE DEF Sh
    <3> QED  BY <3>4
  <2> QED  BY <2>3, <2>4
<1>5. \A i \in Int : (IF i >= n THEN Item(i + d) ELSE Item(i)) \in AllKeys
  BY ItemIs
<1>6. ASSUME NEW r \in Shifted(P, n, d) PROVE r.path \in AllPaths /\ r = Place(r.path, r.what)
  <2>1. PICK s \in P : r = Sh(s)  BY <1>1, <1>6
  <2>2. CASE \E x : s = Place(<<>>, x)  BY <1>2, <2>1, <2>2, PlaceIs, Paths
  <2>3. ASSUME NEW i \in Int, NEW q \in AllPaths, NEW x, s = Place(<<Item(i)>> \o q, x)
        PROVE  r.path \in AllPaths /\ r = Place(r.path, r.what)
    <3> DEFINE k == IF i >= n THEN Item(i + d) ELSE Item(i)
    <3>1. r = Place(<<k>> \o q, x)  BY <1>3, <2>1, <2>3
    <3>2. <<k>> \o q \in AllPaths  BY <1>5, NotEmpty
    <3> QED  BY <3>1, <3>2, PlaceIs
  <2> QED  BY <1>4, <2>2, <2>3
<1>7. ASSUME NEW x PROVE Place(<<>>, x) \in Shifted(P, n, d) <=> Place(<<>>, x) \in P
  <2>1. ASSUME Place(<<>>, x) \in P PROVE Place(<<>>, x) \in Shifted(P, n, d)
    BY <1>1, <1>2, <2>1
  <2>2. ASSUME Place(<<>>, x) \in Shifted(P, n, d) PROVE Place(<<>>, x) \in P
    <3>1. PICK s \in P : Place(<<>>, x) = Sh(s)  BY <1>1, <2>2
    <3>2. CASE \E y : s = Place(<<>>, y)
      <4>1. PICK y : s = Place(<<>>, y)  BY <3>2
      <4>2. Place(<<>>, x) = Place(<<>>, y)  BY <1>2, <3>1, <4>1
      <4> QED  BY <4>1, <4>2
    <3>3. ASSUME NEW i \in Int, NEW q \in AllPaths, NEW y, s = Place(<<Item(i)>> \o q, y)
          PROVE  FALSE
      <4> DEFINE k == IF i >= n THEN Item(i + d) ELSE Item(i)
      <4>1. Place(<<>>, x) = Place(<<k>> \o q, y)  BY <1>3, <3>1, <3>3
      <4>2. <<k>> \o q # <<>>  BY <1>5, NotEmpty
      <4> QED  BY <4>1, <4>2 DEF Place
    <3>4. \E y : s = Place(<<>>, y)  BY <1>4, <3>3
    <3> QED  BY <3>2, <3>4
  <2> QED  BY <2>1, <2>2
<1>8. ASSUME NEW l \in AllKeys, NEW q \in AllPaths, NEW x
      PROVE  Place(<<l>> \o q, x) \in Shifted(P, n, d)
                   <=> \E i \in Int : /\ Place(<<Item(i)>> \o q, x) \in P
                                      /\ l = IF i >= n THEN Item(i + d) ELSE Item(i)
  <2>1. ASSUME NEW i \in Int, Place(<<Item(i)>> \o q, x) \in P,
               l = IF i >= n THEN Item(i + d) ELSE Item(i)
        PROVE  Place(<<l>> \o q, x) \in Shifted(P, n, d)
    BY <1>1, <1>3, <2>1
  <2>2. ASSUME Place(<<l>> \o q, x) \in Shifted(P, n, d)
        PROVE  \E i \in Int : /\ Place(<<Item(i)>> \o q, x) \in P
                              /\ l = IF i >= n THEN Item(i + d) ELSE Item(i)
    <3>1. PICK s \in P : Place(<<l>> \o q, x) = Sh(s)  BY <1>1, <2>2
    <3>2. ASSUME NEW y, s = Place(<<>>, y) PROVE FALSE
      <4>1. Place(<<l>> \o q, x) = Place(<<>>, y)  BY <1>2, <3>1, <3>2
      <4>2. <<l>> \o q # <<>>  BY NotEmpty
      <4> QED  BY <4>1, <4>2 DEF Place
    <3>3. ASSUME NEW i \in Int, NEW p \in AllPaths, NEW y, s = Place(<<Item(i)>> \o p, y)
          PROVE  /\ Place(<<Item(i)>> \o q, x) \in P
                 /\ l = IF i >= n THEN Item(i + d) ELSE Item(i)
      <4> DEFINE k == IF i >= n THEN Item(i + d) ELSE Item(i)
      <4>1. Place(<<l>> \o q, x) = Place(<<k>> \o p, y) /\ k \in AllKeys
        BY <1>3, <1>5, <3>1, <3>3
      <4> HIDE DEF k
      <4>2. <<l>> \o q = <<k>> \o p /\ x = y  BY <4>1 DEF Place
      <4>3. l = k /\ q = p  BY <4>1, <4>2, SameHead
      <4> QED  BY <3>3, <4>2, <4>3 DEF k
    <3> QED  BY <1>4, <3>2, <3>3
  <2> QED  BY <2>1, <2>2
<1>9. Proper(Shifted(P, n, d))  BY <1>6 DEF Proper
<1> QED  BY <1>7, <1>8, <1>9

(* The items of a list, as the places show them.                          *)
LEMMA IndicesIs ==
    ASSUME NEW P, NEW u, Shows(P, u), u # Failure, u.type = "list"
    PROVE  Indices(P) = 0..(Len(u.items) - 1) /\ Cardinality(Indices(P)) = Len(u.items)
<1>1. /\ Proper(P) /\ IsNode(u)
      /\ \A l \in AllKeys, q \in AllPaths : \A x :
            Place(<<l>> \o q, x) \in P => l \in Members(u)
      /\ \A k \in AllKeys : Has(P, k) <=> k \in Members(u)
  BY ShowsDown
<1>2. Members(u) = {Item(i) : i \in 0..(Len(u.items) - 1)} /\ Len(u.items) \in Nat
  BY <1>1, Nodes DEF Item
<1>3. ASSUME NEW r \in P, Len(r.path) = 1 PROVE r.path[1][2] \in 0..(Len(u.items) - 1)
  <2>1. PICK p \in AllPaths : \E x : r = Place(p, x)  BY <1>1, ProperPlace
  <2>2. PICK x : r = Place(p, x)  BY <2>1
  <2>3. r.path = p  BY <2>2, PlaceIs
  <2>4. p # <<>>  BY <1>3, <2>3, Paths
  <2>5. PICK l \in AllKeys, q \in AllPaths : p = <<l>> \o q  BY <2>4, Split
  <2>6. l \in Members(u) /\ p[1] = l  BY <1>1, <2>2, <2>5, NotEmpty
  <2> QED  BY <1>2, <2>3, <2>6, ItemIs
<1>4. ASSUME NEW i \in 0..(Len(u.items) - 1)
      PROVE  \E r \in P : Len(r.path) = 1 /\ r.path[1][2] = i
  <2>1. Item(i) \in Members(u) /\ Item(i) \in AllKeys /\ Item(i)[2] = i  BY <1>2, ItemIs
  <2>2. Has(P, Item(i))  BY <1>1, <2>1
  <2>3. PICK r \in P : r.path = <<Item(i)>>  BY <2>2 DEF Has
  <2>4. Len(<<Item(i)>>) = 1 /\ <<Item(i)>>[1] = Item(i)  BY <2>1, Paths
  <2> QED  BY <2>1, <2>3, <2>4
<1>5. Indices(P) = 0..(Len(u.items) - 1)  BY <1>3, <1>4 DEF Indices
<1>6. Cardinality(0..(Len(u.items) - 1)) = Len(u.items)
  <2>1. 0 \in Int /\ Len(u.items) - 1 \in Int  BY <1>2
  <2>2. Cardinality(0..(Len(u.items) - 1))
          = IF 0 > Len(u.items) - 1 THEN 0 ELSE (Len(u.items) - 1) - 0 + 1
    BY <2>1, FS_Interval
  <2> QED  BY <1>2, <2>2
<1> QED  BY <1>5, <1>6

(* The member a token names.                                              *)
LEMMA KeyIs ==
    ASSUME NEW P, NEW u, Shows(P, u), NEW t \in STRING
    PROVE  /\ Key(P, t) \in AllKeys
           /\ Child(u, t) = IF u # Failure /\ Key(P, t) \in Members(u)
                            THEN Inside(u, Key(P, t)) ELSE Failure
           /\ (u # Failure /\ u.type = "object") => Key(P, t) = <<"member", t>>
           /\ (u # Failure /\ u.type = "list") => \E i \in Int :
                /\ Key(P, t) = Item(i)
                /\ Index(t, Len(u.items), TRUE)
                     = IF i \in 0..Len(u.items) THEN i ELSE -1
                /\ Index(t, Len(u.items), FALSE)
                     = IF i \in 0..(Len(u.items) - 1) THEN i ELSE -1
<1>0. <<"member", t>> \in AllKeys  BY DEF AllKeys
<1>1. CASE u = Failure
  <2>1. ~IsList(P)  BY <1>1, ShowsNone
  <2>2. Child(u, t) = Failure  BY <1>1 DEF Child, Failure
  <2> QED  BY <1>0, <1>1, <2>1, <2>2 DEF Key
<1>2. CASE u # Failure /\ u.type # "list"
  <2>1. ~IsList(P) /\ IsNode(u)  BY <1>2, ShowsDown
  <2>2. Key(P, t) = <<"member", t>>  BY <2>1 DEF Key
  <2>3. CASE u.type = "object"
    <3>1. Members(u) = {<<"member", k>> : k \in DOMAIN u.fields}  BY <2>1, <2>3, Nodes
    <3>2. <<"member", t>> \in Members(u) <=> t \in DOMAIN u.fields  BY <3>1
    <3>3. Inside(u, <<"member", t>>) = u.fields[t]  BY DEF Inside
    <3>4. Child(u, t) = IF t \in DOMAIN u.fields THEN u.fields[t] ELSE Failure
      BY <2>3 DEF Child
    <3> QED  BY <1>0, <1>2, <2>2, <3>2, <3>3, <3>4
  <2>4. CASE u.type # "object"
    <3>1. Members(u) = {}  BY <1>2, <2>1, <2>4, Nodes
    <3>2. Child(u, t) = Failure  BY <1>2, <2>4 DEF Child
    <3> QED  BY <1>0, <1>2, <2>2, <2>4, <3>1, <3>2
  <2> QED  BY <2>3, <2>4
<1>3. CASE u # Failure /\ u.type = "list"
  <2> DEFINE n == Len(u.items)
             i == IF t = "-" THEN Cardinality(Indices(P))
                             ELSE IF t \in DOMAIN IntOf THEN IntOf[t] ELSE -1
  <2>1. IsList(P) /\ IsNode(u)  BY <1>3, ShowsDown
  <2>2. Cardinality(Indices(P)) = n  BY <1>3, IndicesIs
  <2>3. n \in Nat /\ Members(u) = {Item(j) : j \in 0..(n - 1)}  BY <1>3, <2>1, Nodes DEF Item
  <2>4. Key(P, t) = Item(i)  BY <2>1 DEF Key, Item
  <2>5. i = IF t = "-" THEN n ELSE IF t \in DOMAIN IntOf THEN IntOf[t] ELSE -1  BY <2>2
  <2>6. "-" \notin DOMAIN IntOf /\ \A token \in DOMAIN IntOf : IntOf[token] \in Int
    BY PatchAssumption
  <2> HIDE DEF i, n
  <2>7. i \in Int  BY <2>3, <2>5, <2>6
  <2>8. Index(t, n, TRUE) = IF i \in 0..n THEN i ELSE -1
    BY <2>3, <2>5, <2>6 DEF Index
  <2>9. Index(t, n, FALSE) = IF i \in 0..(n - 1) THEN i ELSE -1
    BY <2>3, <2>5, <2>6 DEF Index
  <2>10. Item(i) \in AllKeys /\ (Item(i) \in Members(u) <=> i \in 0..(n - 1))
    BY <2>3, <2>7, ItemIs
  <2>11. Inside(u, Item(i)) = u.items[i + 1]  BY DEF Inside, Item
  <2>12. Child(u, t) = IF Index(t, n, FALSE) # -1 THEN u.items[Index(t, n, FALSE) + 1]
                       ELSE Failure
    BY <1>3 DEF Child, n
  <2>13. Child(u, t) = IF Item(i) \in Members(u) THEN Inside(u, Item(i)) ELSE Failure
    <3>1. CASE i \in 0..(n - 1)
      <4>0. i # -1  BY <2>3, <3>1
      <4>1. Index(t, n, FALSE) = i /\ i # -1  BY <2>9, <3>1, <4>0
      <4> QED  BY <2>10, <2>11, <2>12, <3>1, <4>1
    <3>2. CASE i \notin 0..(n - 1)
      <4>1. Index(t, n, FALSE) = -1  BY <2>9, <3>2
      <4> QED  BY <2>10, <2>12, <3>2, <4>1
    <3> QED  BY <3>1, <3>2
  <2> QED  BY <1>3, <2>4, <2>7, <2>8, <2>9, <2>10, <2>13 DEF n
<1> QED  BY <1>1, <1>2, <1>3

(* An object of which a member is set, or taken out.                       *)
LEMMA ObjectSet ==
    ASSUME NEW P, NEW u, Shows(P, u), u # Failure, u.type = "object",
           NEW V, NEW c, Shows(V, c), c # Failure, NEW t \in STRING
    PROVE  Shows(Assigned(P, <<"member", t>>, V), Object(With(u.fields, t, c)))
<1> DEFINE f == With(u.fields, t, c)
           k == <<"member", t>>
           w == Object(f)
<1>1. /\ DOMAIN u.fields \subseteq STRING /\ Mark(u) = <<"object">>
      /\ Members(u) = {<<"member", x>> : x \in DOMAIN u.fields}
  BY ShowsDown, Nodes
<1>2. /\ f = [x \in DOMAIN f |-> f[x]] /\ DOMAIN f = DOMAIN u.fields \cup {t}
      /\ \A x \in DOMAIN f : f[x] = IF x = t THEN c ELSE u.fields[x]
  BY DEF With
<1> HIDE DEF f
<1>3. DOMAIN f \subseteq STRING  BY <1>1, <1>2
<1>4. /\ IsNode(w) /\ Mark(w) = <<"object">>
      /\ Members(w) = {<<"member", x>> : x \in DOMAIN f}
      /\ \A x : Inside(w, <<"member", x>>) = f[x]
  BY <1>2, <1>3, NewObject
<1> HIDE DEF w
<1>5. k \in AllKeys  BY DEF AllKeys
<1>6. \A x, y : <<"member", x>> = <<"member", y>> <=> x = y  OBVIOUS
<1>7. Members(w) = Members(u) \cup {k}  BY <1>1, <1>2, <1>4
<1>8. ASSUME NEW l \in Members(w) PROVE Inside(w, l) = IF l = k THEN c ELSE Inside(u, l)
  <2>1. PICK x \in DOMAIN f : l = <<"member", x>>  BY <1>4
  <2>2. Inside(u, l) = u.fields[x]  BY <2>1 DEF Inside
  <2>3. Inside(w, l) = f[x]  BY <1>4, <2>1
  <2> QED  BY <1>2, <1>6, <2>1, <2>2, <2>3
<1> HIDE DEF k
<1>9. Shows(Assigned(P, k, V), w)  BY <1>1, <1>4, <1>5, <1>7, <1>8, ShowsAssigned
<1> QED  BY <1>9 DEF w, k, f

LEMMA ObjectCut ==
    ASSUME NEW P, NEW u, Shows(P, u), u # Failure, u.type = "object", NEW t \in STRING
    PROVE  Shows(Pruned(P, <<<<"member", t>>>>), Object(Without(u.fields, t)))
<1> DEFINE f == Without(u.fields, t)
           k == <<"member", t>>
           w == Object(f)
<1>1. /\ DOMAIN u.fields \subseteq STRING /\ Mark(u) = <<"object">>
      /\ Members(u) = {<<"member", x>> : x \in DOMAIN u.fields}
  BY ShowsDown, Nodes
<1>2. /\ f = [x \in DOMAIN f |-> f[x]] /\ DOMAIN f = DOMAIN u.fields \ {t}
      /\ \A x \in DOMAIN f : f[x] = u.fields[x]
  BY DEF Without
<1> HIDE DEF f
<1>3. DOMAIN f \subseteq STRING  BY <1>1, <1>2
<1>4. /\ IsNode(w) /\ Mark(w) = <<"object">>
      /\ Members(w) = {<<"member", x>> : x \in DOMAIN f}
      /\ \A x : Inside(w, <<"member", x>>) = f[x]
  BY <1>2, <1>3, NewObject
<1> HIDE DEF w
<1>5. k \in AllKeys  BY DEF AllKeys
<1>6. \A x, y : <<"member", x>> = <<"member", y>> <=> x = y  OBVIOUS
<1>7. Members(w) = Members(u) \ {k}
  <2>1. \A l : l \in Members(w) => l \in Members(u) /\ l # k  BY <1>1, <1>2, <1>4, <1>6
  <2>2. \A l : l \in Members(u) /\ l # k => l \in Members(w)  BY <1>1, <1>2, <1>4, <1>6
  <2> QED  BY <2>1, <2>2
<1>8. ASSUME NEW l \in Members(w) PROVE Inside(w, l) = Inside(u, l)
  <2>1. PICK x \in DOMAIN f : l = <<"member", x>>  BY <1>4
  <2>2. Inside(u, l) = u.fields[x]  BY <2>1 DEF Inside
  <2>3. Inside(w, l) = f[x]  BY <1>4, <2>1
  <2> QED  BY <1>2, <2>1, <2>2, <2>3
<1> HIDE DEF k
<1>9. Shows(Pruned(P, <<k>>), w)  BY <1>1, <1>4, <1>5, <1>7, <1>8, ShowsPruned
<1> QED  BY <1>9 DEF w, k, f

LEMMA Items ==
    ASSUME NEW P, NEW u, Shows(P, u), u # Failure, u.type = "list"
    PROVE  /\ u = List(u.items) /\ u.items \in Seq(Range(u.items)) /\ Len(u.items) \in Nat
           /\ Mark(u) = <<"list">>
           /\ Members(u) = {Item(i) : i \in 0..(Len(u.items) - 1)}
           /\ \A i : Inside(u, Item(i)) = u.items[i + 1]
           /\ Formed(u) /\ Proper(P)
           /\ \A x : Place(<<>>, x) \in P <=> x = Mark(u)
           /\ \A l \in AllKeys, q \in AllPaths : \A x :
                 Place(<<l>> \o q, x) \in P <=> l \in Members(u) /\ Occurs(Inside(u, l), q, x)
           /\ \A i \in 0..(Len(u.items) - 1) : Formed(Inside(u, Item(i)))
<1>1. /\ Formed(u) /\ Proper(P) /\ IsNode(u)
      /\ \A x : Place(<<>>, x) \in P <=> x = Mark(u)
      /\ \A l \in AllKeys, q \in AllPaths : \A x :
            Place(<<l>> \o q, x) \in P <=> l \in Members(u) /\ Occurs(Inside(u, l), q, x)
  BY ShowsDown
<1>2. /\ u = List(u.items) /\ u.items \in Seq(Range(u.items)) /\ Len(u.items) \in Nat
      /\ Mark(u) = <<"list">>
      /\ Members(u) = {Item(i) : i \in 0..(Len(u.items) - 1)}
  BY <1>1, Nodes DEF Item
<1>3. \A i : Inside(u, Item(i)) = u.items[i + 1]  BY DEF Inside, Item
<1>4. \A i \in 0..(Len(u.items) - 1) : Formed(Inside(u, Item(i)))
  BY <1>1, <1>2, FormedDown
<1> QED  BY <1>1, <1>2, <1>3, <1>4

(* A list of which an item is set, put in, or taken out.                   *)
LEMMA ListSet ==
    ASSUME NEW P, NEW u, Shows(P, u), u # Failure, u.type = "list",
           NEW V, NEW c, Shows(V, c), c # Failure, NEW i \in 0..(Len(u.items) - 1)
    PROVE  Shows(Assigned(P, Item(i), V), List(ReplaceAt(u.items, i + 1, c)))
<1> DEFINE n == Len(u.items)
           S == Range(u.items) \cup {c}
           s == ReplaceAt(u.items, i + 1, c)
           w == List(s)
<1>1. /\ u.items \in Seq(Range(u.items)) /\ n \in Nat /\ Mark(u) = <<"list">>
      /\ Members(u) = {Item(j) : j \in 0..(n - 1)}
      /\ \A j : Inside(u, Item(j)) = u.items[j + 1]
  BY Items
<1>2. u.items \in Seq(S) /\ c \in S
  <2>1. Range(u.items) \subseteq S  OBVIOUS
  <2>2. Seq(Range(u.items)) \subseteq Seq(S)  BY <2>1, SeqMonotonic
  <2> QED  BY <1>1, <2>2
<1> HIDE DEF S
<1>3. i \in Int /\ i + 1 \in 1..n  BY <1>1
<1>4. s \in Seq(S) /\ Len(s) = n /\ \A j \in 1..n : s[j] = IF j = i + 1 THEN c ELSE u.items[j]
  BY <1>2, <1>3, ExceptSeq DEF ReplaceAt
<1> HIDE DEF s
<1>5. /\ IsNode(w) /\ Mark(w) = <<"list">>
      /\ Members(w) = {Item(j) : j \in 0..(Len(s) - 1)}
      /\ \A j : Inside(w, Item(j)) = s[j + 1]
  BY <1>4, NewList DEF Item
<1> HIDE DEF w, n
<1>6. Members(w) = Members(u) \cup {Item(i)}
  BY <1>1, <1>4, <1>5, i \in 0..(n - 1) DEF n
<1>7. ASSUME NEW l \in Members(w) PROVE Inside(w, l) = IF l = Item(i) THEN c ELSE Inside(u, l)
  <2>1. PICK j \in 0..(n - 1) : l = Item(j)  BY <1>4, <1>5, <1>7
  <2>2. j \in Int /\ j + 1 \in 1..n /\ (j + 1 = i + 1 <=> j = i)  BY <1>1, <1>3
  <2>3. Inside(w, l) = s[j + 1] /\ Inside(u, l) = u.items[j + 1]  BY <1>1, <1>5, <2>1
  <2>4. l = Item(i) <=> j = i  BY <1>3, <2>1, <2>2, ItemIs
  <2> QED  BY <1>4, <2>2, <2>3, <2>4
<1>8. Item(i) \in AllKeys  BY <1>3, ItemIs
<1>9. Shows(Assigned(P, Item(i), V), w)  BY <1>1, <1>5, <1>6, <1>7, <1>8, ShowsAssigned
<1> QED  BY <1>9 DEF w, s

LEMMA ListGrown ==
    ASSUME NEW P, NEW u, Shows(P, u), u # Failure, u.type = "list",
           NEW V, NEW c, Shows(V, c), c # Failure, NEW i \in 0..Len(u.items)
    PROVE  Shows(Shifted(P, i, 1) \cup PutAt(V, <<Item(i)>>), List(InsertAt(u.items, i + 1, c)))
<1> DEFINE n == Len(u.items)
           S == Range(u.items) \cup {c}
           s == InsertAt(u.items, i + 1, c)
           w == List(s)
           Q == Shifted(P, i, 1)
           R == PutAt(V, <<Item(i)>>)
<1>1. /\ u.items \in Seq(Range(u.items)) /\ n \in Nat /\ Mark(u) = <<"list">>
      /\ Members(u) = {Item(j) : j \in 0..(n - 1)}
      /\ \A j : Inside(u, Item(j)) = u.items[j + 1]
      /\ Formed(u) /\ Proper(P)
      /\ \A x : Place(<<>>, x) \in P <=> x = Mark(u)
      /\ \A l \in AllKeys, q \in AllPaths : \A x :
            Place(<<l>> \o q, x) \in P <=> l \in Members(u) /\ Occurs(Inside(u, l), q, x)
      /\ \A j \in 0..(n - 1) : Formed(Inside(u, Item(j)))
  BY Items
<1>2. u.items \in Seq(S) /\ c \in S
  <2>1. Range(u.items) \subseteq S  OBVIOUS
  <2>2. Seq(Range(u.items)) \subseteq Seq(S)  BY <2>1, SeqMonotonic
  <2> QED  BY <1>1, <2>2
<1> HIDE DEF S
<1>3. i \in Int /\ i \in 0..n  BY <1>1
<1>4. s \in Seq(S) /\ Len(s) = n + 1
      /\ \A j \in 0..n : s[j + 1] = IF j < i THEN u.items[j + 1]
                                    ELSE IF j = i THEN c ELSE u.items[j]
  <2> DEFINE y == u.items
  <2>1. y \in Seq(S) /\ i \in 0..Len(y)  BY <1>2
  <2> HIDE DEF n, s, y
  <2>2. /\ InsertAt(y, i + 1, c) \in Seq(S) /\ Len(InsertAt(y, i + 1, c)) = Len(y) + 1
        /\ \A j \in 0..Len(y) : InsertAt(y, i + 1, c)[j + 1] =
              IF j < i THEN y[j + 1] ELSE IF j = i THEN c ELSE y[j]
    BY <1>2, <2>1, Inserted
  <2> QED  BY <2>2 DEF n, s, y
<1> HIDE DEF s
<1>5. /\ IsNode(w) /\ Mark(w) = <<"list">>
      /\ Members(w) = {Item(j) : j \in 0..(Len(s) - 1)}
      /\ \A j : Inside(w, Item(j)) = s[j + 1]
  BY <1>4, NewList DEF Item
<1> HIDE DEF w, n
<1>6. (n + 1) - 1 = n  BY <1>1
<1>7. Members(w) = {Item(j) : j \in 0..n}  BY <1>4, <1>5, <1>6
<1>8. ASSUME NEW j \in 0..n
      PROVE  /\ Inside(w, Item(j)) = IF j < i THEN Inside(u, Item(j))
                                     ELSE IF j = i THEN c ELSE Inside(u, Item(j - 1))
             /\ j < i => j \in 0..(n - 1)
             /\ i < j => j - 1 \in 0..(n - 1)
  <2>1. j < i => j \in 0..(n - 1)  BY <1>1, <1>3
  <2>2. i < j => j - 1 \in 0..(n - 1)  BY <1>1, <1>3
  <2>3. Inside(u, Item(j)) = u.items[j + 1]  BY <1>1
  <2>4. Inside(u, Item(j - 1)) = u.items[j]
    <3>1. (j - 1) + 1 = j  OBVIOUS
    <3>2. Inside(u, Item(j - 1)) = u.items[(j - 1) + 1]  BY <1>1
    <3> QED  BY <3>1, <3>2
  <2> QED  BY <1>4, <1>5, <2>1, <2>2, <2>3, <2>4
<1>9. Formed(c) /\ Proper(V) /\ \A q \in AllPaths : \A x : Place(q, x) \in V <=> Occurs(c, q, x)
  BY DEF Shows, Describes
<1>10. Formed(w)
  <2>1. ASSUME NEW l \in Members(w) PROVE Formed(Inside(w, l))
    <3>1. PICK j \in 0..n : l = Item(j)  BY <1>7
    <3>2. CASE j < i  BY <1>1, <1>8, <3>1, <3>2
    <3>3. CASE j = i  BY <1>8, <1>9, <3>1, <3>3
    <3>4. CASE i < j  BY <1>1, <1>3, <1>8, <3>1, <3>4
    <3> QED  BY <1>3, <3>2, <3>3, <3>4
  <2> QED  BY <1>5, <2>1, FormedUp
<1>11. \A l \in AllKeys, q \in AllPaths : \A x :
          Place(<<l>> \o q, x) \in P => \E j \in Int : l = Item(j)
  BY <1>1
<1>12. /\ Proper(Q)
       /\ \A x : Place(<<>>, x) \in Q <=> Place(<<>>, x) \in P
       /\ \A l \in AllKeys, q \in AllPaths : \A x :
            Place(<<l>> \o q, x) \in Q
               <=> \E j \in Int : /\ Place(<<Item(j)>> \o q, x) \in P
                                  /\ l = IF j >= i THEN Item(j + 1) ELSE Item(j)
  BY <1>1, <1>3, <1>11, ShiftedIs
<1>13. Item(i) \in AllKeys /\ <<Item(i)>> \in AllPaths  BY <1>3, ItemIs, Paths
<1>14. /\ Proper(R)
       /\ \A p \in AllPaths : \A x :
             Place(p, x) \in R <=> \E q \in AllPaths : p = <<Item(i)>> \o q /\ Place(q, x) \in V
  BY <1>9, <1>13, PutAtIs
<1> HIDE DEF Q, R
<1>15. ASSUME NEW x PROVE Place(<<>>, x) \in Q \cup R <=> x = Mark(w)
  <2>1. \A q \in AllPaths : <<>> # <<Item(i)>> \o q  BY <1>13, NotEmpty
  <2>2. Place(<<>>, x) \notin R  BY <1>14, <2>1, Paths
  <2> QED  BY <1>1, <1>5, <1>12, <2>2
<1>16. ASSUME NEW l \in AllKeys, NEW q \in AllPaths, NEW x
       PROVE  Place(<<l>> \o q, x) \in Q \cup R <=> l \in Members(w) /\ Occurs(Inside(w, l), q, x)
  <2>1. Place(<<l>> \o q, x) \in R <=> l = Item(i) /\ Occurs(c, q, x)
    <3>1. <<l>> \o q \in AllPaths  BY NotEmpty
    <3>2. Place(<<l>> \o q, x) \in R
            <=> \E y \in AllPaths : <<l>> \o q = <<Item(i)>> \o y /\ Place(y, x) \in V
      BY <1>14, <3>1
    <3>3. (\E y \in AllPaths : <<l>> \o q = <<Item(i)>> \o y /\ Place(y, x) \in V)
            <=> l = Item(i) /\ Place(q, x) \in V
      BY <1>13, SameHead
    <3> QED  BY <1>9, <3>2, <3>3
  <2>2. Place(<<l>> \o q, x) \in Q
           <=> \E j \in 0..(n - 1) : /\ Occurs(Inside(u, Item(j)), q, x)
                                     /\ l = IF j >= i THEN Item(j + 1) ELSE Item(j)
    <3>1. \A j \in Int : Item(j) \in AllKeys /\ (Item(j) \in Members(u) <=> j \in 0..(n - 1))
      BY <1>1, ItemIs
    <3>2. \A j \in 0..(n - 1) : j \in Int  BY <1>1
    <3> QED  BY <1>1, <1>12, <3>1, <3>2
  <2>3. ASSUME NEW j \in 0..n, l = Item(j)
        PROVE  Place(<<l>> \o q, x) \in Q \cup R <=> Occurs(Inside(w, l), q, x)
    <3>0. j \in Int /\ \A m \in 0..(n - 1) : m \in Int /\ m + 1 \in Int  BY <1>1
    <3>1. \A m \in 0..(n - 1) : l = (IF m >= i THEN Item(m + 1) ELSE Item(m))
             <=> (IF m >= i THEN j = m + 1 ELSE j = m)
      BY <2>3, <3>0, ItemIs
    <3>2. l = Item(i) <=> j = i  BY <2>3, <3>0, ItemIs
    <3>3. CASE j < i
      <4>1. j \in 0..(n - 1) /\ Inside(w, l) = Inside(u, Item(j))  BY <1>8, <2>3, <3>3
      <4>2. \A m \in 0..(n - 1) : (IF m >= i THEN j = m + 1 ELSE j = m) <=> m = j
        BY <1>1, <1>3, <3>3
      <4> QED  BY <1>3, <2>1, <2>2, <3>1, <3>2, <3>3, <4>1, <4>2
    <3>4. CASE j = i
      <4>1. Inside(w, l) = c  BY <1>3, <1>8, <2>3, <3>4
      <4>2. \A m \in 0..(n - 1) : ~(IF m >= i THEN j = m + 1 ELSE j = m)
        BY <1>1, <1>3, <3>4
      <4> QED  BY <2>1, <2>2, <3>1, <3>2, <3>4, <4>1, <4>2
    <3>5. CASE i < j
      <4>1. j - 1 \in 0..(n - 1) /\ Inside(w, l) = Inside(u, Item(j - 1))
        BY <1>3, <1>8, <2>3, <3>5
      <4>2. \A m \in 0..(n - 1) : (IF m >= i THEN j = m + 1 ELSE j = m) <=> m = j - 1
        BY <1>1, <1>3, <3>5
      <4>3. j # i  BY <1>3, <3>5
      <4> QED  BY <2>1, <2>2, <3>1, <3>2, <4>1, <4>2, <4>3
    <3> QED  BY <1>3, <3>3, <3>4, <3>5
  <2>4. ASSUME l \notin Members(w) PROVE Place(<<l>> \o q, x) \notin Q \cup R
    <3>1. l # Item(i)  BY <1>3, <1>7, <2>4
    <3>2. \A m \in 0..(n - 1) : l # IF m >= i THEN Item(m + 1) ELSE Item(m)
      <4>1. \A m \in 0..(n - 1) : m \in 0..n /\ m + 1 \in 0..n  BY <1>1
      <4> QED  BY <1>7, <2>4, <4>1
    <3> QED  BY <2>1, <2>2, <3>1, <3>2
  <2> QED  BY <1>7, <2>3, <2>4
<1>17. Proper(Q \cup R)  BY <1>12, <1>14, ProperUnion
<1>18. Shows(Q \cup R, w)  BY <1>10, <1>15, <1>16, <1>17, ShowsUp
<1> QED  BY <1>18 DEF w, s, Q, R

LEMMA ListCut ==
    ASSUME NEW P, NEW u, Shows(P, u), u # Failure, u.type = "list",
           NEW i \in 0..(Len(u.items) - 1)
    PROVE  Shows(Shifted(Pruned(P, <<Item(i)>>), i, -1), List(RemoveAt(u.items, i + 1)))
<1> DEFINE n == Len(u.items)
           S == Range(u.items)
           s == RemoveAt(u.items, i + 1)
           w == List(s)
           R == Pruned(P, <<Item(i)>>)
           Q == Shifted(R, i, -1)
<1>1. /\ u.items \in Seq(S) /\ n \in Nat /\ Mark(u) = <<"list">>
      /\ Members(u) = {Item(j) : j \in 0..(n - 1)}
      /\ \A j : Inside(u, Item(j)) = u.items[j + 1]
      /\ Formed(u) /\ Proper(P)
      /\ \A x : Place(<<>>, x) \in P <=> x = Mark(u)
      /\ \A l \in AllKeys, q \in AllPaths : \A x :
            Place(<<l>> \o q, x) \in P <=> l \in Members(u) /\ Occurs(Inside(u, l), q, x)
      /\ \A j \in 0..(n - 1) : Formed(Inside(u, Item(j)))
  BY Items
<1> HIDE DEF S
<1>3. i \in Int /\ i \in 0..(n - 1)  BY <1>1
<1>4. s \in Seq(S) /\ Len(s) = n - 1
      /\ \A j \in 0..(n - 2) : s[j + 1] = IF j < i THEN u.items[j + 1] ELSE u.items[j + 2]
  BY <1>1, <1>3, Removed
<1> HIDE DEF s
<1>5. /\ IsNode(w) /\ Mark(w) = <<"list">>
      /\ Members(w) = {Item(j) : j \in 0..(Len(s) - 1)}
      /\ \A j : Inside(w, Item(j)) = s[j + 1]
  BY <1>4, NewList DEF Item
<1> HIDE DEF w, n
<1>6. (n - 1) - 1 = n - 2  BY <1>1
<1>7. Members(w) = {Item(j) : j \in 0..(n - 2)}  BY <1>4, <1>5, <1>6
<1>8. ASSUME NEW j \in 0..(n - 2)
      PROVE  /\ Inside(w, Item(j)) = IF j < i THEN Inside(u, Item(j)) ELSE Inside(u, Item(j + 1))
             /\ j \in 0..(n - 1) /\ j + 1 \in 0..(n - 1)
  <2>1. j \in 0..(n - 1) /\ j + 1 \in 0..(n - 1)  BY <1>1, <1>3
  <2>3. Inside(u, Item(j)) = u.items[j + 1]  BY <1>1
  <2>4. Inside(u, Item(j + 1)) = u.items[j + 2]
    <3>1. (j + 1) + 1 = j + 2  OBVIOUS
    <3>2. Inside(u, Item(j + 1)) = u.items[(j + 1) + 1]  BY <1>1
    <3> QED  BY <3>1, <3>2
  <2> QED  BY <1>4, <1>5, <2>1, <2>3, <2>4
<1>10. Formed(w)
  <2>1. ASSUME NEW l \in Members(w) PROVE Formed(Inside(w, l))
    <3>1. PICK j \in 0..(n - 2) : l = Item(j)  BY <1>7
    <3> QED  BY <1>1, <1>8, <3>1
  <2> QED  BY <1>5, <2>1, FormedUp
<1>11. Item(i) \in AllKeys  BY <1>3, ItemIs
<1>12. /\ Proper(R)
       /\ \A x : Place(<<>>, x) \in R <=> Place(<<>>, x) \in P
       /\ \A l \in AllKeys, q \in AllPaths : \A x :
            Place(<<l>> \o q, x) \in R <=> l # Item(i) /\ Place(<<l>> \o q, x) \in P
  BY <1>1, <1>11, PrunedHead
<1> HIDE DEF R
<1>13. \A l \in AllKeys, q \in AllPaths : \A x :
          Place(<<l>> \o q, x) \in R => \E j \in Int : l = Item(j)
  BY <1>1, <1>12
<1>14. /\ Proper(Q)
       /\ \A x : Place(<<>>, x) \in Q <=> Place(<<>>, x) \in R
       /\ \A l \in AllKeys, q \in AllPaths : \A x :
            Place(<<l>> \o q, x) \in Q
               <=> \E j \in Int : /\ Place(<<Item(j)>> \o q, x) \in R
                                  /\ l = IF j >= i THEN Item(j + (-1)) ELSE Item(j)
  BY <1>3, <1>12, <1>13, ShiftedIs
<1> HIDE DEF Q
<1>15. \A x : Place(<<>>, x) \in Q <=> x = Mark(w)  BY <1>1, <1>5, <1>12, <1>14
<1>16. ASSUME NEW l \in AllKeys, NEW q \in AllPaths, NEW x
       PROVE  Place(<<l>> \o q, x) \in Q <=> l \in Members(w) /\ Occurs(Inside(w, l), q, x)
  <2>2. Place(<<l>> \o q, x) \in Q
           <=> \E j \in 0..(n - 1) : /\ Occurs(Inside(u, Item(j)), q, x) /\ j # i
                                     /\ l = IF j >= i THEN Item(j - 1) ELSE Item(j)
    <3>1. \A j \in Int : /\ Item(j) \in AllKeys /\ (Item(j) \in Members(u) <=> j \in 0..(n - 1))
                         /\ (Item(j) = Item(i) <=> j = i) /\ j + (-1) = j - 1
      BY <1>1, <1>3, ItemIs
    <3>2. \A j \in 0..(n - 1) : j \in Int  BY <1>1
    <3>3. \A j \in Int : Place(<<Item(j)>> \o q, x) \in R
             <=> j \in 0..(n - 1) /\ j # i /\ Occurs(Inside(u, Item(j)), q, x)
      BY <1>1, <1>12, <3>1
    <3>4. \A j \in Int : (IF j >= i THEN Item(j + (-1)) ELSE Item(j))
                         = (IF j >= i THEN Item(j - 1) ELSE Item(j))
      BY <3>1
    <3> QED  BY <1>14, <3>2, <3>3, <3>4
  <2>3. ASSUME NEW j \in 0..(n - 2), l = Item(j)
        PROVE  Place(<<l>> \o q, x) \in Q <=> Occurs(Inside(w, l), q, x)
    <3>0. j \in Int /\ \A m \in 0..(n - 1) : m \in Int /\ m - 1 \in Int  BY <1>1
    <3>1. \A m \in 0..(n - 1) : l = (IF m >= i THEN Item(m - 1) ELSE Item(m))
             <=> (IF m >= i THEN j = m - 1 ELSE j = m)
      BY <2>3, <3>0, ItemIs
    <3>3. CASE j < i
      <4>1. j \in 0..(n - 1) /\ Inside(w, l) = Inside(u, Item(j))  BY <1>8, <2>3, <3>3
      <4>2. \A m \in 0..(n - 1) : m # i /\ (IF m >= i THEN j = m - 1 ELSE j = m) <=> m = j
        BY <1>1, <1>3, <3>3
      <4> QED  BY <2>2, <3>1, <4>1, <4>2
    <3>4. CASE i <= j
      <4>0. ~(j < i)  BY <1>3, <3>4
      <4>1. j + 1 \in 0..(n - 1) /\ Inside(w, l) = Inside(u, Item(j + 1))
        BY <1>8, <2>3, <4>0
      <4>2. \A m \in 0..(n - 1) : m # i /\ (IF m >= i THEN j = m - 1 ELSE j = m) <=> m = j + 1
        BY <1>1, <1>3, <3>4
      <4> QED  BY <2>2, <3>1, <4>1, <4>2
    <3> QED  BY <1>3, <3>3, <3>4
  <2>4. ASSUME l \notin Members(w) PROVE Place(<<l>> \o q, x) \notin Q
    <3>2. \A m \in 0..(n - 1) : m # i => l # IF m >= i THEN Item(m - 1) ELSE Item(m)
      <4>1. \A m \in 0..(n - 1) :
               m # i => IF m >= i THEN m - 1 \in 0..(n - 2) ELSE m \in 0..(n - 2)
        BY <1>1, <1>3
      <4> QED  BY <1>7, <2>4, <4>1
    <3> QED  BY <2>2, <3>2
  <2> QED  BY <1>7, <2>3, <2>4
<1>18. Shows(Q, w)  BY <1>10, <1>14, <1>15, <1>16, ShowsUp
<1> QED  BY <1>18 DEF w, s, Q, R

LEMMA NoneShown == Shows({}, Failure)
BY DEF Shows

(* _add, _replace and _remove at the last token, as places.                *)
LEMMA MemberAddedIs ==
    ASSUME NEW P, NEW u, Shows(P, u), NEW V, NEW c, Shows(V, c), NEW t \in STRING
    PROVE  Shows(MemberAdded(P, Key(P, t), V), ChangeMember(u, "add", t, c))
<1> DEFINE k == Key(P, t)
<1>1. CASE c = Failure
  <2>1. V = {}  BY <1>1 DEF Shows
  <2> QED  BY <1>1, <2>1, NoneShown DEF MemberAdded, ChangeMember
<1>2. CASE c # Failure /\ u # Failure /\ u.type = "object"
  <2>1. V # {} /\ IsObject(P) /\ ~IsList(P)  BY <1>2, ShowsSome, ShowsDown
  <2>2. k = <<"member", t>>  BY <1>2, KeyIs
  <2>3. ChangeMember(u, "add", t, c) = Object(With(u.fields, t, c))
    BY <1>2 DEF ChangeMember, ChangeObject
  <2>4. MemberAdded(P, k, V) = Assigned(P, k, V)  BY <2>1 DEF MemberAdded
  <2> QED  BY <1>2, <2>2, <2>3, <2>4, ObjectSet
<1>3. CASE c # Failure /\ u # Failure /\ u.type = "list"
  <2>1. V # {} /\ ~IsObject(P) /\ IsList(P)  BY <1>3, ShowsSome, ShowsDown
  <2>2. PICK i \in Int : /\ k = Item(i)
                         /\ Index(t, Len(u.items), TRUE) = IF i \in 0..Len(u.items) THEN i ELSE -1
    BY <1>3, KeyIs
  <2>3. Cardinality(Indices(P)) = Len(u.items) /\ k[2] = i  BY <1>3, <2>2, IndicesIs, ItemIs
  <2>4. ChangeMember(u, "add", t, c) = ChangeList(u.items, "add", t, c)
    BY <1>3 DEF ChangeMember
  <2>5. CASE i \in 0..Len(u.items)
    <3>0. i # -1  BY <2>5
    <3>1. Index(t, Len(u.items), TRUE) = i  BY <2>2, <2>5
    <3>2. ChangeList(u.items, "add", t, c) = List(InsertAt(u.items, i + 1, c))
      BY <3>0, <3>1 DEF ChangeList
    <3>3. MemberAdded(P, k, V) = Shifted(P, i, 1) \cup PutAt(V, <<k>>)
      BY <2>1, <2>3, <2>5 DEF MemberAdded
    <3>4. Shows(Shifted(P, i, 1) \cup PutAt(V, <<Item(i)>>), List(InsertAt(u.items, i + 1, c)))
      BY <1>3, <2>5, ListGrown
    <3> HIDE DEF k
    <3>5. MemberAdded(P, k, V) = Shifted(P, i, 1) \cup PutAt(V, <<Item(i)>>)
      BY <2>2, <3>3
    <3> QED  BY <2>4, <3>2, <3>4, <3>5 DEF k
  <2>6. CASE i \notin 0..Len(u.items)
    <3>1. Index(t, Len(u.items), TRUE) = -1  BY <2>2, <2>6
    <3>2. ChangeList(u.items, "add", t, c) = Failure
      BY <3>1 DEF ChangeList
    <3>3. MemberAdded(P, k, V) = {}
      BY <2>1, <2>3, <2>6 DEF MemberAdded
    <3> QED  BY <2>4, <3>2, <3>3, NoneShown
  <2> QED  BY <2>5, <2>6
<1>4. CASE c # Failure /\ (u = Failure \/ (u.type # "object" /\ u.type # "list"))
  <2>1. ~IsObject(P) /\ ~IsList(P)  BY <1>4, ShowsNone, ShowsDown
  <2>2. u.type # "object" /\ u.type # "list"  BY <1>4 DEF Failure
  <2>3. MemberAdded(P, k, V) = {}  BY <2>1 DEF MemberAdded
  <2>4. ChangeMember(u, "add", t, c) = Failure  BY <2>2 DEF ChangeMember
  <2> QED  BY <2>3, <2>4, NoneShown
<1> QED  BY <1>1, <1>2, <1>3, <1>4

LEMMA HasMember ==
    ASSUME NEW P, NEW u, Shows(P, u), NEW k \in AllKeys
    PROVE  Has(P, k) <=> u # Failure /\ k \in Members(u)
BY ShowsNone, ShowsDown

LEMMA MemberReplacedIs ==
    ASSUME NEW P, NEW u, Shows(P, u), NEW V, NEW c, Shows(V, c), c # Failure, NEW t \in STRING
    PROVE  Shows(MemberReplaced(P, Key(P, t), V), ChangeMember(u, "replace", t, c))
<1> DEFINE k == Key(P, t)
<1>0. k \in AllKeys /\ (Has(P, k) <=> u # Failure /\ k \in Members(u))
  BY KeyIs, HasMember
<1>2. CASE u # Failure /\ u.type = "object"
  <2>2. k = <<"member", t>>  BY <1>2, KeyIs
  <2>3. Members(u) = {<<"member", x>> : x \in DOMAIN u.fields}  BY <1>2, ShowsDown, Nodes
  <2>4. k \in Members(u) <=> t \in DOMAIN u.fields  BY <2>2, <2>3
  <2>5. ChangeMember(u, "replace", t, c) = ChangeObject(u.fields, "replace", t, c)
    BY <1>2 DEF ChangeMember
  <2>6. ChangeObject(u.fields, "replace", t, c)
          = IF t \in DOMAIN u.fields THEN Object(With(u.fields, t, c)) ELSE Failure
    BY DEF ChangeObject
  <2>7. MemberReplaced(P, k, V) = IF k \in Members(u) THEN Assigned(P, k, V) ELSE {}
    BY <1>0, <1>2 DEF MemberReplaced
  <2>8. Shows(Assigned(P, k, V), Object(With(u.fields, t, c)))  BY <1>2, <2>2, ObjectSet
  <2> QED  BY <2>4, <2>5, <2>6, <2>7, <2>8, NoneShown
<1>3. CASE u # Failure /\ u.type = "list"
  <2>1. PICK i \in Int :
          /\ k = Item(i)
          /\ Index(t, Len(u.items), FALSE) = IF i \in 0..(Len(u.items) - 1) THEN i ELSE -1
    BY <1>3, KeyIs
  <2>2. Members(u) = {Item(j) : j \in 0..(Len(u.items) - 1)} /\ Len(u.items) \in Nat
    BY <1>3, Items
  <2>3. k \in Members(u) <=> i \in 0..(Len(u.items) - 1)  BY <2>1, <2>2, ItemIs
  <2>4. ChangeMember(u, "replace", t, c) = ChangeList(u.items, "replace", t, c)
    BY <1>3 DEF ChangeMember
  <2>5. CASE i \in 0..(Len(u.items) - 1)
    <3>0. i # -1  BY <2>2, <2>5
    <3>1. Index(t, Len(u.items), FALSE) = i  BY <2>1, <2>5
    <3>2. ChangeList(u.items, "replace", t, c) = List(ReplaceAt(u.items, i + 1, c))
      BY <3>0, <3>1 DEF ChangeList
    <3>3. MemberReplaced(P, k, V) = Assigned(P, k, V)
      BY <1>0, <1>3, <2>3, <2>5 DEF MemberReplaced
    <3> QED  BY <1>3, <2>1, <2>4, <2>5, <3>2, <3>3, ListSet
  <2>6. CASE i \notin 0..(Len(u.items) - 1)
    <3>1. Index(t, Len(u.items), FALSE) = -1  BY <2>1, <2>6
    <3>2. ChangeList(u.items, "replace", t, c) = Failure  BY <3>1 DEF ChangeList
    <3>3. MemberReplaced(P, k, V) = {}  BY <1>0, <2>3, <2>6 DEF MemberReplaced
    <3> QED  BY <2>4, <3>2, <3>3, NoneShown
  <2> QED  BY <2>5, <2>6
<1>4. CASE u = Failure \/ (u.type # "object" /\ u.type # "list")
  <2>2. u.type # "object" /\ u.type # "list"  BY <1>4 DEF Failure
  <2>3. ~Has(P, k)
    <3>1. u # Failure => Members(u) = {}  BY <2>2, ShowsDown, Nodes
    <3> QED  BY <1>0, <3>1
  <2>4. MemberReplaced(P, k, V) = {}  BY <2>3 DEF MemberReplaced
  <2>5. ChangeMember(u, "replace", t, c) = Failure  BY <2>2 DEF ChangeMember
  <2> QED  BY <2>4, <2>5, NoneShown
<1> QED  BY <1>2, <1>3, <1>4

LEMMA MemberRemovedIs ==
    ASSUME NEW P, NEW u, Shows(P, u), NEW c, c # Failure, NEW t \in STRING
    PROVE  Shows(MemberRemoved(P, Key(P, t)), ChangeMember(u, "remove", t, c))
<1> DEFINE k == Key(P, t)
<1>0. k \in AllKeys /\ (Has(P, k) <=> u # Failure /\ k \in Members(u))
  BY KeyIs, HasMember
<1>2. CASE u # Failure /\ u.type = "object"
  <2>2. k = <<"member", t>> /\ ~IsList(P)  BY <1>2, KeyIs, ShowsDown
  <2>3. Members(u) = {<<"member", x>> : x \in DOMAIN u.fields}  BY <1>2, ShowsDown, Nodes
  <2>4. k \in Members(u) <=> t \in DOMAIN u.fields  BY <2>2, <2>3
  <2>5. ChangeMember(u, "remove", t, c) = ChangeObject(u.fields, "remove", t, c)
    BY <1>2 DEF ChangeMember
  <2>6. ChangeObject(u.fields, "remove", t, c)
          = IF t \in DOMAIN u.fields THEN Object(Without(u.fields, t)) ELSE Failure
    BY DEF ChangeObject
  <2>7. MemberRemoved(P, k) = IF k \in Members(u) THEN Pruned(P, <<k>>) ELSE {}
    BY <1>0, <1>2, <2>2 DEF MemberRemoved
  <2>8. Shows(Pruned(P, <<k>>), Object(Without(u.fields, t)))  BY <1>2, <2>2, ObjectCut
  <2> QED  BY <2>4, <2>5, <2>6, <2>7, <2>8, NoneShown
<1>3. CASE u # Failure /\ u.type = "list"
  <2>1. PICK i \in Int :
          /\ k = Item(i)
          /\ Index(t, Len(u.items), FALSE) = IF i \in 0..(Len(u.items) - 1) THEN i ELSE -1
    BY <1>3, KeyIs
  <2>2. Members(u) = {Item(j) : j \in 0..(Len(u.items) - 1)} /\ Len(u.items) \in Nat /\ IsList(P)
    BY <1>3, Items, ShowsDown
  <2>3. (k \in Members(u) <=> i \in 0..(Len(u.items) - 1)) /\ k[2] = i  BY <2>1, <2>2, ItemIs
  <2>4. ChangeMember(u, "remove", t, c) = ChangeList(u.items, "remove", t, c)
    BY <1>3 DEF ChangeMember
  <2>5. CASE i \in 0..(Len(u.items) - 1)
    <3>0. i # -1  BY <2>2, <2>5
    <3>1. Index(t, Len(u.items), FALSE) = i  BY <2>1, <2>5
    <3>2. ChangeList(u.items, "remove", t, c) = List(RemoveAt(u.items, i + 1))
      BY <3>0, <3>1 DEF ChangeList
    <3>3. MemberRemoved(P, k) = Shifted(Pruned(P, <<k>>), i, -1)
      BY <1>0, <1>3, <2>2, <2>3, <2>5 DEF MemberRemoved
    <3> QED  BY <1>3, <2>1, <2>4, <2>5, <3>2, <3>3, ListCut
  <2>6. CASE i \notin 0..(Len(u.items) - 1)
    <3>1. Index(t, Len(u.items), FALSE) = -1  BY <2>1, <2>6
    <3>2. ChangeList(u.items, "remove", t, c) = Failure  BY <3>1 DEF ChangeList
    <3>3. MemberRemoved(P, k) = {}  BY <1>0, <2>3, <2>6 DEF MemberRemoved
    <3> QED  BY <2>4, <3>2, <3>3, NoneShown
  <2> QED  BY <2>5, <2>6
<1>4. CASE u = Failure \/ (u.type # "object" /\ u.type # "list")
  <2>2. u.type # "object" /\ u.type # "list"  BY <1>4 DEF Failure
  <2>3. ~Has(P, k)
    <3>1. u # Failure => Members(u) = {}  BY <2>2, ShowsDown, Nodes
    <3> QED  BY <1>0, <3>1
  <2>4. MemberRemoved(P, k) = {}  BY <2>3 DEF MemberRemoved
  <2>5. ChangeMember(u, "remove", t, c) = Failure  BY <1>4, <2>2 DEF ChangeMember
  <2> QED  BY <2>4, <2>5, NoneShown
<1> QED  BY <1>2, <1>3, <1>4
--------------------------------------------------------------------------------
(***************************************************************************)
(* A recursive function is the one that CHOOSE picks of those that satisfy *)
(* its equation; there is one, by induction over the length of its domain. *)
(***************************************************************************)
LEMMA WayExists ==
    ASSUME NEW v, NEW tokens \in Seq(STRING), NEW way, way = Way(v, tokens)
    PROVE  /\ DOMAIN way = 0..Len(tokens) /\ way[0] = v
           /\ \A i \in 1..Len(tokens) : way[i] = Child(way[i - 1], tokens[i])
<1> DEFINE n == Len(tokens)
           Is(f, m) == /\ DOMAIN f = 0..m /\ f[0] = v
                       /\ \A i \in 1..m : f[i] = Child(f[i - 1], tokens[i])
           T == {m \in 0..n : \E f : Is(f, m)}
           All(g) == [i \in 0..n |-> IF i = 0 THEN v ELSE Child(g[i - 1], tokens[i])]
           h == CHOOSE g : g = All(g)
<1>1. n \in Nat  BY LenProperties
<1>2. 0 \in T
  <2>1. Is([i \in 0..0 |-> v], 0)  OBVIOUS
  <2> HIDE DEF Is
  <2> QED  BY <1>1, <2>1
<1>3. ASSUME NEW m \in 0..(n - 1), m \in T PROVE m + 1 \in T
  <2>1. PICK f : Is(f, m)  BY <1>3
  <2> DEFINE k == m + 1
             new == Child(f[m], tokens[k])
             g == [i \in 0..k |-> IF i = k THEN new ELSE f[i]]
  <2>2. m \in Nat /\ k \in 1..n /\ k \in 0..k /\ k \in 0..n /\ k - 1 = m /\ k # 0
        /\ 0 \in 0..k
    BY <1>1
  <2>3. \A i \in 0..m : i \in 0..k /\ i # k  BY <2>2
  <2>4. \A i \in 1..k : i # k => i \in 1..m /\ i \in 0..m /\ i - 1 \in 0..m  BY <2>2
  <2>5. m \in 0..m /\ 0 \in 0..m  BY <2>2
  <2> HIDE DEF new, k
  <2>6. g[k] = new /\ DOMAIN g = 0..k /\ \A i \in 0..m : g[i] = f[i]  BY <2>2, <2>3
  <2> HIDE DEF g
  <2>7. g[0] = v  BY <2>1, <2>5, <2>6
  <2>8. ASSUME NEW i \in 1..k PROVE g[i] = Child(g[i - 1], tokens[i])
    <3>1. CASE i = k
      <4>1. g[i - 1] = f[m]  BY <2>2, <2>5, <2>6, <3>1
      <4> QED  BY <2>6, <3>1, <4>1 DEF new
    <3>2. CASE i # k
      <4>1. i \in 1..m /\ g[i] = f[i] /\ g[i - 1] = f[i - 1]  BY <2>4, <2>6, <3>2
      <4>2. f[i] = Child(f[i - 1], tokens[i])  BY <2>1, <4>1
      <4> QED  BY <4>1, <4>2
    <3> QED  BY <3>1, <3>2
  <2>9. Is(g, k)  BY <2>6, <2>7, <2>8
  <2> HIDE DEF Is
  <2> QED  BY <2>2, <2>9 DEF k
<1>4. n \in T
  <2> HIDE DEF T, n
  <2>1. \A m \in 0..n : m \in T  BY <1>1, <1>2, <1>3, UpTo
  <2> QED  BY <1>1, <2>1
<1>5. PICK f : Is(f, n)  BY <1>4
<1> DEFINE e == [i \in 0..n |-> f[i]]
<1>6. e = All(e)
  <2>1. ASSUME NEW i \in 0..n PROVE e[i] = IF i = 0 THEN v ELSE Child(e[i - 1], tokens[i])
    <3>1. CASE i = 0  BY <1>5, <3>1
    <3>2. CASE i # 0
      <4>1. i \in 1..n /\ i - 1 \in 0..n  BY <1>1, <3>2
      <4>2. e[i] = f[i] /\ e[i - 1] = f[i - 1]  BY <4>1
      <4>3. f[i] = Child(f[i - 1], tokens[i])  BY <1>5, <4>1
      <4> HIDE DEF e
      <4> QED  BY <3>2, <4>2, <4>3
    <3> QED  BY <3>1, <3>2
  <2> QED  BY <2>1
<1>7. h = All(h)
  <2> HIDE DEF All, e
  <2> QED  BY <1>6
<1>8. Way(v, tokens) = h
  BY DEF Way
<1> HIDE DEF h
<1>9. /\ DOMAIN h = 0..n /\ h[0] = v
      /\ \A i \in 1..n : h[i] = Child(h[i - 1], tokens[i])
  <2>1. 0 \in 0..n /\ \A i \in 1..n : i \in 0..n /\ i # 0  BY <1>1
  <2> QED  BY <1>7, <2>1
<1> QED  BY <1>8, <1>9

\* The path that one more token means.
Onward(P, path, token) == Append(path, Key(Under(P, path), token))

LEMMA MeantExists ==
    ASSUME NEW P, NEW tokens \in Seq(STRING), NEW way, way = Meant(P, tokens)
    PROVE  /\ DOMAIN way = 0..Len(tokens) /\ way[0] = <<>>
           /\ \A i \in 1..Len(tokens) : way[i] = Onward(P, way[i - 1], tokens[i])
<1> DEFINE n == Len(tokens)
           Is(f, m) == /\ DOMAIN f = 0..m /\ f[0] = <<>>
                       /\ \A i \in 1..m : f[i] = Onward(P, f[i - 1], tokens[i])
           T == {m \in 0..n : \E f : Is(f, m)}
           All(g) == [i \in 0..n |-> IF i = 0 THEN <<>> ELSE Onward(P, g[i - 1], tokens[i])]
           h == CHOOSE g : g = All(g)
<1>1. n \in Nat  BY LenProperties
<1>2. 0 \in T
  <2>1. Is([i \in 0..0 |-> <<>>], 0)  OBVIOUS
  <2> HIDE DEF Is
  <2> QED  BY <1>1, <2>1
<1>3. ASSUME NEW m \in 0..(n - 1), m \in T PROVE m + 1 \in T
  <2>1. PICK f : Is(f, m)  BY <1>3
  <2> DEFINE k == m + 1
             new == Onward(P, f[m], tokens[k])
             g == [i \in 0..k |-> IF i = k THEN new ELSE f[i]]
  <2>2. m \in Nat /\ k \in 1..n /\ k \in 0..k /\ k \in 0..n /\ k - 1 = m /\ k # 0
        /\ 0 \in 0..k
    BY <1>1
  <2>3. \A i \in 0..m : i \in 0..k /\ i # k  BY <2>2
  <2>4. \A i \in 1..k : i # k => i \in 1..m /\ i \in 0..m /\ i - 1 \in 0..m  BY <2>2
  <2>5. m \in 0..m /\ 0 \in 0..m  BY <2>2
  <2> HIDE DEF new, k
  <2>6. g[k] = new /\ DOMAIN g = 0..k /\ \A i \in 0..m : g[i] = f[i]  BY <2>2, <2>3
  <2> HIDE DEF g
  <2>7. g[0] = <<>>  BY <2>1, <2>5, <2>6
  <2>8. ASSUME NEW i \in 1..k PROVE g[i] = Onward(P, g[i - 1], tokens[i])
    <3>1. CASE i = k
      <4>1. g[i - 1] = f[m]  BY <2>2, <2>5, <2>6, <3>1
      <4> QED  BY <2>6, <3>1, <4>1 DEF new
    <3>2. CASE i # k
      <4>1. i \in 1..m /\ g[i] = f[i] /\ g[i - 1] = f[i - 1]  BY <2>4, <2>6, <3>2
      <4>2. f[i] = Onward(P, f[i - 1], tokens[i])  BY <2>1, <4>1
      <4> QED  BY <4>1, <4>2
    <3> QED  BY <3>1, <3>2
  <2>9. Is(g, k)  BY <2>6, <2>7, <2>8
  <2> HIDE DEF Is
  <2> QED  BY <2>2, <2>9 DEF k
<1>4. n \in T
  <2> HIDE DEF T, n
  <2>1. \A m \in 0..n : m \in T  BY <1>1, <1>2, <1>3, UpTo
  <2> QED  BY <1>1, <2>1
<1>5. PICK f : Is(f, n)  BY <1>4
<1> DEFINE e == [i \in 0..n |-> f[i]]
<1>6. e = All(e)
  <2>1. ASSUME NEW i \in 0..n PROVE e[i] = IF i = 0 THEN <<>> ELSE Onward(P, e[i - 1], tokens[i])
    <3>1. CASE i = 0  BY <1>5, <3>1
    <3>2. CASE i # 0
      <4>1. i \in 1..n /\ i - 1 \in 0..n  BY <1>1, <3>2
      <4>2. e[i] = f[i] /\ e[i - 1] = f[i - 1]  BY <4>1
      <4>3. f[i] = Onward(P, f[i - 1], tokens[i])  BY <1>5, <4>1
      <4> HIDE DEF e
      <4> QED  BY <3>2, <4>2, <4>3
    <3> QED  BY <3>1, <3>2
  <2> QED  BY <2>1
<1>7. h = All(h)
  <2> HIDE DEF All, e
  <2> QED  BY <1>6
<1>8. Meant(P, tokens) = h
  BY DEF Meant, Onward
<1> HIDE DEF h
<1>9. /\ DOMAIN h = 0..n /\ h[0] = <<>>
      /\ \A i \in 1..n : h[i] = Onward(P, h[i - 1], tokens[i])
  <2>1. 0 \in 0..n /\ \A i \in 1..n : i \in 0..n /\ i # 0  BY <1>1
  <2> QED  BY <1>7, <2>1
<1> QED  BY <1>8, <1>9

\* What the i-th value from the end of the way becomes, of what became of the one in it.
Outward(d, verb, tokens, i, v) ==
    ChangeMember(Way(d, tokens)[Len(tokens) - i], IF i = 1 THEN verb ELSE "replace",
                 tokens[Len(tokens) + 1 - i], v)

\* f is what the values on the way become, from the one at the path outwards.
Changes(f, d, verb, tokens, v) ==
    /\ DOMAIN f = 0..Len(tokens) /\ f[0] = v
    /\ \A i \in 1..Len(tokens) :
          f[i] = Outward(d, verb, tokens, i, f[i - 1])
    /\ Change(d, verb, tokens, v) = IF Len(tokens) = 0 THEN Failure ELSE f[Len(tokens)]

LEMMA ChangeExists ==
    ASSUME NEW d, NEW verb, NEW tokens \in Seq(STRING), NEW v
    PROVE  \E f : Changes(f, d, verb, tokens, v)
<1> DEFINE n == Len(tokens)
           Is(f, m) == /\ DOMAIN f = 0..m /\ f[0] = v
                       /\ \A i \in 1..m : f[i] = Outward(d, verb, tokens, i, f[i - 1])
           T == {m \in 0..n : \E f : Is(f, m)}
           All(g) == [i \in 0..n |-> IF i = 0 THEN v ELSE Outward(d, verb, tokens, i, g[i - 1])]
           h == CHOOSE g : g = All(g)
<1>1. n \in Nat  BY LenProperties
<1>2. 0 \in T
  <2>1. Is([i \in 0..0 |-> v], 0)  OBVIOUS
  <2> HIDE DEF Is
  <2> QED  BY <1>1, <2>1
<1>3. ASSUME NEW m \in 0..(n - 1), m \in T PROVE m + 1 \in T
  <2>1. PICK f : Is(f, m)  BY <1>3
  <2> DEFINE k == m + 1
             new == Outward(d, verb, tokens, k, f[m])
             g == [i \in 0..k |-> IF i = k THEN new ELSE f[i]]
  <2>2. m \in Nat /\ k \in 1..n /\ k \in 0..k /\ k \in 0..n /\ k - 1 = m /\ k # 0
        /\ 0 \in 0..k
    BY <1>1
  <2>3. \A i \in 0..m : i \in 0..k /\ i # k  BY <2>2
  <2>4. \A i \in 1..k : i # k => i \in 1..m /\ i \in 0..m /\ i - 1 \in 0..m  BY <2>2
  <2>5. m \in 0..m /\ 0 \in 0..m  BY <2>2
  <2> HIDE DEF new, k
  <2>6. g[k] = new /\ DOMAIN g = 0..k /\ \A i \in 0..m : g[i] = f[i]  BY <2>2, <2>3
  <2> HIDE DEF g
  <2>7. g[0] = v  BY <2>1, <2>5, <2>6
  <2>8. ASSUME NEW i \in 1..k PROVE g[i] = Outward(d, verb, tokens, i, g[i - 1])
    <3>1. CASE i = k
      <4>1. g[i - 1] = f[m]  BY <2>2, <2>5, <2>6, <3>1
      <4> QED  BY <2>6, <3>1, <4>1 DEF new
    <3>2. CASE i # k
      <4>1. i \in 1..m /\ g[i] = f[i] /\ g[i - 1] = f[i - 1]  BY <2>4, <2>6, <3>2
      <4>2. f[i] = Outward(d, verb, tokens, i, f[i - 1])  BY <2>1, <4>1
      <4> QED  BY <4>1, <4>2
    <3> QED  BY <3>1, <3>2
  <2>9. Is(g, k)  BY <2>6, <2>7, <2>8
  <2> HIDE DEF Is
  <2> QED  BY <2>2, <2>9 DEF k
<1>4. n \in T
  <2> HIDE DEF T, n
  <2>1. \A m \in 0..n : m \in T  BY <1>1, <1>2, <1>3, UpTo
  <2> QED  BY <1>1, <2>1
<1>5. PICK f : Is(f, n)  BY <1>4
<1> DEFINE e == [i \in 0..n |-> f[i]]
<1>6. e = All(e)
  <2>1. ASSUME NEW i \in 0..n
        PROVE  e[i] = IF i = 0 THEN v ELSE Outward(d, verb, tokens, i, e[i - 1])
    <3>1. CASE i = 0  BY <1>5, <3>1
    <3>2. CASE i # 0
      <4>1. i \in 1..n /\ i - 1 \in 0..n  BY <1>1, <3>2
      <4>2. e[i] = f[i] /\ e[i - 1] = f[i - 1]  BY <4>1
      <4>3. f[i] = Outward(d, verb, tokens, i, f[i - 1])  BY <1>5, <4>1
      <4> HIDE DEF e
      <4> QED  BY <3>2, <4>2, <4>3
    <3> QED  BY <3>1, <3>2
  <2> QED  BY <2>1
<1>7. h = All(h)
  <2> HIDE DEF All, e
  <2> QED  BY <1>6
<1>8. Change(d, verb, tokens, v) = IF Len(tokens) = 0 THEN Failure ELSE h[Len(tokens)]
  BY DEF Change, Outward
<1> HIDE DEF h
<1>9. /\ DOMAIN h = 0..n /\ h[0] = v
      /\ \A i \in 1..n : h[i] = Outward(d, verb, tokens, i, h[i - 1])
  <2>1. 0 \in 0..n /\ \A i \in 1..n : i \in 0..n /\ i # 0  BY <1>1
  <2> QED  BY <1>7, <2>1
<1> QED  BY <1>8, <1>9 DEF Changes

\* What is reached without a step, by one step more, and at all.
Root(v) == {[path |-> <<>>, value |-> v]}
Below(R) == UNION {{[path |-> Append(r.path, key), value |-> Inside(r.value, key)] :
                       key \in Members(r.value)} : r \in R}
AllOf(f) == UNION {f[n] : n \in 0..MaxLevels}

\* f is what is reached, level by level.
Levels(f, v) == /\ DOMAIN f = 0..MaxLevels /\ f[0] = Root(v)
                /\ \A i \in 1..MaxLevels : f[i] = Below(f[i - 1])
                /\ Reached(v) = UNION {f[n] : n \in 0..MaxLevels}

LEMMA ReachedExists ==
    ASSUME NEW v
    PROVE  \E f : Levels(f, v)
<1> DEFINE n == MaxLevels
           Is(f, m) == /\ DOMAIN f = 0..m /\ f[0] = Root(v)
                       /\ \A i \in 1..m : f[i] = Below(f[i - 1])
           T == {m \in 0..n : \E f : Is(f, m)}
           All(g) == [i \in 0..n |-> IF i = 0 THEN Root(v) ELSE Below(g[i - 1])]
           h == CHOOSE g : g = All(g)
<1>1. n \in Nat  BY LenProperties, PatchAssumption
<1>2. 0 \in T
  <2>1. Is([i \in 0..0 |-> Root(v)], 0)  OBVIOUS
  <2> HIDE DEF Is
  <2> QED  BY <1>1, <2>1
<1>3. ASSUME NEW m \in 0..(n - 1), m \in T PROVE m + 1 \in T
  <2>1. PICK f : Is(f, m)  BY <1>3
  <2> DEFINE k == m + 1
             new == Below(f[m])
             g == [i \in 0..k |-> IF i = k THEN new ELSE f[i]]
  <2>2. m \in Nat /\ k \in 1..n /\ k \in 0..k /\ k \in 0..n /\ k - 1 = m /\ k # 0
        /\ 0 \in 0..k
    BY <1>1
  <2>3. \A i \in 0..m : i \in 0..k /\ i # k  BY <2>2
  <2>4. \A i \in 1..k : i # k => i \in 1..m /\ i \in 0..m /\ i - 1 \in 0..m  BY <2>2
  <2>5. m \in 0..m /\ 0 \in 0..m  BY <2>2
  <2> HIDE DEF new, k
  <2>6. g[k] = new /\ DOMAIN g = 0..k /\ \A i \in 0..m : g[i] = f[i]  BY <2>2, <2>3
  <2> HIDE DEF g
  <2>7. g[0] = Root(v)  BY <2>1, <2>5, <2>6
  <2>8. ASSUME NEW i \in 1..k PROVE g[i] = Below(g[i - 1])
    <3>1. CASE i = k
      <4>1. g[i - 1] = f[m]  BY <2>2, <2>5, <2>6, <3>1
      <4> QED  BY <2>6, <3>1, <4>1 DEF new
    <3>2. CASE i # k
      <4>1. i \in 1..m /\ g[i] = f[i] /\ g[i - 1] = f[i - 1]  BY <2>4, <2>6, <3>2
      <4>2. f[i] = Below(f[i - 1])  BY <2>1, <4>1
      <4> QED  BY <4>1, <4>2
    <3> QED  BY <3>1, <3>2
  <2>9. Is(g, k)  BY <2>6, <2>7, <2>8
  <2> HIDE DEF Is
  <2> QED  BY <2>2, <2>9 DEF k
<1>4. n \in T
  <2> HIDE DEF T, n
  <2>1. \A m \in 0..n : m \in T  BY <1>1, <1>2, <1>3, UpTo
  <2> QED  BY <1>1, <2>1
<1>5. PICK f : Is(f, n)  BY <1>4
<1> DEFINE e == [i \in 0..n |-> f[i]]
<1>6. e = All(e)
  <2>1. ASSUME NEW i \in 0..n PROVE e[i] = IF i = 0 THEN Root(v) ELSE Below(e[i - 1])
    <3>1. CASE i = 0  BY <1>5, <3>1
    <3>2. CASE i # 0
      <4>1. i \in 1..n /\ i - 1 \in 0..n  BY <1>1, <3>2
      <4>2. e[i] = f[i] /\ e[i - 1] = f[i - 1]  BY <4>1
      <4>3. f[i] = Below(f[i - 1])  BY <1>5, <4>1
      <4> HIDE DEF e
      <4> QED  BY <3>2, <4>2, <4>3
    <3> QED  BY <3>1, <3>2
  <2> QED  BY <2>1
<1>7. h = All(h)
  <2> HIDE DEF All, e
  <2> QED  BY <1>6
<1>8. Reached(v) = AllOf(h)
  BY DEF Reached, Root, Below, AllOf
<1> HIDE DEF h
<1>9. /\ DOMAIN h = 0..n /\ h[0] = Root(v)
      /\ \A i \in 1..n : h[i] = Below(h[i - 1])
  <2>1. 0 \in 0..n /\ \A i \in 1..n : i \in 0..n /\ i # 0  BY <1>1
  <2> QED  BY <1>7, <2>1
<1> QED  BY <1>8, <1>9 DEF Levels, AllOf

(* What shows a value is a set of places.                                  *)
LEMMA ShownProper == ASSUME NEW P, NEW v, Shows(P, v) PROVE Proper(P)
BY DEF Shows, Describes, Proper

(* Everything is under the empty path; a longer path leads step by step.   *)
LEMMA UnderNothing == ASSUME NEW P, Proper(P) PROVE Under(P, <<>>) = P
<1>1. <<>> \in AllPaths /\ \A p \in AllPaths : <<>> \o p = p  BY Paths
<1>2. Proper(Under(P, <<>>)) /\ \A p \in AllPaths : \A x :
         Place(p, x) \in Under(P, <<>>) <=> Place(<<>> \o p, x) \in P
  BY <1>1, UnderIs
<1> QED  BY <1>1, <1>2, SamePlaces

LEMMA UnderAppend ==
    ASSUME NEW P, Proper(P), NEW a \in AllPaths, NEW k \in AllKeys
    PROVE  Under(P, Append(a, k)) = Under(Under(P, a), <<k>>)
<1> DEFINE b == Append(a, k)
<1>1. b = a \o <<k>> /\ b \in AllPaths /\ <<k>> \in AllPaths  BY Appended, Paths
<1> HIDE DEF b
<1>2. /\ Proper(Under(P, b)) /\ Proper(Under(P, a))
      /\ \A q \in AllPaths : \A x : Place(q, x) \in Under(P, b) <=> Place(b \o q, x) \in P
      /\ \A q \in AllPaths : \A x : Place(q, x) \in Under(P, a) <=> Place(a \o q, x) \in P
  BY <1>1, UnderIs
<1>3. /\ Proper(Under(Under(P, a), <<k>>))
      /\ \A q \in AllPaths : \A x :
            Place(q, x) \in Under(Under(P, a), <<k>>) <=> Place(<<k>> \o q, x) \in Under(P, a)
  BY <1>1, <1>2, UnderIs
<1>4. ASSUME NEW q \in AllPaths, NEW x
      PROVE  Place(q, x) \in Under(P, b) <=> Place(q, x) \in Under(Under(P, a), <<k>>)
  <2>1. b \o q = a \o (<<k>> \o q)  BY <1>1, Joins
  <2>2. <<k>> \o q \in AllPaths  BY NotEmpty
  <2> QED  BY <1>2, <1>3, <2>1, <2>2
<1>5. Under(P, b) = Under(Under(P, a), <<k>>)  BY <1>2, <1>3, <1>4, SamePlaces
<1> QED  BY <1>5 DEF b

(* The steps of _get and _parent, and the paths the tokens mean.          *)
LEMMA Followed ==
    ASSUME NEW P, NEW v, Shows(P, v), NEW tokens \in Seq(STRING), NEW w, NEW m,
           w = Way(v, tokens), m = Meant(P, tokens)
    PROVE  /\ w[0] = v /\ m[0] = <<>>
           /\ \A i \in 0..Len(tokens) : m[i] \in AllPaths /\ Shows(Under(P, m[i]), w[i])
           /\ \A i \in 1..Len(tokens) :
                /\ tokens[i] \in STRING
                /\ w[i] = Child(w[i - 1], tokens[i])
                /\ Key(Under(P, m[i - 1]), tokens[i]) \in AllKeys
                /\ m[i] = Append(m[i - 1], Key(Under(P, m[i - 1]), tokens[i]))
<1> DEFINE n == Len(tokens)
           T == {i \in 0..n : m[i] \in AllPaths /\ Shows(Under(P, m[i]), w[i])}
<1>0. n \in Nat /\ \A i \in 1..n : tokens[i] \in STRING  BY LenProperties
<1>1. w[0] = v /\ \A i \in 1..n : w[i] = Child(w[i - 1], tokens[i])
  BY WayExists
<1>2. m[0] = <<>>
      /\ \A i \in 1..n : m[i] = Append(m[i - 1], Key(Under(P, m[i - 1]), tokens[i]))
  BY MeantExists DEF Onward
<1> HIDE DEF n
<1>3. 0 \in T
  <2>1. Under(P, <<>>) = P  BY ShownProper, UnderNothing
  <2> QED  BY <1>0, <1>1, <1>2, <2>1, Paths
<1>4. ASSUME NEW i \in 1..n, m[i - 1] \in AllPaths, Shows(Under(P, m[i - 1]), w[i - 1])
      PROVE  /\ Key(Under(P, m[i - 1]), tokens[i]) \in AllKeys
             /\ m[i] \in AllPaths /\ Shows(Under(P, m[i]), w[i])
  <2> DEFINE a == m[i - 1]
             u == w[i - 1]
             k == Key(Under(P, a), tokens[i])
  <2>1. /\ k \in AllKeys
        /\ Child(u, tokens[i]) = IF u # Failure /\ k \in Members(u) THEN Inside(u, k) ELSE Failure
    BY <1>0, <1>4, KeyIs
  <2>2. m[i] = Append(a, k) /\ w[i] = Child(u, tokens[i])  BY <1>1, <1>2
  <2> HIDE DEF k
  <2>3. Append(a, k) \in AllPaths  BY <1>4, <2>1, Appended
  <2>4. Under(P, m[i]) = Under(Under(P, a), <<k>>)  BY <1>4, <2>1, <2>2, ShownProper, UnderAppend
  <2>5. Shows(Under(Under(P, a), <<k>>),
              IF u # Failure /\ k \in Members(u) THEN Inside(u, k) ELSE Failure)
    BY <1>4, <2>1, ShowsMember
  <2>6. Shows(Under(P, m[i]), w[i])  BY <2>1, <2>2, <2>4, <2>5
  <2> QED  BY <2>1, <2>2, <2>3, <2>6 DEF k
<1>5. ASSUME NEW i \in 0..(n - 1), i \in T PROVE i + 1 \in T
  <2> DEFINE j == i + 1
  <2>1. j \in 1..n /\ j - 1 = i /\ j \in 0..n  BY <1>0
  <2> HIDE DEF j
  <2>2. m[j] \in AllPaths /\ Shows(Under(P, m[j]), w[j])  BY <1>4, <1>5, <2>1
  <2> QED  BY <2>1, <2>2 DEF j
<1>6. \A i \in 0..n : i \in T
  <2> HIDE DEF T
  <2> QED  BY <1>0, <1>3, <1>5, UpTo
<1>7. \A i \in 1..n : i - 1 \in 0..n  BY <1>0
<1> QED  BY <1>0, <1>1, <1>2, <1>4, <1>6, <1>7 DEF n

\* A path that begins with another.
Beyond(m, b) == \E y \in AllPaths : m = b \o y

(* What a path names comes before what the longer paths name.             *)
LEMMA Before ==
    ASSUME NEW n \in Nat, NEW m, \A i \in 0..n : m[i] \in AllPaths,
           \A i \in 1..n : \E k \in AllKeys : m[i] = Append(m[i - 1], k),
           NEW i \in 0..n, NEW j \in i..n
    PROVE  Beyond(m[j], m[i])
<1> DEFINE T == {d \in 0..(n - i) : \E y \in AllPaths : m[i + d] = m[i] \o y}
<1>0. n - i \in Nat /\ i \in Int  OBVIOUS
<1>1. 0 \in T
  <2>1. m[i] \o <<>> = m[i] /\ <<>> \in AllPaths  BY Paths
  <2>2. i + 0 = i /\ 0 \in 0..(n - i)  BY <1>0
  <2> QED  BY <2>1, <2>2
<1>2. ASSUME NEW d \in 0..((n - i) - 1), d \in T PROVE d + 1 \in T
  <2>1. PICK y \in AllPaths : m[i + d] = m[i] \o y  BY <1>2
  <2> DEFINE e == i + (d + 1)
  <2>2. e \in 1..n /\ e - 1 = i + d /\ d + 1 \in 0..(n - i) /\ i + d \in 0..n  BY <1>0
  <2>3. PICK k \in AllKeys : m[e] = Append(m[e - 1], k)
    <3> HIDE DEF e
    <3> QED  BY <2>2
  <2> HIDE DEF e
  <2>4. m[e] = m[i + d] \o <<k>>  BY <2>2, <2>3, Appended
  <2>5. m[i] \in AllPaths /\ <<k>> \in AllPaths /\ y \o <<k>> \in AllPaths  BY Paths
  <2>6. (m[i] \o y) \o <<k>> = m[i] \o (y \o <<k>>)  BY <2>5, Joins
  <2> QED  BY <2>1, <2>2, <2>4, <2>5, <2>6 DEF e
<1>3. \A d \in 0..(n - i) : d \in T
  <2> HIDE DEF T
  <2> QED  BY <1>0, <1>1, <1>2, UpTo
<1>4. j - i \in 0..(n - i) /\ i + (j - i) = j  OBVIOUS
<1>5. \E y \in AllPaths : m[j] = m[i] \o y  BY <1>3, <1>4
<1> QED  BY <1>5 DEF Beyond

(* What is at the path whose value was changed, and above it.             *)
LEMMA WithinUnder ==
    ASSUME NEW P, Proper(P), NEW M, Proper(M), M # {}, NEW m \in AllPaths
    PROVE  Proper(Within(P, m, M)) /\ Under(Within(P, m, M), m) = M
<1> DEFINE E == Within(P, m, M)
<1>1. E = Pruned(P, m) \cup PutAt(M, m)  BY DEF Within
<1>2. Proper(E)  BY <1>1, PrunedIs, PutAtIs, ProperUnion
<1> HIDE DEF E
<1>3. ASSUME NEW q \in AllPaths, NEW x PROVE Place(q, x) \in Under(E, m) <=> Place(q, x) \in M
  <2>1. Place(q, x) \in Under(E, m) <=> Place(m \o q, x) \in E  BY <1>2, UnderIs
  <2>2. m \o q \in AllPaths  BY Paths
  <2>3. Place(m \o q, x) \notin Pruned(P, m)  BY <2>2, PrunedIs
  <2>4. Place(m \o q, x) \in PutAt(M, m) <=> Place(q, x) \in M  BY PutUnder
  <2> QED  BY <1>1, <2>1, <2>3, <2>4
<1>4. Proper(Under(E, m))  BY <1>2, UnderIs
<1>5. Under(E, m) = M  BY <1>3, <1>4, SamePlaces
<1> QED  BY <1>2, <1>5 DEF E

(* In between, each value has one member that was changed.                 *)
LEMMA WithinAbove ==
    ASSUME NEW P, Proper(P), NEW M, Proper(M), M # {}, NEW a \in AllPaths, NEW k \in AllKeys,
           NEW m, Beyond(m, Append(a, k))
    PROVE  Under(Within(P, m, M), a)
             = Assigned(Under(P, a), k, Under(Within(P, m, M), Append(a, k)))
<1> DEFINE E == Within(P, m, M)
           b == Append(a, k)
           L == Under(E, a)
           V == Under(E, b)
           R == Assigned(Under(P, a), k, V)
<1>0. b \in AllPaths /\ b = a \o <<k>> /\ <<k>> \in AllPaths  BY Appended, Paths
<1>10. PICK y \in AllPaths : m = Append(a, k) \o y
  BY DEF Beyond
<1> HIDE DEF b
<1>1. m = b \o y /\ m \in AllPaths  BY <1>0, <1>10, Paths DEF b
<1>2. E = Pruned(P, m) \cup PutAt(M, m)  BY DEF Within
<1>3. Proper(E)  BY <1>1, WithinUnder
<1>4. /\ Proper(Under(P, a))
      /\ \A q \in AllPaths : \A x : Place(q, x) \in Under(P, a) <=> Place(a \o q, x) \in P
  BY UnderIs
<1> HIDE DEF E
<1>5. /\ Proper(L) /\ Proper(V)
      /\ \A q \in AllPaths : \A x : Place(q, x) \in L <=> Place(a \o q, x) \in E
      /\ \A q \in AllPaths : \A x : Place(q, x) \in V <=> Place(b \o q, x) \in E
  BY <1>0, <1>3, UnderIs
<1> HIDE DEF L, V
<1>6. /\ Proper(R)
      /\ \A x : Place(<<>>, x) \in R <=> Place(<<>>, x) \in Under(P, a)
      /\ \A l \in AllKeys, q \in AllPaths : \A x :
           Place(<<l>> \o q, x) \in R
                   <=> IF l = k THEN Place(q, x) \in V ELSE Place(<<l>> \o q, x) \in Under(P, a)
  BY <1>4, <1>5, AssignedIs
<1> HIDE DEF R
<1>7. ASSUME NEW q \in AllPaths, NEW x, ~\E z \in AllPaths : q = <<k>> \o z
      PROVE  Place(a \o q, x) \in E <=> Place(a \o q, x) \in P
  <2>1. a \o q \in AllPaths  BY Paths
  <2>2. ~\E z \in AllPaths : a \o q = m \o z
    <3>9. \A z \in AllPaths : (b \o y) \o z = b \o (y \o z)  BY <1>0, Joins
    <3> SUFFICES ASSUME NEW z \in AllPaths, a \o q = m \o z PROVE FALSE
      OBVIOUS
    <3>0. a \o q = m \o z  OBVIOUS
    <3>1. y \o z \in AllPaths /\ <<k>> \o (y \o z) \in AllPaths  BY NotEmpty, Paths
    <3> DEFINE yz == y \o z
    <3>2. (b \o y) \o z = b \o yz  BY <3>9
    <3>3. yz \in AllPaths /\ <<k>> \o yz \in AllPaths  BY <3>1
    <3> HIDE DEF yz
    <3>4. (a \o <<k>>) \o yz = a \o (<<k>> \o yz)  BY <1>0, <3>3, Joins
    <3>5. a \o q = a \o (<<k>> \o yz)  BY <1>0, <1>1, <3>0, <3>2, <3>4
    <3>6. q = <<k>> \o yz  BY <3>3, <3>5, Cancels
    <3> QED  BY <1>7, <3>3, <3>6
  <2>3. Place(a \o q, x) \in Pruned(P, m) <=> Place(a \o q, x) \in P
    BY <1>1, <2>1, <2>2, PrunedIs
  <2>4. Place(a \o q, x) \in PutAt(M, m)
          <=> \E z \in AllPaths : a \o q = m \o z /\ Place(z, x) \in M
    BY <1>1, <2>1, PutAtIs
  <2> QED  BY <1>2, <2>2, <2>3, <2>4
<1>8. ASSUME NEW q \in AllPaths, NEW x PROVE Place(q, x) \in L <=> Place(q, x) \in R
  <2>1. CASE q = <<>>
    <3>1. ~\E z \in AllPaths : q = <<k>> \o z  BY <2>1, NotEmpty
    <3> QED  BY <1>4, <1>5, <1>6, <1>7, <2>1, <3>1
  <2>2. ASSUME NEW l \in AllKeys, NEW z \in AllPaths, q = <<l>> \o z
        PROVE  Place(q, x) \in L <=> Place(q, x) \in R
    <3>1. CASE l = k
      <4>0. (a \o <<k>>) \o z = a \o (<<k>> \o z)  BY <1>0, Joins
      <4>1. a \o q = b \o z  BY <1>0, <2>2, <3>1, <4>0
      <4> QED  BY <1>5, <1>6, <2>2, <3>1, <4>1
    <3>2. CASE l # k
      <4>1. ~\E t \in AllPaths : q = <<k>> \o t  BY <2>2, <3>2, SameHead
      <4> QED  BY <1>4, <1>5, <1>6, <1>7, <2>2, <3>2, <4>1
    <3> QED  BY <3>1, <3>2
  <2> QED  BY <2>1, <2>2, Split
<1>9. L = R  BY <1>5, <1>6, <1>8, SamePlaces
<1> QED  BY <1>9 DEF L, R, V, E, b

\* A value after the member that the last token names was added, replaced or removed.
Changed(Q, verb, k, V) == CASE verb = "add"     -> MemberAdded(Q, k, V)
                            [] verb = "replace" -> MemberReplaced(Q, k, V)
                            [] verb = "remove"  -> MemberRemoved(Q, k)

(* A failure has no members to change.                                     *)
LEMMA MemberOfNone ==
    \A verb, t, c : Child(Failure, t) = Failure /\ ChangeMember(Failure, verb, t, c) = Failure
<1>1. Failure.type = "failure"  BY DEF Failure
<1>2. "failure" # "object" /\ "failure" # "list"  OBVIOUS
<1> QED  BY <1>1, <1>2 DEF Child, ChangeMember

(* One member of the last value on the way.                               *)
LEMMA LastChanged ==
    ASSUME NEW Q, NEW u, Shows(Q, u), NEW t \in STRING,
           NEW verb \in {"add", "replace", "remove"}, NEW V, NEW c,
           verb # "remove" => Shows(V, c), verb # "add" => c # Failure
    PROVE  /\ Shows(Changed(Q, verb, Key(Q, t), V), ChangeMember(u, verb, t, c))
           /\ u = Failure => ChangeMember(u, verb, t, c) = Failure
<1>1. CASE verb = "add"
  <2>1. Changed(Q, verb, Key(Q, t), V) = MemberAdded(Q, Key(Q, t), V)  BY <1>1 DEF Changed
  <2>2. Shows(V, c)  BY <1>1
  <2>3. Shows(MemberAdded(Q, Key(Q, t), V), ChangeMember(u, "add", t, c))
    BY <2>2, MemberAddedIs
  <2> QED  BY <1>1, <2>1, <2>3, MemberOfNone
<1>2. CASE verb = "replace"
  <2>1. Changed(Q, verb, Key(Q, t), V) = MemberReplaced(Q, Key(Q, t), V)  BY <1>2 DEF Changed
  <2> QED  BY <1>2, <2>1, MemberReplacedIs, MemberOfNone
<1>3. CASE verb = "remove"
  <2>1. Changed(Q, verb, Key(Q, t), V) = MemberRemoved(Q, Key(Q, t))  BY <1>3 DEF Changed
  <2> QED  BY <1>3, <2>1, MemberRemovedIs, MemberOfNone
<1> QED  BY <1>1, <1>2, <1>3

LEMMA SomeAssigned ==
    ASSUME NEW Q, NEW k, NEW V, V # {}
    PROVE  Assigned(Q, k, V) # {}
<1>1. PICK r : r \in V  OBVIOUS
<1>2. [r EXCEPT !.path = <<k>> \o @] \in PutAt(V, <<k>>)  BY <1>1 DEF PutAt
<1> QED  BY <1>2 DEF Assigned

(* One value on the way, after the one below it was changed.              *)
LEMMA NextChanged ==
    ASSUME NEW Q, NEW u, Shows(Q, u), NEW t \in STRING, Child(u, t) # Failure,
           NEW V, NEW c, Shows(V, c), c # Failure
    PROVE  /\ ChangeMember(u, "replace", t, c) # Failure
           /\ Shows(Assigned(Q, Key(Q, t), V), ChangeMember(u, "replace", t, c))
<1> DEFINE k == Key(Q, t)
<1>1. k \in AllKeys /\ u # Failure /\ k \in Members(u)  BY KeyIs
<1>2. Has(Q, k)  BY <1>1, HasMember
<1>3. Shows(MemberReplaced(Q, k, V), ChangeMember(u, "replace", t, c))
  BY MemberReplacedIs
<1> HIDE DEF k
<1>4. MemberReplaced(Q, k, V) = Assigned(Q, k, V)  BY <1>2 DEF MemberReplaced
<1>5. V # {}  BY ShowsSome
<1>6. Assigned(Q, k, V) # {}  BY <1>5, SomeAssigned
<1>7. ChangeMember(u, "replace", t, c) # Failure  BY <1>3, <1>4, <1>6, ShowsSome
<1> QED  BY <1>3, <1>4, <1>7 DEF k

(* The patch of a document does to its places what the reference says.    *)
LEMMA ReferredIs ==
    ASSUME NEW P, NEW d, Shows(P, d), NEW tokens \in Seq(STRING), tokens # <<>>,
           NEW verb \in {"add", "replace", "remove"}, NEW V, NEW c,
           verb # "remove" => Shows(V, c), verb # "add" => c # Failure
    PROVE  /\ Shows(Referred(P, verb, tokens, V), Change(d, verb, tokens, c))
           /\ d = Failure => Change(d, verb, tokens, c) = Failure
<1> DEFINE n == Len(tokens)
           w == Way(d, tokens)
           m == Meant(P, tokens)
<1>1. n \in Nat /\ Proper(P)  BY LenProperties, ShownProper
<1>2. /\ w[0] = d /\ m[0] = <<>>
      /\ \A i \in 0..n : m[i] \in AllPaths /\ Shows(Under(P, m[i]), w[i])
      /\ \A i \in 1..n :
           /\ tokens[i] \in STRING
           /\ w[i] = Child(w[i - 1], tokens[i])
           /\ Key(Under(P, m[i - 1]), tokens[i]) \in AllKeys
           /\ m[i] = Append(m[i - 1], Key(Under(P, m[i - 1]), tokens[i]))
  BY Followed
<1>3. PICK f : Changes(f, d, verb, tokens, c)  BY ChangeExists
<1>7. /\ f[0] = c
      /\ \A i \in 1..n : f[i] = ChangeMember(w[n - i], IF i = 1 THEN verb ELSE "replace",
                                             tokens[n + 1 - i], f[i - 1])
      /\ Change(d, verb, tokens, c) = IF n = 0 THEN Failure ELSE f[n]
  BY <1>3 DEF Changes, Outward
<1>4. Referred(P, verb, tokens, V)
        = IF n = 0 THEN (IF verb = "remove" THEN {} ELSE V)
          ELSE Within(P, m[n - 1], Changed(Under(P, m[n - 1]), verb, Last(m[n]), V))
  BY DEF Referred, Changed
<1>5. n # 0
  OBVIOUS
<1> HIDE DEF n, w, m
<1>6. CASE n # 0
  <2> DEFINE t == tokens[n]
             u == w[n - 1]
             Q == Under(P, m[n - 1])
             k == Key(Q, t)
             M == Changed(Q, verb, k, V)
             x == f[1]
             E == Within(P, m[n - 1], M)
  <2>1. /\ n \in 1..n /\ n - 1 \in 0..n /\ 1 \in 1..n
        /\ n + 1 - 1 = n /\ 0 + 1 = 1 /\ (n - 1) + 1 = n
        /\ n - 1 \in 0..(n - 1) /\ n - 1 \in Nat /\ 0 \in 0..(n - 1) /\ 1 - 1 = 0
    BY <1>1, <1>6
  <2>2. /\ Shows(Q, u) /\ m[n - 1] \in AllPaths /\ t \in STRING /\ k \in AllKeys
        /\ m[n] = Append(m[n - 1], k)
    BY <1>2, <2>1
  <2>3. Last(m[n]) = k
    <3> HIDE DEF k
    <3>1. Len(Append(m[n - 1], k)) = Len(m[n - 1]) + 1
          /\ Append(m[n - 1], k)[Len(m[n - 1]) + 1] = k
      BY <2>2, Appended
    <3> QED  BY <2>2, <3>1 DEF Last
  <2>4. Referred(P, verb, tokens, V) = E  BY <1>4, <1>6, <2>3
  <2>5. x = ChangeMember(u, verb, t, c)  BY <1>7, <2>1
  <2>6. Shows(M, x) /\ (u = Failure => x = Failure)
    <3> HIDE DEF u, t, Q
    <3> QED  BY <2>2, <2>5, LastChanged
  <2>7. Change(d, verb, tokens, c) = f[n]  BY <1>7, <1>6
  <2> HIDE DEF t, u, Q, k, M, x, E
  <2>8. CASE x = Failure
    <3>1. M = {}  BY <2>6, <2>8, ShowsSome
    <3>2. E = {}  BY <3>1 DEF E, Within
    <3> DEFINE T == {j \in 0..(n - 1) : f[j + 1] = Failure}
    <3>3. 0 \in T  BY <2>1, <2>8 DEF x
    <3>4. ASSUME NEW j \in 0..((n - 1) - 1), j \in T PROVE j + 1 \in T
      <4> DEFINE i == j + 2
      <4>1. i \in 1..n /\ i - 1 = j + 1 /\ (j + 1) + 1 = i /\ j + 1 \in 0..(n - 1)  BY <2>1
      <4> HIDE DEF i
      <4>2. f[i - 1] = Failure  BY <3>4, <4>1
      <4>3. f[i] = Failure  BY <1>7, <4>1, <4>2 DEF ChangeMember
      <4> QED  BY <4>1, <4>3
    <3>5. \A j \in 0..(n - 1) : j \in T
      <4> HIDE DEF T
      <4> QED  BY <2>1, <3>3, <3>4, UpTo
    <3>6. f[n] = Failure  BY <2>1, <3>5
    <3> QED  BY <2>4, <2>7, <3>2, <3>6, NoneShown
  <2>9. CASE x # Failure
    <3>1. M # {} /\ u # Failure /\ Proper(M)  BY <2>6, <2>9, ShowsSome, ShownProper
    <3>2. Proper(E) /\ Under(E, m[n - 1]) = M  BY <1>1, <2>2, <3>1, WithinUnder DEF E
    <3> DEFINE S == {j \in 0..(n - 1) : w[n - 1 - j] # Failure}
    <3>3. 0 \in S  BY <2>1, <3>1 DEF u
    <3>4. ASSUME NEW j \in 0..((n - 1) - 1), j \in S PROVE j + 1 \in S
      <4> DEFINE i == n - 1 - j
      <4>1. i \in 1..n /\ n - 1 - (j + 1) = i - 1 /\ j + 1 \in 0..(n - 1)  BY <2>1
      <4>2. w[i] # Failure  BY <3>4
      <4> HIDE DEF i
      <4>3. w[i] = Child(w[i - 1], tokens[i])  BY <1>2, <4>1
      <4>4. w[i - 1] # Failure  BY <4>2, <4>3, MemberOfNone
      <4> QED  BY <4>1, <4>4
    <3>5. \A j \in 0..(n - 1) : j \in S
      <4> HIDE DEF S
      <4> QED  BY <2>1, <3>3, <3>4, UpTo
    <3>6. \A i \in 0..(n - 1) : w[i] # Failure
      <4> TAKE i \in 0..(n - 1)
      <4> DEFINE j == n - 1 - i
      <4>1. j \in 0..(n - 1) /\ n - 1 - j = i  BY <1>1, <2>1
      <4> HIDE DEF j
      <4> QED  BY <3>5, <4>1
    <3> DEFINE T == {j \in 0..(n - 1) : f[j + 1] # Failure
                                        /\ Shows(Under(E, m[n - 1 - j]), f[j + 1])}
    <3>7. 0 \in T
      <4>1. n - 1 - 0 = n - 1  BY <2>1
      <4> QED  BY <2>1, <2>6, <2>9, <3>2, <4>1 DEF x
    <3>8. ASSUME NEW j \in 0..((n - 1) - 1), j \in T PROVE j + 1 \in T
      <4> DEFINE i == n - 1 - j
                 a == m[i - 1]
                 l == Key(Under(P, a), tokens[i])
                 h == j + 2
      <4>1. /\ i \in 1..n /\ i \in 0..n /\ i - 1 \in 0..n /\ i \in 0..(n - 1) /\ n - 1 \in i..n
            /\ n - 1 - (j + 1) = i - 1 /\ j + 1 \in 0..(n - 1)
            /\ h \in 1..n /\ h # 1 /\ h - 1 = j + 1 /\ (j + 1) + 1 = h
            /\ n - h = i - 1 /\ n + 1 - h = i
        BY <2>1
      <4>2. f[j + 1] # Failure /\ Shows(Under(E, m[i]), f[j + 1])  BY <3>8
      <4> HIDE DEF i, h
      <4>3. f[h] = ChangeMember(w[i - 1], "replace", tokens[i], f[j + 1])  BY <1>7, <4>1
      <4>4. /\ a \in AllPaths /\ Shows(Under(P, a), w[i - 1]) /\ tokens[i] \in STRING
            /\ l \in AllKeys /\ m[i] = Append(a, l) /\ Child(w[i - 1], tokens[i]) = w[i]
        BY <1>2, <4>1
      <4>5. w[i] # Failure  BY <3>6, <4>1
      <4>6. \A e \in 1..n : \E z \in AllKeys : m[e] = Append(m[e - 1], z)  BY <1>2
      <4>7. Beyond(m[n - 1], m[i])
        <5> DEFINE e == n - 1
        <5>1. e \in i..n  BY <4>1
        <5> HIDE DEF e
        <5>2. \A z \in 0..n : m[z] \in AllPaths  BY <1>2
        <5>3. i \in 0..n  BY <4>1
        <5>4. Beyond(m[e], m[i])  BY <1>1, <4>6, <5>1, <5>2, <5>3, Before
        <5> QED  BY <5>4 DEF e
      <4> HIDE DEF a, l
      <4>8. Under(E, a) = Assigned(Under(P, a), l, Under(E, m[i]))
        <5>1. Beyond(m[n - 1], Append(a, l))  BY <4>4, <4>7
        <5>2. Under(E, a) = Assigned(Under(P, a), l, Under(E, Append(a, l)))
          BY <1>1, <2>2, <3>1, <4>4, <5>1, WithinAbove DEF E
        <5> QED  BY <4>4, <5>2
      <4>10. /\ ChangeMember(w[i - 1], "replace", tokens[i], f[j + 1]) # Failure
             /\ Shows(Assigned(Under(P, a), l, Under(E, m[i])),
                      ChangeMember(w[i - 1], "replace", tokens[i], f[j + 1]))
        <5>1. Child(w[i - 1], tokens[i]) # Failure  BY <4>4, <4>5
        <5> QED  BY <4>2, <4>4, <5>1, NextChanged DEF l
      <4>9. f[h] # Failure /\ Shows(Under(E, m[i - 1]), f[h])
        BY <4>3, <4>8, <4>10 DEF a
      <4> QED  BY <4>1, <4>9
    <3>9. \A j \in 0..(n - 1) : j \in T
      <4> HIDE DEF T
      <4> QED  BY <2>1, <3>7, <3>8, UpTo
    <3>10. Shows(Under(E, m[0]), f[n])
      <4>1. n - 1 - (n - 1) = 0  BY <2>1
      <4>2. n - 1 \in T  BY <2>1, <3>9
      <4> QED  BY <2>1, <4>1, <4>2
    <3>11. Under(E, m[0]) = E  BY <1>2, <3>2, UnderNothing
    <3>12. d # Failure  BY <1>2, <2>1, <3>6
    <3> QED  BY <2>4, <2>7, <3>10, <3>11, <3>12
  <2> QED  BY <2>8, <2>9
<1> QED  BY <1>5, <1>6

\* No place is at a path of n keys.
Shallow(P, n) == \A p \in AllPaths : \A x : Place(p, x) \in P => Len(p) < n

(* A value has only one set of places.                                     *)
LEMMA SameShown ==
    ASSUME NEW P, NEW Q, NEW v, Shows(P, v), Shows(Q, v)
    PROVE  P = Q
<1>1. CASE v = Failure  BY <1>1 DEF Shows
<1>2. CASE v # Failure
  <2>1. /\ Proper(P) /\ Proper(Q)
        /\ \A p \in AllPaths : \A x : Place(p, x) \in P <=> Place(p, x) \in Q
    BY <1>2 DEF Shows, Describes
  <2> QED  BY <2>1, SamePlaces
<1> QED  BY <1>1, <1>2

(* The places of a value are those of no other.                           *)
LEMMA SameLevel ==
    ASSUME NEW n \in Nat,
           \A P, v, w : Shows(P, v) /\ Shows(P, w) /\ Shallow(P, n) => v = w,
           NEW P, NEW v, NEW w, Shows(P, v), Shows(P, w), Shallow(P, n + 1)
    PROVE  v = w
<1>1. CASE v = Failure \/ w = Failure  BY <1>1, ShowsSome
<1>2. CASE v # Failure /\ w # Failure
  <2>1. /\ IsNode(v) /\ Members(v) \subseteq AllKeys /\ Proper(P)
        /\ Place(<<>>, Mark(v)) \in P
        /\ \A k \in AllKeys : Has(P, k) <=> k \in Members(v)
        /\ IsList(P) <=> v.type = "list"
        /\ IsObject(P) <=> v.type = "object"
    BY <1>2, ShowsDown
  <2>2. /\ IsNode(w) /\ Members(w) \subseteq AllKeys
        /\ \A x : Place(<<>>, x) \in P <=> x = Mark(w)
        /\ \A k \in AllKeys : Has(P, k) <=> k \in Members(w)
        /\ IsList(P) <=> w.type = "list"
        /\ IsObject(P) <=> w.type = "object"
    BY <1>2, ShowsDown
  <2>3. Mark(v) = Mark(w)  BY <2>1, <2>2
  <2>4. Members(v) = Members(w)  BY <2>1, <2>2
  <2>5. ASSUME NEW k \in Members(v) PROVE Inside(v, k) = Inside(w, k)
    <3>1. k \in AllKeys /\ <<k>> \in AllPaths  BY <2>1, Paths
    <3>2. Shows(Under(P, <<k>>), Inside(v, k)) /\ Shows(Under(P, <<k>>), Inside(w, k))
      <4>1. k \in Members(w)  BY <2>4
      <4>2. Shows(Under(P, <<k>>),
                  IF v # Failure /\ k \in Members(v) THEN Inside(v, k) ELSE Failure)
        BY <3>1, ShowsMember
      <4>3. Shows(Under(P, <<k>>),
                  IF w # Failure /\ k \in Members(w) THEN Inside(w, k) ELSE Failure)
        BY <3>1, ShowsMember
      <4> QED  BY <1>2, <4>1, <4>2, <4>3
    <3>3. Shallow(Under(P, <<k>>), n)
      <4> SUFFICES ASSUME NEW q \in AllPaths, NEW x, Place(q, x) \in Under(P, <<k>>)
                   PROVE  Len(q) < n
        BY DEF Shallow
      <4>1. Place(<<k>> \o q, x) \in P  BY <2>1, <3>1, UnderIs
      <4>2. <<k>> \o q \in AllPaths /\ Len(<<k>> \o q) = Len(q) + 1 /\ Len(q) \in Nat
        BY <3>1, NotEmpty, Paths
      <4>3. Len(<<k>> \o q) < n + 1  BY <4>1, <4>2 DEF Shallow
      <4> QED  BY <4>2, <4>3
    <3> QED  BY <3>2, <3>3
  <2>6. CASE v.type = "object"
    <3>1. /\ w.type = "object"
          /\ v = Object([k \in DOMAIN v.fields |-> v.fields[k]])
          /\ w = Object([k \in DOMAIN w.fields |-> w.fields[k]])
          /\ Members(v) = {<<"member", k>> : k \in DOMAIN v.fields}
          /\ Members(w) = {<<"member", k>> : k \in DOMAIN w.fields}
      BY <2>1, <2>2, <2>6, Nodes
    <3>2. \A x, y : <<"member", x>> = <<"member", y>> <=> x = y  OBVIOUS
    <3>3. DOMAIN v.fields = DOMAIN w.fields
      <4>1. \A x : x \in DOMAIN v.fields <=> <<"member", x>> \in Members(v)  BY <3>1, <3>2
      <4>2. \A x : x \in DOMAIN w.fields <=> <<"member", x>> \in Members(w)  BY <3>1, <3>2
      <4> QED  BY <2>4, <4>1, <4>2
    <3>4. ASSUME NEW x \in DOMAIN v.fields PROVE v.fields[x] = w.fields[x]
      <4>1. <<"member", x>> \in Members(v)  BY <3>1
      <4>2. Inside(v, <<"member", x>>) = v.fields[x] /\ Inside(w, <<"member", x>>) = w.fields[x]
        BY DEF Inside
      <4> QED  BY <2>5, <4>1, <4>2
    <3>5. [k \in DOMAIN v.fields |-> v.fields[k]] = [k \in DOMAIN w.fields |-> w.fields[k]]
      BY <3>3, <3>4
    <3> QED  BY <3>1, <3>5
  <2>7. CASE v.type = "list"
    <3>1. w.type = "list"  BY <2>1, <2>2, <2>7
    <3> DEFINE r == v.items
               s == w.items
               S == Range(r) \cup Range(s)
    <3>2. /\ v = List(r) /\ r \in Seq(Range(r)) /\ Len(r) \in Nat
          /\ Members(v) = {Item(i) : i \in 0..(Len(r) - 1)}
          /\ \A i : Inside(v, Item(i)) = r[i + 1]
      BY <1>2, <2>7, Items
    <3>3. /\ w = List(s) /\ s \in Seq(Range(s)) /\ \A i : Inside(w, Item(i)) = s[i + 1]
      BY <1>2, <3>1, Items
    <3>4. Len(r) = Len(s)  BY <1>2, <2>7, <3>1, IndicesIs
    <3> HIDE DEF r, s
    <3>5. ASSUME NEW i \in 1..Len(r) PROVE r[i] = s[i]
      <4>1. i - 1 \in 0..(Len(r) - 1) /\ (i - 1) + 1 = i  BY <3>2
      <4> DEFINE j == i - 1
      <4>2. j \in 0..(Len(r) - 1) /\ j + 1 = i  BY <4>1
      <4> HIDE DEF j
      <4>3. Item(j) \in Members(v)  BY <3>2, <4>2
      <4>4. Inside(v, Item(j)) = Inside(w, Item(j))  BY <2>5, <4>3
      <4> QED  BY <3>2, <3>3, <4>2, <4>4
    <3>6. r \in Seq(S) /\ s \in Seq(S)
      <4>1. Range(r) \subseteq S /\ Range(s) \subseteq S  OBVIOUS
      <4>2. Seq(Range(r)) \subseteq Seq(S) /\ Seq(Range(s)) \subseteq Seq(S)
        <5> HIDE DEF S
        <5> QED  BY <4>1, SeqMonotonic
      <4> QED  BY <3>2, <3>3, <4>2
    <3>7. r = s
      <4> HIDE DEF S
      <4> QED  BY <3>4, <3>5, <3>6, SeqEqual
    <3> QED  BY <3>2, <3>3, <3>7
  <2>8. CASE v.type # "object" /\ v.type # "list"
    <3>1. w.type # "object" /\ w.type # "list"  BY <2>1, <2>2, <2>8
    <3>2. v = Leaf(v.value) /\ Mark(v) = <<"leaf", v.value>>  BY <2>1, <2>8, Nodes
    <3>3. w = Leaf(w.value) /\ Mark(w) = <<"leaf", w.value>>  BY <2>2, <3>1, Nodes
    <3>4. \A x, y : <<"leaf", x>> = <<"leaf", y>> => x = y  OBVIOUS
    <3>5. v.value = w.value  BY <2>3, <3>2, <3>3, <3>4
    <3> QED  BY <3>2, <3>3, <3>5
  <2> QED  BY <2>6, <2>7, <2>8
<1> QED  BY <1>1, <1>2

(* So the places that show a value tell it from every other.               *)
LEMMA SameValue ==
    ASSUME NEW n \in Nat, NEW P, NEW v, NEW w, Shows(P, v), Shows(P, w), Shallow(P, n)
    PROVE  v = w
<1> DEFINE Only(i) == \A Q, x, y : Shows(Q, x) /\ Shows(Q, y) /\ Shallow(Q, i) => x = y
           T == {i \in 0..n : Only(i)}
<1>1. Only(0)
  <2> SUFFICES ASSUME NEW Q, NEW x, NEW y, Shows(Q, x), Shows(Q, y), Shallow(Q, 0)
               PROVE  x = y
    OBVIOUS
  <2>1. x = Failure
    <3> SUFFICES ASSUME x # Failure PROVE FALSE
      OBVIOUS
    <3>1. Place(<<>>, Mark(x)) \in Q  BY ShowsDown
    <3> QED  BY <3>1, Paths DEF Shallow
  <2> QED  BY <2>1, ShowsSome
<1>2. ASSUME NEW i \in 0..(n - 1), i \in T PROVE i + 1 \in T
  <2>1. i \in Nat /\ i + 1 \in 0..n  OBVIOUS
  <2>2. Only(i)  BY <1>2
  <2>3. Only(i + 1)
    <3> SUFFICES ASSUME NEW Q, NEW x, NEW y, Shows(Q, x), Shows(Q, y), Shallow(Q, i + 1)
                 PROVE  x = y
      OBVIOUS
    <3> QED  BY <2>1, <2>2, SameLevel
  <2> HIDE DEF Only
  <2> QED  BY <2>1, <2>3
<1>3. \A i \in 0..n : i \in T
  <2>1. 0 \in T
    <3> HIDE DEF Only
    <3> QED  BY <1>1
  <2> HIDE DEF T
  <2> QED  BY <1>2, <2>1, UpTo
<1>4. Only(n)
  <2> HIDE DEF Only
  <2> QED  BY <1>3
<1> QED  BY <1>4

\* A value with the path to it, as Reached has them.
Reaching(path, v) == [path |-> path, value |-> v]

LEMMA AtIs ==
    \A p, v : Reaching(p, v).path = p /\ Reaching(p, v).value = v
BY DEF Reaching

LEMMA BelowIs ==
    ASSUME NEW R, NEW r
    PROVE  r \in Below(R) <=> \E s \in R : \E k \in Members(s.value) :
                                 r = Reaching(Append(s.path, k), Inside(s.value, k))
BY DEF Below, Reaching

(* Whatever a path leads to is reached, unless it is too deep.            *)
LEMMA TrailReached ==
    ASSUME NEW v, NEW p \in AllPaths, NEW g, Trail(v, p, g), NEW i \in 0..Len(p), i <= MaxLevels
    PROVE  Reaching(SubSeq(p, 1, i), g[i]) \in Reached(v) /\ Len(SubSeq(p, 1, i)) = i
<1>1. PICK f : Levels(f, v)  BY ReachedExists
<1>2. /\ f[0] = {Reaching(<<>>, v)} /\ \A n \in 1..MaxLevels : f[n] = Below(f[n - 1])
      /\ Reached(v) = UNION {f[n] : n \in 0..MaxLevels}
  BY <1>1 DEF Levels, Root, Reaching
<1>3. /\ g[0] = v
      /\ \A n \in 1..Len(p) : p[n] \in Members(g[n - 1]) /\ g[n] = Inside(g[n - 1], p[n])
  BY DEF Trail
<1>4. p \in Seq(AllKeys) /\ Len(p) \in Nat /\ MaxLevels \in Nat /\ i \in Nat
  BY PatchAssumption, LenProperties DEF AllPaths
<1> DEFINE T == {n \in 0..i : Reaching(SubSeq(p, 1, n), g[n]) \in f[n]}
<1>5. 0 \in T
  <2>1. SubSeq(p, 1, 0) = <<>>  BY SubSeqEmpty
  <2>2. 0 \in 0..i  BY <1>4
  <2>3. Reaching(<<>>, v) \in f[0]  BY <1>2
  <2>4. Reaching(SubSeq(p, 1, 0), g[0]) \in f[0]  BY <1>3, <2>1, <2>3
  <2> QED  BY <2>2, <2>4
<1>6. ASSUME NEW n \in 0..(i - 1), n \in T PROVE n + 1 \in T
  <2> DEFINE m == n + 1
             s == SubSeq(p, 1, n)
  <2>1. /\ m \in 1..Len(p) /\ m \in 1..MaxLevels /\ m - 1 = n /\ m \in 0..i
        /\ 1 \in 1..(Len(p) + 1) /\ n \in Nat /\ n + 1 <= Len(p)
    BY <1>4
  <2>2. SubSeq(p, 1, m) = Append(s, p[m])
    <3>1. 1 \in 1..Len(p) /\ m \in 1..Len(p)  BY <1>4, <2>1
    <3>2. \A j \in 1..m : p[j] \in AllKeys  BY <1>4, <2>1
    <3>3. SubSeq(p, 1, m) = IF 1 <= m THEN Append(SubSeq(p, 1, m - 1), p[m]) ELSE <<>>
      <4> HIDE DEF m
      <4> QED  BY <1>4, <2>1, <3>2, SubSeqRecursiveSecond
    <3> QED  BY <2>1, <3>3
  <2>3. Reaching(s, g[n]) \in f[n]  BY <1>6
  <2> HIDE DEF m, s
  <2>4. p[m] \in Members(g[n]) /\ g[m] = Inside(g[n], p[m])  BY <1>3, <2>1
  <2>5. Reaching(Append(s, p[m]), g[m]) \in Below(f[n])  BY <2>3, <2>4, AtIs, BelowIs
  <2>6. f[m] = Below(f[n])  BY <1>2, <2>1
  <2> QED  BY <2>1, <2>2, <2>5, <2>6 DEF m
<1>7. i \in T
  <2>1. \A n \in 0..i : n \in T
    <3> HIDE DEF T
    <3> QED  BY <1>4, <1>5, <1>6, UpTo
  <2> QED  BY <1>4, <2>1
<1>8. Len(SubSeq(p, 1, i)) = i
  <2>1. \A j \in 1..i : p[j] \in AllKeys  BY <1>4
  <2>2. Len(SubSeq(p, 1, i)) = IF 1 <= i THEN i - 1 + 1 ELSE 0  BY <1>4, <2>1, SubSeqProperties
  <2> QED  BY <1>4, <2>2
<1> QED  BY <1>2, <1>4, <1>7, <1>8

(* A bounded value has no path of MaxLevels keys.                         *)
LEMMA TrailsBounded ==
    ASSUME NEW v, Bounded(v), NEW p \in AllPaths, NEW g, Trail(v, p, g)
    PROVE  Len(p) < MaxLevels /\ Reaching(p, g[Len(p)]) \in Reached(v)
<1>1. p \in Seq(AllKeys) /\ Len(p) \in Nat /\ MaxLevels \in Nat
  BY PatchAssumption, LenProperties DEF AllPaths
<1>2. Len(p) < MaxLevels
  <2> SUFFICES ASSUME MaxLevels <= Len(p) PROVE FALSE
    BY <1>1
  <2>1. /\ Reaching(SubSeq(p, 1, MaxLevels), g[MaxLevels]) \in Reached(v)
        /\ Len(SubSeq(p, 1, MaxLevels)) = MaxLevels
    <3>1. MaxLevels \in 0..Len(p) /\ MaxLevels <= MaxLevels  BY <1>1
    <3> QED  BY <3>1, TrailReached
  <2>2. MaxLevels < MaxLevels  BY <2>1, AtIs DEF Bounded
  <2> QED  BY <1>1, <2>2
<1>3. SubSeq(p, 1, Len(p)) = p  BY <1>1, SubSeqFull
<1>4. Len(p) \in 0..Len(p) /\ Len(p) <= MaxLevels  BY <1>1, <1>2
<1>5. Reaching(SubSeq(p, 1, Len(p)), g[Len(p)]) \in Reached(v)  BY <1>4, TrailReached
<1> QED  BY <1>2, <1>3, <1>5

(* A document is formed, and no deeper than MaxLevels.                     *)
LEMMA JsonFormed ==
    ASSUME NEW v, IsJson(v)
    PROVE  Formed(v) /\ Bounded(v)
<1>1. Bounded(v) /\ \A r \in Reached(v) : IsNode(r.value)  BY DEF IsJson
<1>2. ASSUME NEW p \in AllPaths, NEW g, Trail(v, p, g) PROVE IsNode(g[Len(p)])
  BY <1>1, <1>2, TrailsBounded, AtIs
<1> QED  BY <1>1, <1>2 DEF Formed

(* A trail that goes on to a member.                                       *)
LEMMA TrailLonger ==
    ASSUME NEW v, NEW p \in AllPaths, NEW g, Trail(v, p, g), NEW k \in AllKeys,
           k \in Members(g[Len(p)])
    PROVE  \E f : /\ Trail(v, Append(p, k), f)
                  /\ f[Len(Append(p, k))] = Inside(g[Len(p)], k)
<1> DEFINE n == Len(p)
           q == Append(p, k)
           f == [i \in 0..(n + 1) |-> IF i = n + 1 THEN Inside(g[n], k) ELSE g[i]]
<1>1. n \in Nat /\ Len(q) = n + 1 /\ q[n + 1] = k /\ \A i \in 1..n : q[i] = p[i]
  BY Paths, Appended
<1>2. DOMAIN g = 0..n /\ g[0] = v
      /\ \A i \in 1..n : p[i] \in Members(g[i - 1]) /\ g[i] = Inside(g[i - 1], p[i])
  BY DEF Trail
<1> HIDE DEF q, n
<1>3. \A i \in 0..n : i \in 0..(n + 1) /\ i # n + 1  BY <1>1
<1>4. n + 1 \in 0..(n + 1) /\ 0 \in 0..n /\ n \in 0..n /\ (n + 1) - 1 = n  BY <1>1
<1>5. /\ DOMAIN f = 0..(n + 1) /\ f[n + 1] = Inside(g[n], k)
      /\ \A i \in 0..n : f[i] = g[i]
  BY <1>3, <1>4
<1> HIDE DEF f
<1>6. ASSUME NEW i \in 1..(n + 1)
      PROVE  q[i] \in Members(f[i - 1]) /\ f[i] = Inside(f[i - 1], q[i])
  <2>1. CASE i = n + 1
    <3>1. k \in Members(g[n])  BY DEF n
    <3> QED  BY <1>1, <1>4, <1>5, <2>1, <3>1
  <2>2. CASE i # n + 1
    <3>1. i \in 1..n /\ i \in 0..n /\ i - 1 \in 0..n  BY <1>1, <2>2
    <3> QED  BY <1>1, <1>2, <1>5, <3>1
  <2> QED  BY <2>1, <2>2
<1>7. Trail(v, q, f)  BY <1>1, <1>2, <1>4, <1>5, <1>6 DEF Trail
<1>8. f[Len(q)] = Inside(g[n], k)  BY <1>1, <1>5
<1> QED  BY <1>7, <1>8 DEF n, q

(* Nothing else is reached.                                               *)
LEMMA ReachedTrail ==
    ASSUME NEW v, Formed(v), NEW r \in Reached(v)
    PROVE  /\ r.path \in AllPaths /\ r = Reaching(r.path, r.value)
           /\ \E g : Trail(v, r.path, g) /\ r.value = g[Len(r.path)]
<1> DEFINE Known(s) == /\ s.path \in AllPaths /\ s = Reaching(s.path, s.value)
                      /\ \E g : Trail(v, s.path, g) /\ s.value = g[Len(s.path)]
<1>1. PICK f : Levels(f, v)  BY ReachedExists
<1>2. /\ f[0] = {Reaching(<<>>, v)} /\ \A n \in 1..MaxLevels : f[n] = Below(f[n - 1])
      /\ Reached(v) = UNION {f[n] : n \in 0..MaxLevels}
  BY <1>1 DEF Levels, Root, Reaching
<1>3. MaxLevels \in Nat  BY PatchAssumption
<1> DEFINE T == {n \in 0..MaxLevels : \A s \in f[n] : Known(s)}
<1>4. Known(Reaching(<<>>, v))
  <2> DEFINE g == [i \in 0..0 |-> v]
  <2>1. Trail(v, <<>>, g) /\ g[Len(<<>>)] = v  BY NoTrail
  <2> HIDE DEF g
  <2> QED  BY <2>1, AtIs, Paths
<1>5. ASSUME NEW s, Known(s), NEW k \in Members(s.value)
      PROVE  Known(Reaching(Append(s.path, k), Inside(s.value, k)))
  <2>1. PICK g : Trail(v, s.path, g) /\ s.value = g[Len(s.path)]  BY <1>5
  <2>2. IsNode(s.value)  BY <1>5, <2>1 DEF Formed
  <2>3. k \in AllKeys  BY <2>2, Nodes
  <2>4. Append(s.path, k) \in AllPaths  BY <1>5, <2>3, Appended
  <2>5. \E h : /\ Trail(v, Append(s.path, k), h)
               /\ h[Len(Append(s.path, k))] = Inside(s.value, k)
    BY <1>5, <2>1, <2>3, TrailLonger
  <2> DEFINE t == Reaching(Append(s.path, k), Inside(s.value, k))
  <2>6. t.path = Append(s.path, k) /\ t.value = Inside(s.value, k)  BY AtIs
  <2>7. t = Reaching(t.path, t.value)  BY <2>6
  <2> HIDE DEF t
  <2>8. \E h : Trail(v, t.path, h) /\ t.value = h[Len(t.path)]  BY <2>5, <2>6
  <2>9. Known(t)  BY <2>4, <2>6, <2>7, <2>8
  <2> QED  BY <2>9 DEF t
<1> HIDE DEF Known
<1>6. 0 \in T  BY <1>2, <1>3, <1>4
<1>7. ASSUME NEW n \in 0..(MaxLevels - 1), n \in T PROVE n + 1 \in T
  <2> DEFINE m == n + 1
  <2>1. m \in 1..MaxLevels /\ m - 1 = n /\ m \in 0..MaxLevels  BY <1>3
  <2>2. \A s \in f[n] : Known(s)  BY <1>7
  <2> HIDE DEF m
  <2>3. f[m] = Below(f[n])  BY <1>2, <2>1
  <2>4. \A s \in f[m] : Known(s)  BY <1>5, <2>2, <2>3, BelowIs
  <2> QED  BY <2>1, <2>4 DEF m
<1>8. \A n \in 0..MaxLevels : n \in T
  <2> HIDE DEF T
  <2> QED  BY <1>3, <1>6, <1>7, UpTo
<1>9. PICK n \in 0..MaxLevels : r \in f[n]  BY <1>2
<1>10. Known(r)  BY <1>8, <1>9
<1> QED  BY <1>10 DEF Known

(* PlacesOf shows the value it is of.                                      *)
LEMMA PlacesShown ==
    ASSUME NEW v, Formed(v), Bounded(v)
    PROVE  Shows(PlacesOf(v), v) /\ Shallow(PlacesOf(v), MaxLevels) /\ v # Failure
<1> DEFINE P == PlacesOf(v)
<1>0. v # Failure  BY FormedDown, Nodes
<1>1. P = {Place(r.path, Mark(r.value)) : r \in Reached(v)}  BY DEF PlacesOf, Place
<1> HIDE DEF P
<1>2. ASSUME NEW p \in AllPaths, NEW x PROVE Place(p, x) \in P <=> Occurs(v, p, x)
  <2>1. ASSUME Place(p, x) \in P PROVE Occurs(v, p, x)
    <3>1. PICK r \in Reached(v) : Place(p, x) = Place(r.path, Mark(r.value))  BY <1>1, <2>1
    <3>2. p = r.path /\ x = Mark(r.value)  BY <3>1, PlaceIs
    <3>3. PICK g : Trail(v, r.path, g) /\ r.value = g[Len(r.path)]  BY ReachedTrail
    <3> QED  BY <1>0, <3>2, <3>3 DEF Occurs
  <2>2. ASSUME Occurs(v, p, x) PROVE Place(p, x) \in P
    <3>1. PICK g : Trail(v, p, g) /\ x = Mark(g[Len(p)])  BY <2>2 DEF Occurs
    <3> DEFINE r == Reaching(p, g[Len(p)])
    <3>2. r \in Reached(v)  BY <3>1, TrailsBounded
    <3>3. r.path = p /\ r.value = g[Len(p)]  BY AtIs
    <3> HIDE DEF r
    <3> QED  BY <1>1, <3>1, <3>2, <3>3
  <2> QED  BY <2>1, <2>2
<1>3. Proper(P)
  <2> SUFFICES ASSUME NEW r \in P PROVE r.path \in AllPaths /\ r = Place(r.path, r.what)
    BY DEF Proper
  <2>1. PICK s \in Reached(v) : r = Place(s.path, Mark(s.value))  BY <1>1
  <2>2. s.path \in AllPaths  BY ReachedTrail
  <2> QED  BY <2>1, <2>2, PlaceIs
<1>4. Shallow(P, MaxLevels)
  <2> SUFFICES ASSUME NEW p \in AllPaths, NEW x, Place(p, x) \in P PROVE Len(p) < MaxLevels
    BY DEF Shallow
  <2>1. PICK s \in Reached(v) : Place(p, x) = Place(s.path, Mark(s.value))  BY <1>1
  <2>2. p = s.path  BY <2>1, PlaceIs
  <2> QED  BY <2>2 DEF Bounded
<1> QED  BY <1>0, <1>2, <1>3, <1>4 DEF Shows, Describes, P

(* What tokens lead to, in the places and in the document.                *)
LEMMA AtShown ==
    ASSUME NEW P, NEW d, Shows(P, d), NEW tokens \in Seq(STRING)
    PROVE  Shows(At(P, tokens), Get(d, tokens))
<1> DEFINE n == Len(tokens)
           w == Way(d, tokens)
           m == Meant(P, tokens)
<1>1. \A i \in 0..n : Shows(Under(P, m[i]), w[i])  BY Followed
<1>2. n \in 0..n  BY LenProperties
<1>3. Shows(Under(P, m[n]), w[n])
  <2> HIDE DEF n, w, m
  <2> QED  BY <1>1, <1>2
<1> QED  BY <1>3 DEF At, Get

LEMMA WholeDenied ==
    ASSUME NEW d, NEW verb, NEW c  PROVE Change(d, verb, <<>>, c) = Failure
<1>1. <<>> \in Seq(STRING) /\ Len(<<>>) = 0  OBVIOUS
<1>2. PICK f : Changes(f, d, verb, <<>>, c)  BY <1>1, ChangeExists
<1> QED  BY <1>1, <1>2 DEF Changes

LEMMA MovedIs ==
    ASSUME NEW P, NEW d, Shows(P, d), NEW s \in Steps, s.path # <<>>, s.from # <<>>
    PROVE  Shows(Moved(P, s), Move(d, s))
<1> DEFINE rest == Change(d, "remove", s.from, Leaf(0))
           Q == Referred(P, "remove", s.from, {})
<1>1. s.path \in Seq(STRING) /\ s.from \in Seq(STRING)
  BY PatchAssumption
<1>2. Leaf(0) # Failure
  <2>1. Leaf(0).type = "leaf" /\ Failure.type = "failure"  BY DEF Leaf, Failure
  <2> QED  BY <2>1
<1>3. Shows(Q, rest)  BY <1>1, <1>2, ReferredIs
<1>4. Shows(At(P, s.from), Get(d, s.from))  BY <1>1, AtShown
<1>5. /\ Moved(P, s) = Referred(Q, "add", s.path, At(P, s.from))
      /\ Move(d, s) = IF rest = Failure THEN Failure
                      ELSE Change(rest, "add", s.path, Get(d, s.from))
  BY DEF Moved, Move
<1> HIDE DEF rest, Q
<1>6. /\ Shows(Referred(Q, "add", s.path, At(P, s.from)),
               Change(rest, "add", s.path, Get(d, s.from)))
      /\ rest = Failure => Change(rest, "add", s.path, Get(d, s.from)) = Failure
  BY <1>1, <1>3, <1>4, ReferredIs
<1> QED  BY <1>5, <1>6

(* An operation does to a document what the reference does to its places,  *)
(* but for the exceptions.                                                 *)
LEMMA ExpectedIs ==
    ASSUME NEW P, NEW d, Shows(P, d), d # Failure, NEW s \in Steps
    PROVE  Shows(Expected(P, s), Perform(d, s))
<1> DEFINE V == PlacesOf(s.value)
           a == Perform(d, s)
           R == Expected(P, s)
<1>1. /\ s.op \in {"add", "replace", "remove", "copy", "move", "test"}
      /\ s.path \in Seq(STRING) /\ s.from \in Seq(STRING) /\ IsJson(s.value)
  BY PatchAssumption
<1>2. Formed(s.value) /\ Bounded(s.value)  BY <1>1, JsonFormed
<1>3. Shows(V, s.value) /\ Shallow(V, MaxLevels) /\ s.value # Failure
  BY <1>2, PlacesShown
<1> HIDE DEF V
<1>4. CASE Denied(s)
  <2>1. R = {}  BY <1>4 DEF Expected
  <2>2. a = Failure
    <3>1. CASE s.path = <<>> /\ s.op # "test"
      BY <1>1, <3>1, WholeDenied DEF Perform, Move
    <3>2. CASE s.from = <<>> /\ s.op = "move"
      BY <3>2, WholeDenied DEF Perform, Move
    <3> QED  BY <1>4, <3>1, <3>2 DEF Denied
  <2> QED  BY <2>1, <2>2, NoneShown
<1>5. CASE ~Denied(s) /\ s.op \in {"add", "replace", "remove"}
  <2>1. a = Change(d, s.op, s.path, s.value)  BY <1>5 DEF Perform
  <2>2. R = Referred(P, s.op, s.path, V)
    BY <1>5 DEF Expected, Reference, IntoItself, V
  <2>3. s.path # <<>>  BY <1>5 DEF Denied
  <2>4. Shows(Referred(P, s.op, s.path, V), Change(d, s.op, s.path, s.value))
    BY <1>1, <1>3, <1>5, <2>3, ReferredIs
  <2> QED  BY <2>1, <2>2, <2>4
<1>6. CASE ~Denied(s) /\ s.op = "copy"
  <2>1. a = Change(d, "add", s.path, Get(d, s.from))  BY <1>6 DEF Perform
  <2>2. R = Referred(P, "add", s.path, At(P, s.from))
    BY <1>6 DEF Expected, Reference, IntoItself
  <2>3. Shows(At(P, s.from), Get(d, s.from))  BY <1>1, AtShown
  <2>4. s.path # <<>>  BY <1>6 DEF Denied
  <2>5. Shows(Referred(P, "add", s.path, At(P, s.from)),
              Change(d, "add", s.path, Get(d, s.from)))
    BY <1>1, <2>3, <2>4, ReferredIs
  <2> QED  BY <2>1, <2>2, <2>5
<1>7. CASE ~Denied(s) /\ s.op = "move"
  <2>1. a = Move(d, s)  BY <1>7 DEF Perform
  <2>2. R = Moved(P, s)  BY <1>7 DEF Expected, Reference
  <2>3. s.path # <<>> /\ s.from # <<>>  BY <1>7 DEF Denied
  <2> QED  BY <2>1, <2>2, <2>3, MovedIs
<1>8. CASE s.op = "test"
  <2>1. a = IF Get(d, s.path) = s.value THEN d ELSE Failure  BY <1>8 DEF Perform
  <2>2. R = IF At(P, s.path) = V THEN P ELSE {}
    BY <1>8 DEF Expected, Denied, IntoItself, Reference, V
  <2>3. Shows(At(P, s.path), Get(d, s.path))  BY <1>1, AtShown
  <2>4. At(P, s.path) = V => Get(d, s.path) = s.value
    BY <1>3, <2>3, SameValue, PatchAssumption
  <2>5. Get(d, s.path) = s.value => At(P, s.path) = V
    BY <1>3, <2>3, SameShown
  <2> QED  BY <2>1, <2>2, <2>4, <2>5, NoneShown
<1> QED  BY <1>1, <1>4, <1>5, <1>6, <1>7, <1>8
--------------------------------------------------------------------------------
(***************************************************************************)
(* The invariant: as long as nothing failed, the result is a value of JSON,*)
(* no deeper than MaxLevels, and its places are the expected ones.         *)
(***************************************************************************)
JsonInv == IF state = "failed" THEN expected = {}
           ELSE state # "unread" => /\ Formed(result) /\ Bounded(result)
                                    /\ PlacesOf(result) = expected

LEMMA JsonInvInit == JsonInit => JsonInv
BY DEF JsonInit, JsonInv

LEMMA JsonInvStep == JsonInv /\ [JsonNext]_jsonVars => JsonInv'
<1> SUFFICES ASSUME JsonInv, [JsonNext]_jsonVars PROVE JsonInv'
  OBVIOUS
<1>1. ASSUME NEW doc \in Documents, Open(doc) PROVE JsonInv'
  <2>1. Formed(doc) /\ Bounded(doc)  BY PatchAssumption, JsonFormed
  <2>2. state' = "patching" /\ result' = doc /\ expected' = PlacesOf(doc)
    BY <1>1 DEF Open
  <2>3. Formed(result') /\ Bounded(result') /\ PlacesOf(result') = expected'
    BY <2>1, <2>2
  <2> QED  BY <2>2, <2>3 DEF JsonInv
<1>2. ASSUME NEW s \in Steps, Patch(s) PROVE JsonInv'
  <2>1. Formed(result) /\ Bounded(result) /\ PlacesOf(result) = expected
    BY <1>2 DEF JsonInv, Patch
  <2>2. Shows(expected, result) /\ result # Failure  BY <2>1, PlacesShown
  <2>3. Shows(Expected(expected, s), Perform(result, s))  BY <2>2, ExpectedIs
  <2>4. expected' = Expected(expected, s)  BY <1>2 DEF Patch
  <2>5. CASE Perform(result, s) = Failure
    <3>1. expected' = {}  BY <2>3, <2>4, <2>5, ShowsSome
    <3>2. state' = "failed"  BY <1>2, <2>5 DEF Patch
    <3> QED  BY <3>1, <3>2 DEF JsonInv
  <2>6. CASE Perform(result, s) # Failure
    <3> DEFINE r == Perform(result, s)
    <3>1. result' = r /\ Bounded(r) /\ state' = "patching"
      BY <1>2, <2>6 DEF Patch
    <3>2. Formed(r)  BY <2>3, <2>6 DEF Shows
    <3>3. Shows(PlacesOf(r), r)  BY <3>1, <3>2, PlacesShown
    <3>4. PlacesOf(r) = expected'  BY <2>3, <2>4, <3>3, SameShown
    <3> HIDE DEF r
    <3>5. Formed(result') /\ Bounded(result') /\ PlacesOf(result') = expected'
      BY <3>1, <3>2, <3>4
    <3> QED  BY <3>1, <3>5 DEF JsonInv
  <2> QED  BY <2>5, <2>6
<1>3. ASSUME Finish PROVE JsonInv'
  <2>1. /\ state = "patching" /\ state' \in {"accepted", "refused"}
        /\ result' = result /\ expected' = expected
    BY <1>3 DEF Finish
  <2>2. Formed(result) /\ Bounded(result) /\ PlacesOf(result) = expected
    BY <2>1 DEF JsonInv
  <2>3. Formed(result') /\ Bounded(result') /\ PlacesOf(result') = expected'
    BY <2>1, <2>2
  <2> QED  BY <2>1, <2>3 DEF JsonInv
<1>4. ASSUME UNCHANGED jsonVars PROVE JsonInv'
  <2>1. state' = state /\ result' = result /\ expected' = expected
    BY <1>4 DEF jsonVars
  <2>2. CASE state = "failed"  BY <2>1, <2>2 DEF JsonInv
  <2>3. CASE state = "unread"  BY <2>1, <2>3 DEF JsonInv
  <2>4. CASE state # "failed" /\ state # "unread"
    <3>1. Formed(result) /\ Bounded(result) /\ PlacesOf(result) = expected
      BY <2>4 DEF JsonInv
    <3>2. Formed(result') /\ Bounded(result') /\ PlacesOf(result') = expected'
      BY <2>1, <3>1
    <3> QED  BY <2>1, <2>4, <3>2 DEF JsonInv
  <2> QED  BY <2>2, <2>3, <2>4
<1> QED  BY <1>1, <1>2, <1>3, <1>4 DEF JsonNext

(* The places of the patched document are what the reference, RFC 6902,    *)
(* says they are, and an operation raises where that is an error: _get,    *)
(* _parent, _add, _replace, _remove and the operations made of them.  The  *)
(* exceptions are those of PatchesByReference: the whole document may not  *)
(* be written, a value may be moved into itself, and int() reads indices.  *)
THEOREM PatchesAsReferred == JsonSpec => []PatchesByReference
<1>1. JsonInv => PatchesByReference  BY DEF JsonInv, PatchesByReference
<1> QED  BY <1>1, JsonInvInit, JsonInvStep, PTL DEF JsonSpec
================================================================================
