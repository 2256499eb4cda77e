------------------------------- MODULE FilePatch -------------------------------
(***************************************************************************)
(* file_ops.py prepare_file_patch: a client names blocks of lines, with    *)
(* what they hold and what shall replace them; a block that is not where   *)
(* it was asked for is looked for elsewhere.  The function runs in one     *)
(* piece; its steps are actions here so that every way through it is one   *)
(* behaviour.                                                              *)
(*                                                                         *)
(* A text is the sequence of its lines, as splitlines(keepends=True) gives *)
(* them: a word, and whether the line is ended (only a last one may not    *)
(* be).  Texts are the same if and only if their lines are.                *)
(***************************************************************************)
EXTENDS PatchLimits, FiniteSets, SequencesExt

VARIABLES text,         \* the lines of the file
          checked,      \* the patches that were located
          verdict,      \* unread, checking, located, replaced, or an error code
          patched       \* after_lines

patchVars == <<text, checked, verdict, patched>>

Texts(n) == {t \in UNION {[1..m -> Line] : m \in 0..n} :
                \A i \in 1..(Len(t) - 1) : t[i].ended}
Patches == [first : 0..(MaxLines + 1), last : 0..(MaxLines + 1),
            old : Texts(MaxBlock), new : Replacements]

PatchInit == text = <<>> /\ checked = <<>> /\ verdict = "unread" /\ patched = <<>>

Concludes(code) == verdict' = code /\ UNCHANGED <<text, checked, patched>>
--------------------------------------------------------------------------------
\* The file, and whether it still has the digest that the client read.
ReadText(t) ==
    /\ verdict = "unread"
    /\ text' = t
    /\ verdict' \in {"checking", "STALE_FILE_HASH"}
    /\ UNCHANGED <<checked, patched>>

Block(t, first, width) == SubSeq(t, first, first + width - 1)

\* Mutant of ExactMatches: the last place in the file is not looked at.
ExactMatchesButLast(old) == {s \in 1..(Len(text) - Len(old)) :
                               old # <<>> /\ Block(text, s, Len(old)) = old}

\* exact_line_matches.
ExactMatches(old) == {s \in 1..(Len(text) + 1 - Len(old)) :
                        old # <<>> /\ Block(text, s, Len(old)) = old}

InBounds(p) == p.last <= Len(text)
InPlace(p) == InBounds(p) /\ SubSeq(text, p.first, p.last) = p.old

Locate(p, first, last) ==
    /\ checked' = Append(checked, [first |-> first, last |-> last,
                                   moved |-> <<first, last>> # <<p.first, p.last>>,
                                   old |-> p.old, new |-> p.new])
    /\ UNCHANGED <<text, verdict, patched>>

CheckPatch(p) ==
    /\ verdict = "checking" /\ Len(checked) < MaxPatches
    /\ IF ~(1 <= p.first /\ p.first <= p.last) THEN Concludes("INVALID_FILE_PATCH_RANGE")
       ELSE IF InPlace(p) THEN Locate(p, p.first, p.last)
       ELSE \/ \E s \in ExactMatches(p.old) : /\ ExactMatches(p.old) = {s}
                                              /\ Locate(p, s, s + Len(p.old) - 1)
            \/ Cardinality(ExactMatches(p.old)) > 1 /\ Concludes("FILE_PATCH_AMBIGUOUS")
            \/ /\ ExactMatches(p.old) = {}
               /\ Concludes(IF InBounds(p) THEN "FILE_PATCH_MISMATCH"
                                           ELSE "INVALID_FILE_PATCH_RANGE")

\* sorted by first and last line; the sort is stable.
Earlier(i, j) ==
    LET p == checked[i]
        q == checked[j]
    IN  \/ p.first < q.first
        \/ p.first = q.first /\ p.last < q.last
        \/ <<p.first, p.last>> = <<q.first, q.last>> /\ i < j
Rank(j) == Cardinality({i \in DOMAIN checked : Earlier(i, j)}) + 1
InOrder == [k \in DOMAIN checked |->
              checked[CHOOSE i \in DOMAIN checked : Rank(i) = k]]

\* Mutant of Overlap: two blocks may share a line.
OverlapOfMore == \E i \in 2..Len(checked) : InOrder[i].first < InOrder[i - 1].last

Overlap == \E i \in 2..Len(checked) : InOrder[i].first <= InOrder[i - 1].last

\* All patches are located; none is a mistake of the client, too.
CheckOverlap ==
    /\ verdict = "checking"
    /\ Concludes(IF checked = <<>> THEN "INVALID_FILE_PATCHES"
                 ELSE IF Overlap THEN "OVERLAPPING_FILE_PATCHES" ELSE "located")

Put(lines, p) == SubSeq(lines, 1, p.first - 1) \o p.new
                    \o SubSeq(lines, p.last + 1, Len(lines))

\* Mutant of Patched: from the top, with the lines of the original.
PatchedFromTop == FoldLeft(Put, text, InOrder)

\* From the bottom, so that the lines above keep their numbers.
Patched == LET n == Len(checked)
               put[k \in 0..n] == IF k = 0 THEN text
                                  ELSE Put(put[k - 1], InOrder[n + 1 - k])
           IN  put[n]

\* The result may be too long, or fail the validation of its profile.
Replace ==
    /\ verdict = "located"
    /\ patched' = Patched
    /\ verdict' \in {"replaced", "INVALID_FILE_CONTENT"}
    /\ UNCHANGED <<text, checked>>

PatchNext == \/ \E t \in Texts(MaxLines) : ReadText(t)
             \/ \E p \in Patches : CheckPatch(p)
             \/ CheckOverlap
             \/ Replace

PatchSpec == PatchInit /\ [][PatchNext]_patchVars
--------------------------------------------------------------------------------
Lines(p) == p.first..p.last
By(l) == {i \in DOMAIN checked : l \in Lines(checked[i])}

\* What line l of the file becomes when every block is replaced at once.
Becomes(l) == IF By(l) = {} THEN <<text[l]>>
              ELSE LET p == checked[CHOOSE i \in By(l) : TRUE]
                   IN  IF l = p.first THEN p.new ELSE <<>>

(* The patches are applied as if at once, in whatever order the client     *)
(* lists them: each line they name is replaced by the patch that names it, *)
(* and every other line stays.  ("so a line number can never by itself     *)
(* select unrelated content", file_ops.py:328-329.)                        *)
PatchedAtOnce ==
    verdict = "replaced" =>
        /\ \A l \in DOMAIN text : Cardinality(By(l)) <= 1
        /\ patched = FlattenSeq([l \in DOMAIN text |-> Becomes(l)])

(* A patch that is applied elsewhere than asked has no other place to go,  *)
(* at the first and the last line of the file as anywhere between.         *)
MovedIfUnique ==
    \A i \in DOMAIN checked :
        LET p == checked[i]
            HoldsOld(s) == \A k \in DOMAIN p.old :
                              s + k - 1 \in DOMAIN text /\ text[s + k - 1] = p.old[k]
        IN  HoldsOld(p.first) /\ Cardinality(Lines(p)) = Len(p.old)
              /\ (p.moved => \A s \in DOMAIN text : HoldsOld(s) => s = p.first)
================================================================================
