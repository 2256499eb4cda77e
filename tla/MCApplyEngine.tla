----------------------------- MODULE MCApplyEngine -----------------------------
(***************************************************************************)
(* Instances of ApplyEngine for TLC.  Clients send: exact applies of two   *)
(* prepared mutations under either key, one with another prepare's digest, *)
(* one without confirmation, and direct applies without a key.  A mutation *)
(* may be prepared with a confirmation phrase, which none of them sends.   *)
(***************************************************************************)
EXTENDS ApplyEngine, TLC

CONSTANTS p1, p2, s1, k1, k2

Exact(p) == [session |-> s1, digest |-> p, confirmed |-> TRUE, phrase |-> FALSE]
Keyed(k, p, call) ==
    [route |-> "dispatch", key |-> k, prepare |-> p, call |-> call]
Direct(p, call) == [route |-> "direct", key |-> k1, prepare |-> p, call |-> call]

TwoMutations == {Keyed(k, p, Exact(p)) : k \in {k1, k2}, p \in {p1, p2}}
                  \cup {Keyed(k2, p1, Exact(p2)), Direct(p2, Exact(p2)),
                        Direct(p1, [Exact(p1) EXCEPT !.confirmed = FALSE])}

Retries == {Keyed(k, p1, Exact(p1)) : k \in {k1, k2}}

Symmetry == Permutations(Requests)
================================================================================
