----------------------------- MODULE MCObjectEdits -----------------------------
(***************************************************************************)
(* Instances of ObjectEdits for TLC: an object of two fields, and clients  *)
(* that set one of them.                                                   *)
(***************************************************************************)
EXTENDS ObjectEdits, TLC

OneField == UNION {[{f} -> {1}] : f \in Fields}
Symmetry == Permutations(Applies)
================================================================================
