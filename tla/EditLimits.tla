------------------------------- MODULE EditLimits -------------------------------
(* The kinds of object that several writers change, and what clients ask for. *)
EXTENDS Naturals

CONSTANTS Applies,     \* the runs of apply_mutation
          Fields, Values,
          Changes,     \* the partial contents that clients ask for
          Families     \* kinds of object to consider

Kinds == [dashboard  |-> {"dashboard", "replace"},
          registry   |-> {"registry"},
          collection |-> {"update", "delete", "create", "clone"},
          file       |-> {"file"}]

ASSUME ChangesAssumption == /\ Families \subseteq DOMAIN Kinds
                            /\ Changes \subseteq UNION {[S -> Values] : S \in SUBSET Fields}
                            /\ Fields # {} /\ Values # {}
================================================================================
