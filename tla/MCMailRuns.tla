------------------------------- MODULE MCMailRuns -------------------------------
(***************************************************************************)
(* Instances of MailRuns for TLC: two spellings of one mailbox, a second   *)
(* recipient, and a fallback that is a recipient, another address or none. *)
(***************************************************************************)
EXTENDS MailRuns, TLC

CaseFold == [x \in Addresses |-> IF x = "ANN" THEN "ann" ELSE x]
=================================================================================
