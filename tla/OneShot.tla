------------------------------- MODULE OneShot -------------------------------
(***************************************************************************)
(* What One Bridge promises about a prepared mutation: it is minted once,  *)
(* may be started at most once, and is over when its run ends, when its    *)
(* time is up or when the server forgets it.  No order of requests,        *)
(* retries, expiries or restarts brings a finished mutation back.          *)
(*                                                                         *)
(* PreparedStore and ApplyEngine are shown to implement this module.       *)
(***************************************************************************)

CONSTANT Prepares      \* the prepare_ids that may be minted

VARIABLE phase         \* where each of them is in its one-way life

Phases == {"unminted", "open", "running", "closed"}

Init == phase = [p \in Prepares |-> "unminted"]

\* The only moves there are: mint, start, run out of time, end.
Moves == {<<"unminted", "open">>, <<"open", "running">>,
          <<"open", "closed">>, <<"running", "closed">>}

\* One event may move several ids: the clock expires them together, and a
\* restart closes all that were minted.
Next == /\ phase' \in [Prepares -> Phases]
        /\ \A p \in Prepares : phase'[p] # phase[p] =>
              <<phase[p], phase'[p]>> \in Moves

End(p) == /\ Next
          /\ phase[p] = "running"
          /\ phase'[p] = "closed"

Spec == Init /\ [][Next]_phase

\* A run does not stay unfinished for ever.
FairSpec == Spec /\ \A p \in Prepares : WF_phase(End(p))
==============================================================================
