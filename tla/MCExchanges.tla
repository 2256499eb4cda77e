------------------------------ MODULE MCExchanges ------------------------------
(***************************************************************************)
(* What the bridge exchanges with others, for TLC.  OAuthProxy with an     *)
(* owner and a user, a session of the GPT's client and one of another: API *)
(* requests and exchanges of tokens meet in the sessions alone, and what   *)
(* an exchange does to those of a request RemoveSession does too.  The     *)
(* mails share nothing with either; so a behaviour follows one side of the *)
(* three.                                                                  *)
(***************************************************************************)
EXTENDS OAuthProxy, MCMailRuns

CONSTANTS own, ann, s1, s2, s3

Home == "control:write"
RoleSet == {"status:read", "control:read", Home, "lovelace:write", "mutation:apply"}
SourceSet == {Home, "lovelace:write"}
PresetTable == [home_control |-> {"status:read", "control:read", Home, "mutation:apply"}]

OperationSet == {[cap |-> "control:read", mode |-> "read"],
                 [cap |-> Home, mode |-> "prepare"],
                 [cap |-> "lovelace:write", mode |-> "prepare"],
                 [cap |-> "mutation:apply", mode |-> "apply"]}
DirectSet == {op \in OperationSet : op.cap \in {"lovelace:write", "mutation:apply"}}

PeopleSet == {[active |-> TRUE, rank |-> 0], [active |-> TRUE, rank |-> 2],
              [active |-> FALSE, rank |-> 2]}

Usual == [enabled |-> TRUE, users |-> {}, demands |-> 1, client |-> "gpt",
          caps |-> Resolve("home_control", {}), lockdown |-> FALSE,
          lasting |-> TRUE, secret |-> 0]
ConfigSet == {Usual, [Usual EXCEPT !.lockdown = TRUE, !.secret = 1],
              [Usual EXCEPT !.users = {own}, !.demands = 0,
                            !.caps = Resolve("custom", {"lovelace:write"})]}

BucketSet == SessionIds \X Kinds
OneEach == [b \in BucketSet |-> 1]
AtFirst == s1 :> [user |-> own, client |-> "gpt", lasting |-> FALSE]
             @@ s2 :> [user |-> ann, client |-> "other", lasting |-> FALSE]

Sent(kind, session, user, secret, valid) ==
    [kind |-> kind, session |-> session, user |-> user, secret |-> secret, valid |-> valid]
FormSet == {Sent("code", s3, own, 0, TRUE), Sent("code", s3, ann, 0, TRUE),
            Sent("refresh", s1, own, 0, TRUE), Sent("refresh", s2, own, 1, FALSE),
            Sent("revoke", s3, own, 0, TRUE)}

Alike == Permutations(Exchanges)

VARIABLE side

\* The rate limit has a run of its own: here no time passes for a request, and
\* calls are admitted to two buckets.
MaxUsed == 2
Used == {b \in Buckets : log[b] # <<>>}

MCInit == /\ Init /\ MailInit
          /\ side \in {"api", "proxy", "mail"}
          /\ config = Usual
          /\ people = [u \in Users |-> [active |-> TRUE, rank |-> 2]]
          /\ sender = CHOOSE s \in Senders : TRUE
          /\ side # "mail" => options = [fallback |-> None, folder |-> None]
MCNext == /\ UNCHANGED side
          /\ \/ /\ side = "api" /\ (ApiNext \/ Outside)
                /\ Cardinality(Used') <= MaxUsed
                /\ UNCHANGED <<proxy, mailVars>>
             \/ /\ side = "proxy" /\ (Outside \/ PassTime)
                /\ UNCHANGED <<proxy, mailVars>>
             \/ side = "proxy" /\ ProxyNext /\ UNCHANGED mailVars
             \/ side = "mail" /\ MailNext /\ UNCHANGED vars
MCSpec == MCInit /\ [][MCNext]_<<vars, mailVars, side>>
================================================================================
