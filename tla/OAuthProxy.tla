------------------------------ MODULE OAuthProxy ------------------------------
(***************************************************************************)
(* auth.py OAuthTokenProxyView and OAuthRevokeProxyView, next to the API   *)
(* of Access.  An exchange waits for its form and then for Home            *)
(* Assistant's own endpoint, whose answer may be lost after it acted.      *)
(* Home Assistant is external: it grants a code of an active user with a   *)
(* new session for the client it was told, refreshes a session that is     *)
(* there, and answers a revocation whether or not there was one.           *)
(***************************************************************************)
EXTENDS Access

CONSTANTS Exchanges, Forms, MaxFailures,   \* TOKEN_RATE_MAX_FAILURES
          TokenWindow                      \* TOKEN_RATE_WINDOW_SECONDS, in ticks

VARIABLES stage,        \* where each exchange is: answered when it is not under way
          form,         \* what it was sent
          minted,       \* the session Home Assistant made for it
          born,         \* the sessions there ever were
          granted,      \* history: those whose exchange was answered with success
          failures      \* _failures of both limiters, of the one remote address

exchange == <<stage, form, minted>>
proxy == <<exchange, born, granted, failures>>
vars == <<rateVars, request, around, changes, proxy>>

Form == [kind : {"code", "refresh", "revoke"}, session : SessionIds, user : Users,
         secret : Nat, valid : BOOLEAN]
ASSUME FormsAssumption == /\ Forms \subseteq Form /\ IsFiniteSet(Exchanges)
                          /\ MaxFailures \in Nat \ {0} /\ TokenWindow \in Nat

Init == /\ AccessInit
        /\ stage = [x \in Exchanges |-> "answered"]
        /\ form = [x \in Exchanges |-> Nothing]
        /\ minted = [x \in Exchanges |-> {}]
        /\ born = DOMAIN sessions
        /\ granted = DOMAIN sessions
        /\ failures = [v \in {"token", "revoke"} |-> <<>>]

Goes(x, from, to, f) == /\ stage[x] = from
                        /\ stage' = [stage EXCEPT ![x] = to]
                        /\ form' = [form EXCEPT ![x] = f]
Continues(x, from, to) == Goes(x, from, to, form[x])
Answers(x, from) == Goes(x, from, "answered", Nothing)
View(f) == IF f.kind = "revoke" THEN "revoke" ELSE "token"
-------------------------------------------------------------------------------
Aged(queue, i) == clock - queue[i] > TokenWindow

\* blocked: popleft while the head of the deque is older than the window.
Drops(queue, n) == /\ n \in 0..Len(queue)
                   /\ \A i \in 1..n : Aged(queue, i)
                   /\ n < Len(queue) => ~Aged(queue, n + 1)

Failed(x) == failures' = [failures EXCEPT ![View(form[x])] = Append(@, clock)]
Succeeded(x) == failures' = [failures EXCEPT ![View(form[x])] = <<>>]

\* _refresh_token_allowed.
Allowed(s) == sessions[s].client = config.client /\ Welcome(sessions[s].user)

Alive(s) == s \in DOMAIN sessions

\* Mutant of Blocked: failures are counted but never block.
BlockedNever(queue, n) == FALSE

Blocked(queue, n) == Len(queue) - n >= MaxFailures

\* Too many failures, or no configuration: answered at once.
Submit(x, f) ==
    /\ stage[x] \in {"answered", "denied"}
    /\ LET queue == failures[View(f)]
       IN  \E n \in 0..Len(queue) :
              /\ Drops(queue, n)
              /\ IF Blocked(queue, n) \/ ~config.enabled
                 THEN Answers(x, stage[x])
                 ELSE Goes(x, stage[x], "form", f)
              /\ failures' = [failures EXCEPT ![View(f)] =
                                 SubSeq(queue, n + 1, Len(queue))]
    /\ minted' = [minted EXCEPT ![x] = {}]
    /\ UNCHANGED <<rateVars, request, around, changes, born, granted>>

\* The secret, the grant type, the code, redirect and verifier; then the session.
Acceptable(f) == /\ f.secret = config.secret
                 /\ f.valid
                 /\ f.kind # "code" => Alive(f.session) /\ Allowed(f.session)

ReadForm(x) ==
    /\ \/ Continues(x, "form", "sent") /\ Acceptable(form[x]) /\ UNCHANGED failures
       \/ Answers(x, "form") /\ ~Acceptable(form[x]) /\ Failed(x)
    /\ UNCHANGED <<rateVars, request, around, changes, minted, born, granted>>

\* A form that cannot be read: only the token view counts it as a failure.
FormBreaks(x) ==
    /\ Answers(x, "form")
    /\ IF form[x].kind = "revoke" THEN UNCHANGED failures ELSE Failed(x)
    /\ UNCHANGED <<rateVars, request, around, changes, minted, born, granted>>

Mints(x) == \E s \in SessionIds \ born :
               /\ form[x].kind = "code"
               /\ people[form[x].user].active
               /\ sessions' = [t \in DOMAIN sessions \cup {s} |->
                     IF t = s THEN [user |-> form[x].user, client |-> config.client,
                                    lasting |-> FALSE]
                     ELSE sessions[t]]
               /\ minted' = [minted EXCEPT ![x] = {s}]
               /\ born' = born \cup {s}

Refreshes(x) == /\ form[x].kind = "refresh"
                /\ Alive(form[x].session)
                /\ people[sessions[form[x].session].user].active
                /\ UNCHANGED <<sessions, minted, born>>

Without(gone) == [t \in DOMAIN sessions \ gone |-> sessions[t]]

Revokes(x) == /\ form[x].kind = "revoke"
              /\ sessions' = Without({form[x].session})
              /\ UNCHANGED <<minted, born>>

HomeAssistantGrants(x) ==
    /\ Continues(x, "sent", "acted")
    /\ Mints(x) \/ Refreshes(x) \/ Revokes(x)
    /\ UNCHANGED <<rateVars, request, config, people, changes, granted, failures>>

HomeAssistantRefuses(x) ==
    /\ Answers(x, "sent")
    /\ form[x].kind # "revoke"
    /\ Failed(x)
    /\ UNCHANGED <<rateVars, request, around, changes, minted, born, granted>>

\* The session of a code that was exchanged is there and allowed, by now.
MintedAllowed(x) == \A s \in minted[x] : Alive(s) /\ Allowed(s)

\* persistent_refresh_token.
Lasting(x) == [s \in DOMAIN sessions |->
                 IF s \in minted[x] /\ config.lasting
                 THEN [sessions[s] EXCEPT !.lasting = TRUE] ELSE sessions[s]]

AnswerGranted(x) ==
    /\ Answers(x, "acted")
    /\ MintedAllowed(x)
    /\ sessions' = Lasting(x)
    /\ granted' = granted \cup minted[x]
    /\ minted' = [minted EXCEPT ![x] = {}]
    /\ Succeeded(x)
    /\ UNCHANGED <<rateVars, request, config, people, changes, born>>

\* Mutant of AnswerDenied: the new session stays.
DenyAndLeave(x) ==
    /\ Goes(x, "acted", "denied", Nothing)
    /\ ~MintedAllowed(x)
    /\ Failed(x)
    /\ UNCHANGED <<rateVars, request, around, changes, minted, born, granted>>

\* _reject_native_refresh_token.
AnswerDenied(x) ==
    /\ Goes(x, "acted", "denied", Nothing)
    /\ ~MintedAllowed(x)
    /\ sessions' = Without(minted[x])
    /\ Failed(x)
    /\ UNCHANGED <<rateVars, request, config, people, changes, minted, born, granted>>

\* The connection breaks or times out before or after Home Assistant acted.
AnswerLost(x) ==
    /\ \E from \in {"sent", "acted"} : Answers(x, from)
    /\ IF form[x].kind = "revoke" THEN Failed(x) ELSE UNCHANGED failures
    /\ minted' = [minted EXCEPT ![x] = {}]
    /\ UNCHANGED <<rateVars, request, around, changes, born, granted>>

ProxyNext == \E x \in Exchanges :
                \/ \E f \in Forms : Submit(x, f)
                \/ ReadForm(x) \/ FormBreaks(x)
                \/ HomeAssistantGrants(x) \/ HomeAssistantRefuses(x)
                \/ AnswerGranted(x) \/ AnswerDenied(x) \/ AnswerLost(x)

Next == \/ (ApiNext \/ Outside \/ PassTime) /\ UNCHANGED proxy
        \/ ProxyNext

Spec == Init /\ [][Next]_vars
-------------------------------------------------------------------------------
(* A client that was denied has no session, whoever was struck off the     *)
(* list while Home Assistant made it; and only a session whose exchange    *)
(* was answered with success has lost its expiry, so one whose answer got  *)
(* lost goes away by itself.                                               *)
GrantsAccounted == /\ \A x \in Exchanges : stage[x] = "denied" =>
                         minted[x] \cap DOMAIN sessions = {}
                   /\ \A s \in DOMAIN sessions : sessions[s].lasting => s \in granted

(* Exchanges that overlap have all looked at the limit before any of them  *)
(* failed; the failures within the window exceed it by no more than there  *)
(* are exchanges.                                                          *)
FailuresBounded == \A v \in DOMAIN failures : \A n \in 0..Len(failures[v]) :
    Drops(failures[v], n) => Len(failures[v]) - n < MaxFailures + Cardinality(Exchanges)
================================================================================
