-------------------------------- MODULE Access --------------------------------
(***************************************************************************)
(* auth.py BridgeAuthorizer and the two kinds of views that use it.  A     *)
(* request waits for its body and then for Home Assistant; between two of  *)
(* its awaits the configuration may be saved anew, a user deactivated, and *)
(* a session revoked.  A public view looks at the identity before the body *)
(* and at everything after it; a direct view looks at everything before    *)
(* the body and at nothing after it.                                       *)
(***************************************************************************)
EXTENDS RateLimit, FiniteSets, Permissions

CONSTANTS Requests,     \* the HTTP requests
          Users, People,          \* users, and the states they may be in
          SessionIds,             \* refresh tokens
          Before,                 \* the sessions there are in the beginning
          Configs,                \* the runtime configurations
          Operations,             \* the catalog: capability and mode
          Direct,                 \* the operations that have a view of their own
          MaxChanges              \* bound on the environment, for TLC only

VARIABLES config,       \* the configuration all holders share
          people,       \* the users of Home Assistant
          sessions,     \* the refresh tokens that exist: user, client, lasting
          at,           \* idle, body (awaits it) or working
          asked,        \* what the client sent
          entitled,     \* history: was everything in order at one moment so far
          changes

request == <<at, asked, entitled>>
around == <<config, people, sessions>>

Kinds == {"read", "prepare", "apply"}
ASSUME BucketsAssumption == Buckets = SessionIds \X Kinds

\* A dispatch names a mode besides its operation, and may name any.
Asks == [route : {"dispatch"}, session : SessionIds, mode : {"read", "prepare", "x"},
         op : Operations]
          \cup [route : {"apply"}, session : SessionIds, mode : {"apply"},
                op : {op \in Operations : op.mode = "apply"}]
          \cup [route : {"direct"}, session : SessionIds, mode : {"x"}, op : Direct]
Nothing == [route |-> "none"]

Person == [active : BOOLEAN, rank : 0..2]       \* user, administrator, owner
Config == [enabled : BOOLEAN, users : SUBSET Users, demands : 0..2,
           caps : SUBSET RoleCapabilities, lockdown : BOOLEAN, client : {"gpt"},
           lasting : BOOLEAN, secret : Nat]
Session == [user : Users, client : {"gpt", "other"}, lasting : BOOLEAN]

ASSUME AccessAssumption == /\ People \subseteq Person /\ Configs \subseteq Config
                           /\ Direct \subseteq Operations /\ MaxChanges \in Nat
                           /\ DOMAIN Before \subseteq SessionIds
                           /\ Before \in [DOMAIN Before -> Session]
                           /\ \A op \in Operations : op.mode \in Kinds

AccessInit ==
    /\ RateInit
    /\ config \in Configs
    /\ people \in [Users -> People]
    /\ sessions = Before
    /\ at = [r \in Requests |-> "idle"]
    /\ asked = [r \in Requests |-> Nothing]
    /\ entitled = [r \in Requests |-> FALSE]
    /\ changes = 0
-------------------------------------------------------------------------------
\* Active, on the allowlist (an empty one lists everybody), owner or administrator
\* where that is required.
Welcome(u) == /\ people[u].active
              /\ config.users = {} \/ u \in config.users
              /\ people[u].rank >= config.demands

Known(q) == config.enabled /\ Welcome(q.user)

Capability(q) == CASE q.route = "dispatch" -> Status
                   [] q.route = "apply"    -> Apply
                   [] q.route = "direct"   -> q.op.cap

Mutating(q) == CASE q.route = "dispatch" -> q.mode = "prepare"
                 [] q.route = "apply"    -> TRUE
                 [] q.route = "direct"   -> q.op.mode # "read"

\* Mutant of Passes: who is asking is left to authorize_prebody.
PassesOnceKnown(q) == config.enabled /\ Permits(config, Capability(q), Mutating(q))

\* authorize up to the rate limit.
Passes(q) == Known(q) /\ Permits(config, Capability(q), Mutating(q))

Bucket(q) == <<q.session, CASE Capability(q) = Apply -> "apply"
                            [] Capability(q) # Apply /\ Mutating(q) -> "prepare"
                            [] OTHER -> "read">>

\* authorize after the rate limit, which has counted the call already.
Bound(q) == /\ q.session \in DOMAIN sessions
            /\ sessions[q.session].client = config.client

Catalogued(q) == q.mode = q.op.mode

\* The engine: the catalog and the policy of the operation itself.  A direct view
\* calls its method as it is.
Resolves(q) == \/ q.route = "direct"
               \/ Catalogued(q) /\ Permits(config, q.op.cap, Mutating(q))

\* Everything that is asked of a request, at one moment.
InOrder(q) == /\ Known(q)
              /\ Permits(config, Capability(q), q.op.mode # "read")
              /\ Permits(config, q.op.cap, q.op.mode # "read")
              /\ Bound(q)
-------------------------------------------------------------------------------
\* Home Assistant itself lets a request in only with a session of an active user,
\* and notes who that is.
LetIn(q) == q.session \in DOMAIN sessions /\ people[sessions[q.session].user].active
Noted(q) == [route |-> q.route, session |-> q.session, mode |-> q.mode, op |-> q.op,
             user |-> sessions[q.session].user]

Becomes(r, place, q, e) == /\ at' = [at EXCEPT ![r] = place]
                           /\ asked' = [asked EXCEPT ![r] = q]
                           /\ entitled' = [entitled EXCEPT ![r] = e]
                           /\ UNCHANGED <<around, changes>>
Ends(r) == Becomes(r, "idle", Nothing, FALSE)

\* The view of a public route: authorize_prebody.  (A refusal changes nothing.)
Arrive(r, q) == /\ at[r] = "idle" /\ q.route # "direct" /\ LetIn(q)
                /\ Known(Noted(q))
                /\ Becomes(r, "body", Noted(q), InOrder(Noted(q)))
                /\ UNCHANGED rateVars

ArriveDirect(r, q) ==
    /\ at[r] = "idle" /\ q.route = "direct" /\ LetIn(q)
    /\ Passes(Noted(q))
    /\ \/ Refuse(Bucket(q)) /\ Ends(r)
       \/ Admit(Bucket(q)) /\ ~Bound(q) /\ Ends(r)
       \/ /\ Admit(Bucket(q)) /\ Bound(q)
          /\ Becomes(r, "body", Noted(q), InOrder(Noted(q)))

ReadBody(r) ==
    LET q == asked[r]
    IN  /\ at[r] = "body" /\ q.route # "direct"
        /\ Passes(q)
        /\ \/ Refuse(Bucket(q)) /\ Ends(r)
           \/ Admit(Bucket(q)) /\ ~(Bound(q) /\ Resolves(q)) /\ Ends(r)
           \/ /\ Admit(Bucket(q)) /\ Bound(q) /\ Resolves(q)
              /\ Becomes(r, "working", q, entitled[r])

ReadBodyDirect(r) == /\ at[r] = "body" /\ asked[r].route = "direct"
                     /\ Becomes(r, "working", asked[r], entitled[r])
                     /\ UNCHANGED rateVars

\* A body that is too long or no JSON object, a refusal before the rate limit, or
\* the end of the operation.
Leave(r) == at[r] # "idle" /\ Ends(r) /\ UNCHANGED rateVars

ApiNext == \E r \in Requests :
              \/ \E q \in Asks : Arrive(r, q) \/ ArriveDirect(r, q)
              \/ ReadBody(r) \/ ReadBodyDirect(r) \/ Leave(r)
-------------------------------------------------------------------------------
\* Somebody else acts; requests under way may get into order by it.
Changes == /\ changes < MaxChanges
           /\ changes' = changes + 1
           /\ UNCHANGED <<rateVars, at, asked>>
           /\ entitled' = [r \in Requests |->
                 entitled[r] \/ (at[r] # "idle" /\ InOrder(asked[r])')]

Reconfigure == /\ config' \in Configs \ {config}
               /\ UNCHANGED <<people, sessions>>
               /\ Changes

ChangeUser(u) == /\ \E p \in People \ {people[u]} : people' = [people EXCEPT ![u] = p]
                 /\ UNCHANGED <<config, sessions>>
                 /\ Changes

RemoveSession(s) == /\ s \in DOMAIN sessions
                    /\ sessions' = [t \in DOMAIN sessions \ {s} |-> sessions[t]]
                    /\ UNCHANGED <<config, people>>
                    /\ Changes

PassTime == /\ Pass
            /\ UNCHANGED <<request, around, changes>>

Outside == \/ Reconfigure
           \/ \E u \in Users : ChangeUser(u)
           \/ \E s \in SessionIds : RemoveSession(s)
-------------------------------------------------------------------------------
(* No request runs on a patchwork of checks: each that reached its         *)
(* operation was, at one moment since it arrived, wholly in order, with an *)
(* active and welcome user, a live session of the GPT's client, and a      *)
(* configuration that permits both the view and the operation.             *)
EntitledOnce == \A r \in Requests : at[r] = "working" => entitled[r]
================================================================================
