---------------------------- MODULE RequestGate ----------------------------
(* What stands between a caller and a handler, on both transports: the      *)
(* descriptors every route is bound to (internal/accesscontrol), rate       *)
(* limiting, authentication, the password gate and operation authorization  *)
(* (internal/transport, internal/authorization/provider.go), and the        *)
(* capability service that tells a frontend in advance what these checks    *)
(* would decide (internal/authorization/capability.go).  Sessions, grants   *)
(* and data policies change between any two of those checks.                *)
EXTENDS Naturals, FiniteSets

CONSTANTS
    Route,           \* the operations the two servers answer
    Candidate,       \* endpoint descriptors a release may declare
    Scope,           \* registered action -> "platform" | "tenant" | "principal"
    Principal,       \* verified principals: a user, a service account, the PSK
    Target,          \* the rows a row capability is asked about
    Idempotent,      \* the routes idempotency.http_paths selects
    FailOpen,        \* rate_limit.fail_open
    MaxChanges       \* bound: changes by other requests

VARIABLES
    served,          \* the endpoint registry of the running server, {} before
    session,         \* "valid" | "revoked": the bearer token's state in the database
    mustChange,      \* the user's must_change_password
    granted,         \* principal -> the actions its live grants reach
    policy,          \* the rows the published data policies permit the user
    rows,            \* the rows that exist in the caller's tenant
    call,            \* what the call in flight has learnt so far
    changes,         \* the changes so far
    seen,            \* ghost: what was true at some moment of this call
    hint             \* the capability answer the caller still holds

vars == <<served, session, mustChange, granted, policy, rows, call, changes, seen, hint>>

NoCall == [stage |-> "idle"]
NoPrincipal == [type |-> "none"]
User == [type |-> "user"]
Account == [type |-> "service_account", scheme |-> "bearer"]
PSK == [type |-> "service_account", scheme |-> "psk"]

Init ==
    /\ served = {} /\ session = "valid" /\ mustChange \in BOOLEAN
    /\ granted = [p \in Principal |-> {}]
    /\ policy \in SUBSET Target /\ rows = Target
    /\ call = NoCall /\ changes = 0 /\ seen = {} /\ hint = NoCall

\* hasPlatformGrant, hasManagedTenantGrant: tenant grants reach members only.
Reach(p) == {a \in DOMAIN Scope : Scope[a] = "platform" \/ (Scope[a] = "tenant" /\ p = User)}

(* ----------------------------- descriptors ----------------------------- *)

\* Registry.Resolve: the pair is registered.
Resolves(action) == action \in DOMAIN Scope

\* A public operation declares no business authorization; every other one an
\* action that resolves and either a data scope or a reason for none.
validateEndpoint(e) ==
    IF e.authentication = "public"
    THEN e.action = "" /\ e.data = "none" /\ ~e.reason
    ELSE Resolves(e.action) /\ (e.data = "none" <=> e.reason)

NewEndpointRegistry(defs) ==
    /\ \A e \in defs : validateEndpoint(e)
    /\ \A e, f \in defs : e.route = f.route => e = f

\* The descriptors and the routes of the running servers match exactly.
ValidateCoverage(defs) == {e.route : e \in defs} = {r \in Route : ~r.infrastructure}

\* A replayed answer may only come from a protected command.
validateHTTPIdempotencyRoutes(defs) ==
    \A e \in defs : e.route \in Idempotent => e.authentication # "public" /\ e.command

Lookup(route) == {e \in served : e.route = route}
Find(action) == {e \in served : e.action = action /\ e.authentication # "public"}

\* NewServer of both transports: the process serves with valid metadata or not at all.
NewServer(defs) ==
    /\ served = {} /\ defs # {}
    /\ NewEndpointRegistry(defs) /\ ValidateCoverage(defs)
    /\ validateHTTPIdempotencyRoutes(defs)
    /\ served' = defs
    /\ UNCHANGED <<session, mustChange, granted, policy, rows, call, changes, seen, hint>>

(* -------------------------------- checks ------------------------------- *)

\* Ghost: adds what holds now to what held since the call arrived.
Facts(k, s, m, g) ==
    CASE k = "user" -> {<<"session", s>>, <<"password", m>>} \cup {<<"grant", a>> : a \in g[User]}
      [] k = "account" -> {<<"grant", a>> : a \in g[Account]}
      [] k = "psk" -> {<<"grant", a>> : a \in g[PSK]}
      [] OTHER -> {}
Witness == seen' = IF call'.stage \in {"idle", "rejected"} THEN {}
                   ELSE seen \cup Facts(call'.credential, session', mustChange', granted')

Moves(changed) ==
    /\ call' = [f \in DOMAIN changed \cup DOMAIN call |->
                    IF f \in DOMAIN changed THEN changed[f] ELSE call[f]]
    /\ UNCHANGED <<served, session, mustChange, granted, policy, rows, changes, hint>>
    /\ Witness
Rejects ==
    /\ call' = [stage |-> "rejected"]
    /\ UNCHANGED <<served, session, mustChange, granted, policy, rows, changes, hint>>
    /\ Witness

\* A request arrives with a credential, or with none.
Arrives(route, credential) ==
    /\ call.stage = "idle" /\ served # {}
    /\ Moves([stage |-> "limit", route |-> route, credential |-> credential,
                 principal |-> NoPrincipal, scheme |-> "", must |-> FALSE, limited |-> FALSE])

\* RateLimit on address and route: an unreachable limiter lets through what
\* rate_limit.fail_open says.
rateLimit ==
    /\ call.stage = "limit"
    /\ \E verdict \in {"allowed", "denied", "unavailable"} :
         IF verdict = "allowed" \/ (verdict = "unavailable" /\ FailOpen)
         THEN Moves([stage |-> "authenticate"])
         ELSE Rejects

\* DatabaseAuthentication and authenticateGRPCOptional: no credential is an
\* anonymous call, a credential that does not verify ends the call.
Authenticates(principal, scheme) ==
    Moves([stage |-> "gate", principal |-> principal, scheme |-> scheme,
              must |-> principal = User /\ mustChange])
DatabaseAuthentication ==
    /\ call.stage = "authenticate"
    /\ \/ call.credential = "none" /\ Authenticates(NoPrincipal, "")
       \/ call.credential = "user" /\ session = "valid" /\ Authenticates(User, "bearer")
       \/ call.credential = "account" /\ Authenticates(Account, "bearer")
       \/ call.credential = "psk" /\ Authenticates(PSK, "psk")
       \/ call.credential # "none" /\ Rejects

\* The gRPC interceptor makes the same decision where it authenticates.
\* PasswordChangeGate: while the password must be changed only the routes that
\* end the session, renew it or change the password are answered.
PasswordChangeGate ==
    /\ call.stage = "gate"
    /\ IF call.must /\ ~call.route.password /\ ~call.route.infrastructure
       THEN Rejects ELSE Moves([stage |-> "authorize"])

Grants(p) == IF p = NoPrincipal THEN {} ELSE granted[p]

\* Authorizer.Authorize: principal-scoped actions are left to the owning service.
Authorize(grants, p, action) ==
    /\ Resolves(action) /\ p # NoPrincipal
    /\ Scope[action] = "principal" \/ action \in grants

\* Enforcer.Authorize for the descriptor of the route.
Enforce_AnyScheme(grants, p, scheme, e) ==
    \/ e.authentication = "public"
    \/ p # NoPrincipal /\ Authorize(grants, p, e.action)
Enforce(grants, p, scheme, e) ==
    \/ e.authentication = "public"
    \/ /\ p # NoPrincipal
       /\ e.authentication = "jwt" => scheme = "bearer"
       /\ e.authentication = "psk" => scheme = "psk"
       /\ e.authentication = "service" => p.type = "service_account"
       /\ Authorize(grants, p, e.action)

\* operationAuthorization and enforceGRPCOperation; health and reflection have
\* no descriptor and are answered without one.  A database that does not answer
\* denies.
operationAuthorization ==
    /\ call.stage = "authorize"
    /\ \/ /\ \/ call.route.infrastructure
             \/ \E e \in Lookup(call.route) : Enforce(Grants(call.principal), call.principal, call.scheme, e)
          /\ Moves([stage |-> CASE call.route.capability -> "pin"
                                   [] call.route.login -> "login"
                                   [] OTHER -> "handled"])
       \/ ~call.route.infrastructure /\ Rejects

\* LoginRateLimit, the first handler of a login route: never fails open.
LoginRateLimit ==
    /\ call.stage = "login"
    /\ Moves([stage |-> "handled", limited |-> TRUE]) \/ Rejects

\* The context of a request ends: what is not decided yet is refused.
ContextEnds == call.stage \notin {"idle", "handled", "answered", "rejected"} /\ Rejects

Leaves ==
    /\ call.stage \in {"handled", "answered", "rejected"}
    /\ call' = NoCall
    /\ hint' = IF call.stage = "answered"
               THEN [f \in {"principal", "revision", "items", "present", "rowItems"} |-> call[f]]
               ELSE hint
    /\ UNCHANGED <<served, session, mustChange, granted, policy, rows, changes>> /\ Witness

(* ----------------------------- capabilities ---------------------------- *)

\* PolicyRevisions.ForRequest: one read-only transaction reads the grants, then
\* the local policy snapshot is pinned; the revision digests both.
ForRequest ==
    /\ call.stage = "pin"
    /\ Moves([stage |-> "evaluate", grants |-> granted[call.principal], pinned |-> policy, items |-> <<>>,
                 revision |-> <<granted[call.principal], policy>>])

\* evaluateOperation: allowed when some HTTP operation of the action that takes
\* a bearer token would let this principal in.
BearerRoutes(a) == {e \in Find(a) : e.route.transport = "http" /\ e.authentication = "jwt"}
evaluateOperation(action) ==
    \E e \in BearerRoutes(action) : Authorize(call.grants, call.principal, e.action)

\* CapabilityService.Evaluate refuses a request that names an action no bearer
\* route serves; EvaluateNavigation answers that a retired one is denied.
Evaluate(actions, navigation) ==
    /\ call.stage = "evaluate"
    /\ IF navigation \/ \A a \in actions : Resolves(a) /\ BearerRoutes(a) # {}
       THEN Moves([stage |-> "rows", items |-> [a \in actions |-> Resolves(a) /\ evaluateOperation(a)]])
       ELSE Rejects

\* EvaluateRows: the rows that exist in the tenant now, under the pinned policy.
EvaluateRows_Current ==
    /\ call.stage = "rows"
    /\ Moves([stage |-> "answered", present |-> rows, rowItems |-> rows \cap policy])
EvaluateRows ==
    /\ call.stage = "rows"
    /\ Moves([stage |-> "answered", present |-> rows, rowItems |-> rows \cap call.pinned])

(* ----------------------------- environment ----------------------------- *)

Elsewhere == /\ served # {} /\ changes < MaxChanges /\ changes' = changes + 1
             /\ UNCHANGED <<served, call, hint>> /\ Witness
Revoked == /\ session = "valid" /\ session' = "revoked"
           /\ UNCHANGED <<mustChange, granted, policy, rows>> /\ Elsewhere
PasswordReset == /\ mustChange' = ~mustChange
                 /\ UNCHANGED <<session, granted, policy, rows>> /\ Elsewhere
GrantsChange(p, g) == /\ granted[p] # g /\ granted' = [granted EXCEPT ![p] = g]
                      /\ UNCHANGED <<session, mustChange, policy, rows>> /\ Elsewhere
PolicyRefreshed(t) == /\ policy # t /\ policy' = t
                      /\ UNCHANGED <<session, mustChange, granted, rows>> /\ Elsewhere
RowsChange(t) == /\ rows # t /\ rows' = t
                 /\ UNCHANGED <<session, mustChange, granted, policy>> /\ Elsewhere

Asked == {e.action : e \in Candidate} \ {""}

Next ==
    \/ \E defs \in SUBSET Candidate : NewServer(defs)
    \/ \E route \in Route, k \in {"none", "user", "account", "psk", "bad"} : Arrives(route, k)
    \/ rateLimit \/ DatabaseAuthentication \/ PasswordChangeGate
    \/ operationAuthorization \/ LoginRateLimit \/ ContextEnds \/ Leaves
    \/ ForRequest \/ EvaluateRows
    \/ \E actions \in {Asked, {a \in Asked : BearerRoutes(a) # {}}}, navigation \in BOOLEAN :
          Evaluate(actions, navigation)
    \/ Revoked \/ PasswordReset
    \/ \E p \in Principal : GrantsChange(p, {}) \/ GrantsChange(p, Reach(p))
    \/ \E t \in SUBSET Target : PolicyRefreshed(t) \/ RowsChange(t)

Spec == Init /\ [][Next]_vars

(* ------------------------------ properties ----------------------------- *)

\* A handler runs only for a call that deserved it at some moment since it
\* arrived: a protected operation for a credential of the kind its descriptor
\* names whose session was valid and whose principal held the grant, a user
\* bound to change the password only on the routes that allow it, and a login
\* only after the limiter counted it, whatever changed between the checks and
\* whichever of them failed.
HandlersAreGuarded ==
    call.stage \in {"handled", "pin", "evaluate", "rows", "answered"} =>
        LET k == call.credential
            p == call.principal
            e == CHOOSE d \in served : d.route = call.route IN
        /\ k # "bad"
        /\ k = "user" => <<"session", "valid">> \in seen
        /\ call.route.login => call.limited
        /\ k = "user" /\ ~call.route.password /\ ~call.route.infrastructure =>
              <<"password", FALSE>> \in seen
        /\ ~call.route.infrastructure /\ e.authentication # "public" =>
              /\ p # NoPrincipal
              /\ e.authentication = "jwt" => k \in {"user", "account"}
              /\ e.authentication = "service" => k \in {"account", "psk"}
              /\ Scope[e.action] = "principal" \/ <<"grant", e.action>> \in seen

\* What the capability service answers is what the gate would decide: as long
\* as the caller's grants are the ones it pinned, an action is offered exactly
\* when a bearer call of that principal to one of its HTTP routes passes; and
\* two answers with one revision offer the same actions, and the same rows of
\* those that both found, though policies were refreshed in between.
HintsMatchTheGate ==
    /\ call.stage = "answered" /\ Grants(call.principal) = call.grants =>
         \A a \in DOMAIN call.items :
            call.items[a] <=> \E e \in served : /\ e.action = a /\ e.authentication # "public"
                                                /\ e.route.transport = "http"
                                                /\ Enforce(call.grants, call.principal, "bearer", e)
    /\ call.stage = "answered" /\ hint # NoCall /\ hint.principal = call.principal
       /\ hint.revision = call.revision =>
         /\ \A a \in DOMAIN call.items \cap DOMAIN hint.items : call.items[a] = hint.items[a]
         /\ call.rowItems \cap hint.present = hint.rowItems \cap call.present

GateIsSound == HandlersAreGuarded /\ HintsMatchTheGate
=============================================================================
