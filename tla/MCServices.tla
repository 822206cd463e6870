----------------------------- MODULE MCServices -----------------------------
(***************************************************************************)
(* The services that requests pass through and the state they share, one   *)
(* component at a time: part, which never changes, says which one an       *)
(* execution is about, and the others stay as they begin.                  *)
(***************************************************************************)
EXTENDS ManualRuns, ServiceAccounts, Transactions, Services, TLC

VARIABLES
    part,
    active, policies               \* PolicyEvaluation

manualAll == <<manualVars, restarts>>
evaluationVars == <<active, policies>>
lifecycleVars == <<policyRow, versionRow, tenantActive, review>>
idempotencyVars == <<record, request, resultExpired>>
mutationVars == <<mutation, effects, kept>>
jobVars == <<definition, replica, jobLock, execution>>
configVars == <<config, cached, configRead, configSeen>>
gateVars == <<served, session, mustChange, granted, policy, rows, call, changes, seen, hint>>
directoryVars == <<entity, owner, entry, task>>
outboundVars == <<client, breaker, outcall>>
readinessVars == <<alive, probe, asking, serving, shutdown>>
listingVars == <<table, walk, written>>

vars == <<part, manualAll, accountsVars, txVars, evaluationVars, lifecycleVars, idempotencyVars,
          mutationVars, jobVars, configVars, gateVars, directoryVars, outboundVars, readinessVars, listingVars>>

-----------------------------------------------------------------------------
(* The components, with their bounds.                                      *)

Samples == INSTANCE PolicySamples

\* The texts of a sample, of which the collation of a MySQL column takes two for the same.
Texts == {"", "a", "b", "A"}
IgnoringCase == [t \in Texts |-> IF t = "A" THEN "a" ELSE t]

Evaluation == INSTANCE PolicyEvaluation WITH
    Policy <- Samples!SamplePolicy, Principal <- Samples!SamplePrincipal, Text <- Texts,
    Folded <- IgnoringCase, MaxPredicateDepth <- 3, MaxPredicateNodes <- 4, MaxPolicies <- 2

\* Two documents are published together, unless both are large.
Sizes == [b1 |-> 1, b2 |-> 2]

Responses == {[status |-> s, code |-> "ok", message |-> TRUE] : s \in {200, 204, 409}}
             \cup {[status |-> s, code |-> "error", message |-> TRUE] : s \in {409, 429}}

\* The older release b lacks the handler y.
Releases == [a |-> {"x", "y"}, b |-> {"x"}]

R(transport, name, kind) ==
    [transport |-> transport, name |-> name, login |-> kind = "login", password |-> kind \in {"login", "password"},
     infrastructure |-> kind = "infrastructure", capability |-> kind = "capability"]

Login == R("http", "login", "login")
ChangePassword == R("http", "password", "password")
Read == R("http", "read", "plain")
Capability == R("http", "capability", "capability")
Rpc == R("grpc", "read", "plain")
Health == R("grpc", "health", "infrastructure")

Routes == {Login, ChangePassword, Read, Capability, Rpc, Health}

Descriptor(route, authentication, action, data, reason, command) ==
    [route |-> route, authentication |-> authentication, action |-> action, data |-> data,
     reason |-> reason, command |-> command]

\* idempotency.http_paths selects a command.
SelectedRoutes == {ChangePassword}

\* Besides good descriptors: one of a service without an action, one whose action no resource has,
\* and one of a query that idempotency.http_paths selects.
Descriptors ==
    {Descriptor(Login, "public", "", "none", FALSE, TRUE),
     Descriptor(ChangePassword, "jwt", "change", "none", TRUE, TRUE),
     Descriptor(ChangePassword, "jwt", "change", "none", TRUE, FALSE),
     Descriptor(Read, "jwt", "read", "required", FALSE, FALSE),
     Descriptor(Read, "jwt", "retired", "required", FALSE, FALSE),
     Descriptor(Rpc, "service", "", "none", FALSE, FALSE),
     Descriptor(Rpc, "service", "rpc", "none", TRUE, FALSE),
     Descriptor(Capability, "jwt", "evaluate", "none", TRUE, FALSE)}

Scopes == [change |-> "principal", read |-> "tenant", evaluate |-> "principal", rpc |-> "platform"]

Principals == {[type |-> "user"], [type |-> "service_account", scheme |-> "bearer"],
               [type |-> "service_account", scheme |-> "psk"]}

-----------------------------------------------------------------------------

Parts == {"manual", "accounts", "transactions", "evaluation", "lifecycle", "idempotency", "mutations",
          "jobs", "config", "gate", "directory", "outbound", "readiness", "listing"}

\* What a component may begin with in several ways is fixed while it is not the part.
Init == /\ part \in Parts
        /\ ManualInit /\ AccountsInit /\ TxInit /\ Evaluation!Init /\ Lifecycle!Init /\ Keys!Init /\ Handlers!Init
        /\ Jobs!Init /\ Configuration!Init /\ Gate!Init /\ Profiles!Init /\ Upstream!Init /\ Ready!Init /\ Pages!Init
        /\ part # "transactions" => dialect = "mysql"
        /\ part # "accounts" => setOrder = "simultaneous"
        /\ part # "gate" => ~mustChange /\ policy = {}
        /\ part # "listing" => table[1].kind = "own"

\* A step is one of the component that the execution is about.
At(p, step, v) == \/ part = p /\ step
                  \/ part # p /\ UNCHANGED v

Next == /\ UNCHANGED part
        /\ At("manual", ManualNext /\ UNCHANGED restarts, manualAll)
        /\ At("accounts", AccountsNext, accountsVars)
        /\ At("transactions", TxNext, txVars)
        /\ At("evaluation", Evaluation!Next, evaluationVars)
        /\ At("lifecycle", Lifecycle!Next, lifecycleVars)
        /\ At("idempotency", Keys!Next, idempotencyVars)
        /\ At("mutations", Handlers!Next, mutationVars)
        /\ At("jobs", Jobs!Next, jobVars)
        /\ At("config", Configuration!Next, configVars)
        /\ At("gate", Gate!Next, gateVars)
        /\ At("directory", Profiles!Next, directoryVars)
        /\ At("outbound", Upstream!Next, outboundVars)
        /\ At("readiness", Ready!Next, readinessVars)
        /\ At("listing", Pages!Next, listingVars)

Spec == Init /\ [][Next]_vars

\* What takes part in a component twice - a worker, a request, a connection, a call - has the
\* same two names in every component, and no component tells the two apart.
Symmetry == Permutations(Task)

-----------------------------------------------------------------------------
\* EvaluationIsSound of PolicyEvaluation: the SQL scope that a policy adds to a query and its
\* evaluation in memory agree on every row that the collation of its column tells apart.
QueriesAreSound == part = "evaluation" => Evaluation!EvaluationIsSound

\* ScopesAgree of PolicyEvaluation: what the SQL and the evaluation of a policy mean is the same, as
\* docs/data-permission-policy-spec.md asks of every operator and of PostgreSQL and MySQL.
ScopesAgree == part = "evaluation" => Evaluation!ScopesAgree
=============================================================================
