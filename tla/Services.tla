------------------------------ MODULE Services ------------------------------
(***************************************************************************)
(* The services behind the administration API that share no state with one *)
(* another, each as its own module describes it, with the properties that  *)
(* callers, operators and clients rely on stated once for the runs and for *)
(* the proofs.  A renamed parameter keeps apart what two modules call by   *)
(* one name.                                                               *)
(***************************************************************************)
EXTENDS Naturals, FiniteSets

CONSTANTS
    Job, Replica, Handler, Known, MaxActive, MaxJobWrites, MaxExecutions,   \* JobSchedule
    Request, Fingerprint, Response,                                         \* Idempotency
    MaxTries,                                                               \* Mutations
    Id, Code, Tenant, Body, MaxVersions, MaxPolicyWrites,                   \* PolicyLifecycle
    DocumentSize, MaxPublishedRows, MaxPublishedBytes,
    Value, ConfigReader, MaxConfigWrites,                                   \* PlatformConfig
    Person, Organisation, Task, UserStatus, MaxRowVersion,                  \* Directory
    OutCall, MaxAttempts, FailureThreshold,                                 \* Outbound
    Dependency, Caller, Publisher,                                          \* Readiness
    Route, Candidate, ActionScope, Principal, Target, Idempotent, FailOpen, \* RequestGate
    MaxChanges,
    ListRow, DefaultPageSize, MaxPageSize, MaxListRows, MaxListWrites        \* Listing

\* Users and organisations are rows of different tables.
ASSUME DirectoryAssumption == Person \cap Organisation = {}

\* The response that is kept with a key carries an HTTP status.
ASSUME ResponseAssumption == \A response \in Response : response.status \in Nat

\* NewHTTPClient and NewClient refuse a configuration of less than one attempt.
ASSUME AttemptsAssumption == MaxAttempts \in Nat \ {0}

\* The ways a descriptor may ask for a caller to be known: service accounts are asked for by gRPC
\* methods only, and the routes that evaluate capabilities are not the ones that log in.
ASSUME GateAssumption ==
    /\ \A e \in Candidate : /\ e.authentication \in {"public", "jwt", "psk", "service"}
                            /\ e.authentication = "service" => e.route.transport # "http"
    /\ \A r \in Route : r.capability => ~r.login

\* A listing is of finitely many rows with numbers of their own; a page that is asked for without
\* a size has one.
ASSUME ListingAssumption ==
    /\ IsFiniteSet(ListRow) /\ ListRow \subseteq Nat
    /\ DefaultPageSize \in Nat \ {0} /\ MaxPageSize \in Nat /\ MaxListRows \in Nat

VARIABLES
    definition, replica, jobLock, execution,                                \* JobSchedule
    record, request, resultExpired,                                         \* Idempotency
    mutation, effects, kept,                                                \* Mutations
    policyRow, versionRow, tenantActive, review,                            \* PolicyLifecycle
    config, cached, configRead, configSeen,                                 \* PlatformConfig
    entity, owner, entry, task,                                             \* Directory
    client, breaker, outcall,                                               \* Outbound
    alive, probe, asking, serving, shutdown,                                \* Readiness
    served, session, mustChange, granted, policy, rows, call, changes, seen, hint, \* RequestGate
    table, walk, written                                                    \* Listing

Jobs == INSTANCE JobSchedule WITH job <- definition, MaxWrites <- MaxJobWrites

Keys == INSTANCE Idempotency

Handlers == INSTANCE Mutations

Lifecycle == INSTANCE PolicyLifecycle WITH MaxWrites <- MaxPolicyWrites

Configuration == INSTANCE PlatformConfig WITH MaxWrites <- MaxConfigWrites, seen <- configSeen

Profiles == INSTANCE Directory WITH Status <- UserStatus

Upstream == INSTANCE Outbound

Ready == INSTANCE Readiness

Gate == INSTANCE RequestGate WITH Scope <- ActionScope

Pages == INSTANCE Listing WITH Row <- ListRow, MaxRows <- MaxListRows, MaxWrites <- MaxListWrites

-----------------------------------------------------------------------------

\* ScheduleIsSound of JobSchedule: one run per job, and a scheduler that stopped runs nothing.
ScheduleIsSound == Jobs!ScheduleIsSound

\* AnswersAreKept of Idempotency and ChangesAreAnswered of Mutations: an answer of success is
\* real, kept and replayed, and it is given exactly for a committed change, unless its commit is
\* in doubt or the time of the request was up.
RequestsAreAnswered == Keys!AnswersAreKept /\ Handlers!ChangesAreAnswered

\* GateIsSound of RequestGate, OutboundIsSound of Outbound and ReadinessIsEarned of Readiness:
\* handlers run for calls that deserve it and hints match the gate; calls to others are not resent
\* unsafely, leak no body and expose no credential; a replica is ready when it was found so.
CallsAreSound == Gate!GateIsSound /\ Upstream!OutboundIsSound /\ Ready!ReadinessIsEarned

\* ConfigIsSound of PlatformConfig, AnswersAreCurrent of Directory, LifecycleIsSound of
\* PolicyLifecycle and WalksAreComplete of Listing: no read, cached or not, is told what was not so
\* at some moment of it; what was published of the policies loads, as its simulation predicted,
\* unless it is more than a load takes; a walk over the pages of a listing misses no row that was there.
ReadsAreCurrent ==
    /\ Configuration!ConfigIsSound /\ Profiles!AnswersAreCurrent /\ Lifecycle!LifecycleIsSound
    /\ Pages!WalksAreComplete

\* PublishesWhatWasReviewed of PolicyLifecycle: a publication replaces what its manager saw.
PublishesWhatWasReviewed == Lifecycle!PublishesWhatWasReviewed
=============================================================================
