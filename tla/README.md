# TLA+ models of go-api-template

This directory holds TLA+ specifications of the parts of `go-api-template` whose
correctness depends on the order of events: transactions of several replicas, leases that
run out, caches and snapshots that are stale, brokers and object stores that answer late or
not at all, processes that die between two steps. The modules are checked with TLC on small
instances. Nearly all of the safety properties are also proved with TLAPS, for any number of rows,
replicas, workers, callers and rows: of all modules but `PolicyEvaluation`.

Contents: 1 the system and its parts, 2 the modules and how they correspond to the code,
3 the runs, 4 fairness, 5 the proofs, 6 what the checks found, 7 what is not modelled, 8
the plan.

## 1. The system

A multi-tenant administration back end: Gin and gRPC servers wired with Fx, MySQL or
PostgreSQL through sqlx, Redis for locks, caches, hints and idempotency keys, NATS JetStream
for events, an object store for files. All replicas are equal; every one serves requests and
runs the background workers. The database is the only authority.

| part | state | operations | module |
|---|---|---|---|
| event outbox (`eventbus/outbox.go`) | `event_outbox` rows; the record a dispatcher holds | Store, claim, publish, markPublished, release | EventOutbox, EventContract |
| outbox repair (`eventbus/repair.go`) | dead rows, their version | Dead, Replay, ReplaceAndReplay | EventOutbox |
| data lifecycle (`datalifecycle`) | retention and partitions | cleanupOutbox\*, cleanupRefreshHistory\*, partitions | EventOutbox, Sessions |
| operation and security logs | log rows | Record, RecordTx, Do, consume | AuditLog |
| files (`files`) | `files`, `file_upload_intents`, objects, upload lock | Upload, Delete, ProcessPendingUploads, ProcessPendingDeletions | FileStore |
| scheduler: manual runs | `scheduled_job_runs`, leases, job lock | Trigger, consumeManual, claimManual, executeManual, renewManual, finishManual | ManualRuns |
| scheduler: definitions | `scheduled_jobs`, cron entries in memory, job locks | Create, Update, SetStatus, Delete, Notify, Refresh, Start, Stop | JobSchedule |
| policy sync (`policysync`) | in-memory snapshot, last revision | Changed, Run, poll, refresh | PolicySync |
| data permission (`datapermission`) | policies, versions, compiled snapshot | Create, CreateDraft, Publish, SetStatus, SimulateVersion, CompileSQL, EvaluateTransition | PolicyLifecycle, PolicyEvaluation |
| authentication, identity | users, credentials, sessions, rotated token history | Login, recordFailure, Refresh, Logout, RevokeSession, SetPassword, ChangePassword, update, Delete | Sessions |
| users and tenants as read | rows, cached profiles | Create, Get, Update, Delete, cache fill and invalidation | Directory |
| tenants, members, roles (`tenant`, `authorization`) | tenant, memberships, administrators, grants, roles and links | Create, Add, Remove, CreateRole, UpdateRole, DeleteRole, SetRolePermissions, SetMemberRoles, deleteTenant | TenantAccess |
| departments | tree, assignments, tree lease | Create, Update (moves), Delete, SetMembers | Departments |
| permission tree, resource catalog, platform grants | nodes, links, catalog rows, recorded build | Sync, seed, link, move, delete, grant | PermissionCatalog |
| dictionaries | definition, items, cached query | CreateItem, UpdateItem, DeleteItem, Query | Dictionary |
| applications, navigation | applications, grants, session context, navigation tree, cached source | Create, Update, Delete, Grant, Revoke, SwitchContext, CurrentTree | Applications |
| platform configuration | versioned entries, cached public view | Create, Update, Delete, public read | PlatformConfig |
| service accounts, access tokens | account, secret generation, failures, tokens | Authenticate, RotateSecret, Update, Delete, Issue, Parse | ServiceAccounts |
| idempotency | the record of a key, its lease | Begin, Renew, Complete, Fail, Abort | Idempotency |
| handlers and service transactions | one request, its audit records, its kept answer | every mutating handler | Mutations |
| transport, operation authorization, capabilities | endpoint registry, a call and what it has learnt | bind, rate limit, authenticate, password gate, Enforce, Evaluate | RequestGate |
| transactions (`database`) | connections, the session's audit actor | Within | Transactions |
| listings (`pagination`) | rows, a client's walk | Normalize, every paged query | Listing |
| outbound, gRPC client | client, breaker, attempts, bodies | Do, Invoke, close | Outbound |
| health | shared probes, published status | Check, publish, shutdown | Readiness |
| application lifecycle | resources, hooks, workers | New, Start, Stop, runWorker, consume | Runtime |
| configuration, migration, logging, scaffolding | start-up only | validate, migrate, generate | none, see section 7 |

What is hard in this code, and where:

* a lease or a lock runs out while its holder goes on: outbox claims, manual runs, upload
  locks, job locks, the department tree, idempotency keys;
* two systems and no common transaction: database and broker (outbox), database and object
  store (files), database and Redis (keys, caches), database and process memory (policy
  snapshot, cron entries);
* an answer is lost although the effect took place: publish, `COMMIT`, `storage.Put`, a call
  to another service;
* messages come twice, late or never: dispatch events, log events, hints, notifications;
* a decision is taken on rows read before the transaction that acts on it: login, role
  changes, the parents of a dictionary item, secret verification, authorization;
* what is written last is not what was read last: cache fills by slow readers;
* builds of different age run side by side: catalog synchronisation, cron handlers;
* several statements of one transaction at the default isolation, with others' commits in
  between: the deletion of a tenant updates thirteen tables one after the other;
* a limit that one operation enforces and another does not: published policies, navigation
  nodes, bytes of a dictionary;
* the two dialects disagree: the order in which `SET` is evaluated, the collation of text
  columns, what a transaction's reads see;
* state that outlives its transaction: a MySQL session's audit actor;
* something must happen in the end although replicas die at any time, and a process must
  stop although a worker hangs, closing nothing that is in use.

`PROJECT.json` lists these hazards one by one, with the line where each bites and the
properties that would catch it.

## 2. The modules

A database transaction is one step where its isolation and its row locks make it one, and
several steps where they do not; so is a call to an external system, and each of them may be
the last thing its process does. Time is not counted: "the lease is over", "the backoff is
over" and "the acknowledgement timed out" are steps that may happen whenever the
corresponding value is set. Rows carry the columns that guards read and nothing else.
Definitions are named after the function they model where there is one. A definition with
the suffix `_Something` that is preceded by the comment "Mutant" is a deliberately wrong
variant of the definition that follows it: it is not used by the specification, and shows
that a property can fail. A property that is a conjunction has one such variant per part;
`PROJECT.json` names one of them, the others can be tried by hand in the same way.

**EventOutbox** models `event_outbox` together with everything that writes it. `row` is the
table, `worker` the record each dispatcher holds in memory (its `attempts` and its bytes
are copies made by `claim`, and can be stale), `view` what each operator listed, `stream`
and `window` the broker. `claim` picks the oldest due row that is not locked by a concurrent
claim (`SKIP LOCKED` is the parameter `skip`). `PublishAcked` and `PublishFailed` are the
two results of a publish; a failed one may have stored the message. `updateClaim` is the one
guarded `UPDATE` behind `markPublished` and both releases. `Abandon` is a persistence error
or a recovered panic, `Crash` a restart with a new `workerID`. `Dead`, `Replay` and
`ReplaceAndReplay` are the repair service; `cleanupOutbox` is retention. The version column
is a counter that every update increments, and only equality with the listed value is ever
asked, so an update makes the listings of its row as good as none (`Outdated`).
`StoredByOlderRelease` supplies
the rows that exist although `Store` would reject them. `MCEventOutbox` adds the symmetry of
dispatchers and operators.

**EventContract** is what a caller of `Outbox.Store` may rely on: a committed event is
pending; it is settled only after the stream has it, parked for repair only while the
stream has none of it, and the stream never has two contents for it. `EventOutbox`
implements it under the mapping at the end of that module.

**AuditLog** extends `EventContract`, so it sees the outbox only through its promise. It
adds the two ways to record an operation (`RecordTx` in the transaction of the domain
write; `Do` and `Record` after it), the stream with duplicates and redelivery, and the
consumers of `operationlog` and `securitylog`, whose handlers have the same shape: validate,
insert with `ON CONFLICT DO NOTHING`, acknowledge. Which of the two ways an operation uses
is chosen in the initial state.

**FileStore** models upload and deletion. A file is an intent, an object and a row, written
by three different systems' calls. `repair` is `processUploadIntent` step by step (read the
intent under the lock, count file rows, remove the object, resolve the intent), run by the
workers and by the failed request itself; `purge` is `processDeletion`. Put and Delete may
fail with or without effect. `fault`, chosen in the initial state, says whether Redis may
lose the lock of a running holder and whether a `COMMIT` whose client gave up may still land.

**ManualRuns** models manually triggered jobs, from the transaction that queues a run to the
one that writes its final status: redelivered dispatch events, claims that alternate between
queued and expired runs (`preferExpired`), the job's lock shared with cron, renewal, loss of
lease and of lock, shutdown. All runs belong to one job, the worst case for the lock.
`latest` is a history field: no later claim of the same run exists.

**PolicySync** models the snapshot of published policies that every replica decides by.
A revision number stands for the set of committed policies. `refreshWithPolicy` is two steps
under the mutex, `Load` (one repeatable-read view) and `Install` or `RefreshFails`; the poll
reads the revision before it takes the mutex (`ReadRevision`, `Compare`). `Broken` revisions
contain a policy the release cannot compile, so every refresh to them fails and the replica
decides nothing. `ChangeElsewhere` is a change by a replica outside the model. The revision
string of the code is `max(updated_at)`, a row count and a sum of versions; that it differs
for different committed policies (every mutation increments a version) is taken as given.

**Sessions** models the sign-in of one user; predicates on `user_id` keep users apart. A
login is three steps, as in the code: `ResolveUser` and `VerifyPassword` read, `CommitLogin`
or `recordFailure` writes, and anything may commit in between. `login[a].fresh` says whether
the credential's version is still the one the login read, which is all that Login's `UPDATE`
asks. Refresh tokens and password hashes are random, so both are named by their rank.
`Refresh`, `Logout` and password changes hold row locks from their first read to their
commit and are one step. A change of status or a deletion is two statements: sessions are
revoked first (`BeginChange`; the rows it touched stay locked, and `Unlocked` makes other
writers wait), the user row is written second (`CommitChange`), and a login may insert a
session in between. Bearer validation (`ActiveUserSession`) authenticates a request once;
the operation runs at any later time. `replayed` is a history variable for one property.
`recordFailure` locks by a `CASE` in the `SET` that increments `failed_attempts`; `LeftToRight`
says that the database evaluates the assignments one after the other, as MySQL does, and then
`ReachesLimit` sees the incremented count: the lock comes one failure early.
`MCSessions` adds the symmetry of sessions and login requests.

**TenantAccess** models who may do what in one tenant: tenant, members, administrators, the
ceiling of platform grants, roles and their links. Serializable transactions are one step.
`CheckRole` and `UpdateRole` or `DeleteRole`, `AddFinds` and `Add`, and the statements of
`deleteTenant` are separate steps, because the code runs them in weaker transactions; only
row versions and row locks protect them. Each `deleteTenantRows` is one of its `UPDATE`s: `sweep`
holds the rows found so far (they stay locked: `UnlockedRole`, `UnlockedMember`), and what other
transactions write to a table after its `UPDATE` survives the commit in `deleteTenant`. So links
of deleted roles and members do remain when their tenant goes; `LinksAreLive` speaks of tenants
that are there, and `WithinCeiling` has a deleted tenant left without any grant, hence nothing
that could authorize. A permission node that such a leftover refers to cannot be deleted
any more (`permissionReferenced` asks for the link only). Redis leases are taken to protect nothing.

**Departments** is the tree of a tenant. Creation and deletion check, then write; the lease
`department:tree` keeps structural changes apart until `LoseLease`. `removal` is a `deleteTenant`
between its `UPDATE`s of assignments, memberships and departments, which takes no lease: an
assignment or a department written in between survives, so `AssignmentsAreSound` and the part of
`DepartmentsAreForest` about parents speak of tenants that are there. `WithinLimit` is
`maxDepartmentNodes`, beyond which moves (and `Tree`) fail while creations do not.

**PermissionCatalog** has the catalog rows that `Sync` reconciles with the definitions of
whichever build starts, the permission tree above them, seeding, and platform grants.

**Dictionary** has one dictionary, its items and a query with its cache. `SnapshotReads`
distinguishes MySQL (the plain reads of a transaction are of its first read) from PostgreSQL
(each statement reads anew); `mover` is an `UpdateItem` between its first read and the lock
of the definition. `TooLarge` is the budget of bytes of one answer: a tree beyond it is refused
whole, and no write of an item counts bytes.

**Applications** has applications, a tenant's grants with their windows, the context of a
session, and the navigation of one application with the cache in front of it. `validateTree`
counts the nodes that are there and not the candidate, so `CreateNav` reaches `MaxNavNodes + 1`;
from then on `Tree`, `CurrentTree` and every write but a deletion fail until a node is deleted,
and `NavigationIsServed` says just that. `deleting` is a `deleteTenant` between its `UPDATE`s of
contexts and grants: a grant written after the second survives its tenant and keeps its
application from being deleted for good, since `Delete` counts grants whatever their tenant is. The key of the
cache is a revision computed from version sums and counts, as in the code.

**PolicyLifecycle** has the rows of policies and their versions, with a manager who reads,
simulates and publishes in three steps. `Snapshot` is what a load returns: all published documents,
or nothing if one of them is not `Accepted` or all together are `TooLarge` (`maxPublishedPolicyRows`,
`maxPublishedPolicyDocumentBytes`), which neither `Create` nor `Publish` looks at; `SnapshotLoads`
says that the limits are the only reason for which a load of what is published fails.
**PolicyEvaluation** has the conditions of a policy as trees, the SQL scope (with the three values
of SQL), the evaluation in memory and the limits of the parser. `compileEqual` and `compileIn`
compare under the collation of the column (`Alike`), the evaluation compares exactly: the two agree
on every row that the collation does not confuse with a text of the condition
(`ScopesAgreeApart`), hence always where `Folded` is the identity, as on PostgreSQL, and not always
otherwise (`ScopesAgree`, section 6). **PolicySamples** enumerates the policies it is checked on.

**JobSchedule** has the definitions, the replicas' refresh loops and cron entries, the job
lock and running handlers. Replicas know different handlers, as in a rolling deployment.

**Sessions**' neighbours: **Directory** has users and tenants as rows and as cached profiles,
with requests that read version and cache in the code's order and write late; **ServiceAccounts**
has an account, authentications in two steps, and the claims that are issued, parsed and
compared with the row; `setOrder`, chosen in the initial state, is the order in which the `SET` of
`recordFailure` is evaluated (`FailedSeen`): on MySQL an account is locked after
`MaxFailed - 1` failures, and `LockIsEarned` states the bound of either dialect.

**Idempotency** is one key, its record in Redis and the middleware around a handler whose
lease may be lost and whose transaction may commit nevertheless. **Mutations** is one such
request seen from the handler: the table of handlers and services (which errors each one
knows, whether it takes a lease, which log it writes), the transaction with its doubtful
commit, the record of a failure, the status that is answered and what the middleware keeps.

**RequestGate** is the path of a call on either transport: the registry built from endpoint
descriptors (coverage and contradictions refuse the start), rate limit, authentication,
password gate, operation authorization, and the capability service. Sessions, grants and data
policies change between any two checks; `seen` remembers what was true during a call.
`Idempotent` is the set of routes under the idempotency middleware: it contains the password route
in the run, so a registry that also declares that route as a query is refused
(`validateHTTPIdempotencyRoutes`). `FailOpen = TRUE` is the larger of the two systems, in which
the rate limiter may also admit what it could not count; `FALSE` only takes behaviours away.
`CredentialsAreProtected` in **Outbound** repeats the guards of the two constructors, for the
clients that are in use.

**PlatformConfig** is a versioned entry and its anonymous two-step read. **Listing** is a client
that walks the pages of one of the paged queries (their row sets, orders and tie breakers)
while rows are written. **Transactions** is `Transactor.Within` over a pool: setting the audit
actor, running the function, clearing, commit, rollback and the fate of the connection.
**Outbound** has the HTTP and gRPC clients with their attempts, breaker and response bodies.
**Readiness** has shared probes with deadlines and the published status. **Runtime** has the
start and stop hooks in Fx's order, cancelled and joined workers, and the stop budget.

**AccessControl**, **Trees**, **Background** and **Services** put components side by side, each
as an instance with its own variables, and state once, for the runs and for the proofs, what each
group of them promises (`CatalogIsSound`, `TreesAreSound`, `ClosedAfterUse`,
`RequestsAreAnswered`, `CallsAreSound`, `ScheduleIsSound`, `ReadsAreCurrent`). The assumptions on
the constants of these groups stand there too.

**MCAdministration**, **MCServices** and **MCBackground** give them their bounds. Each has a
variable `part` that never changes and says which component an execution is about: the state
space is the sum of the components' own, not their product, since the components meet only
through what each module already contains of the others. `MCServices` names workers,
requests and connections alike in all components, so that one `Symmetry` exchanges them in each.
**MCEventOutbox** and **MCSessions** add symmetry, **MCDictionary** the sizes of items.

The proofs are in eight modules (section 5): **EventOutboxProofs**; **UserProofs** for `Sessions`
and `FileStore`; **BackgroundProofs** for `AuditLog`, `PolicySync` and `Runtime`;
**SchedulerProofs** for `ManualRuns` and `JobSchedule`; **AccessControlProofs** for `TenantAccess`
and `PermissionCatalog`; **TreesProofs** for `Departments`, `Dictionary` and `Applications`;
**ServicesProofs** for `Transactions`, `ServiceAccounts`, `PlatformConfig`, `Directory`,
`PolicyLifecycle` and `Listing`; **RequestsProofs** for `Idempotency`, `Mutations`, `Outbound`, `Readiness` and
`RequestGate`.

## 3. The runs

| run | configuration | instance | shows |
|---|---|---|---|
| outbox | EventOutbox.cfg | 2 dispatchers, 2 operators, one valid and one undecodable row, two copies, retention | claims are fenced, dead rows were never accepted, one content per event, listed versions are meaningful, published rows are final, EventContract is implemented |
| outbox_live | EventOutboxLive.cfg | the same rows and dispatchers, no operators | every stored row is published or dead-lettered |
| sessions | Sessions.cfg | 2 sessions, 2 logins at a time, 3 tokens, 2 passwords, a limit of 3 failures and so a lock after 2 | no session outlives its password, replays revoke, revocation is final, a lock stops verified logins |
| files | FileStore.cfg | 1 file, 1 worker and the requests, all combinations of faults | rows and objects agree while locks last, the intent decides each upload, repairs finish |
| background | Background.cfg | `AuditLog`: 1 operation of either kind, 2 contents, 2 consumers, 2 copies; `PolicySync`: 1 replica, 1 request thread, 2 changes, the first broken; `ManualRuns`: 1 worker, 2 runs, with and without restarts; `JobSchedule`: 1 replica, 2 definitions, 2 writes; `Runtime`: all hooks | answered successes are audited, one log row per event, logged in the end; snapshots sound, monotone and convergent; no run starves and all finish; entries follow definitions; nothing is closed in use and shutdown ends |
| administration | Administration.cfg | `TenantAccess`: 2 permissions, 1 role, 2 members; `Departments`: 3 departments, 1 member, a limit of 2 departments; `PermissionCatalog`: 3 builds, 2 actions, 2 nodes; `Dictionary`: 2 items, one large; `Applications`: 1 application, 3 navigation nodes, a limit of 2; a deletion of the tenant in the three modules that have one | a tenant keeps an administrator, roles stay within the ceiling, nobody gives what they do not hold, links and grants do not dangle, the newest build decides the catalog, trees stay trees and are served as stored within the limits, wherever the statements of a tenant deletion fall |
| services | Services.cfg | `ManualRuns`: 2 workers, 2 runs, one invalid; `ServiceAccounts`: 2 authentications, 2 secrets; `Transactions`: 2 connections, 2 callers; and the bounds stated in `MCServices` | completed once and by the latest claim; tokens end with their credential and locks are earned; rows are signed by their writer; SQL scope and evaluation agree on what the collation tells apart, published policies load within the limits, publication replaces what was reviewed; answers of success are real, kept and replayed; one cron run per job; handlers run for calls that deserve it; no unsafe resend, no leaked body; readiness is earned; reads are current and page walks complete |
| outbox_attempts, files_late_commit, sessions_inactive, dictionary_snapshot, policy_collation | one each | the smallest that shows it | violations, see section 6 |

Why the instances are large enough. *Outbox*: a stale dispatcher needs one more dispatcher
to be overtaken by, and one operator to outdate another's listing; a second row is needed
for the order of claims and for retention to pass one by; `MaxDeliver = 2` separates the
first attempt from the last, and a second copy is what a closed duplicate window admits.
`AttemptCap` saturates the counter, which only `MaxDeliver` is compared with; in the run
about attempts it is twice as large. Safety does not rest on these numbers: section 5 proves
it for all of them. *Audit*: one event is enough because handlers of different events share
nothing but consumers; two consumers hold the same message after a redelivery, and the two
copies are two messages. *Files*: files do not share state; the failed request is a second
repairer next to the worker, and a delete request a second purger. *Manual runs*: two
workers allow a claim to be superseded and the superseded worker to come back. Liveness needs
two runs, for one to be starved by the other, and one worker is the hardest case, since
another could only help. *Policy sync*: replicas share only the database and the hints, which
`ChangeElsewhere` moves in every way another replica could; a request thread and the runner
compete for the mutex. *Sessions*: two logins suffice for one to be overtaken by another's
failure or success; the third token is the first whose history the previous hash does not
cover; one password change separates old from new. Section 5 proves the same for all numbers.
*Tenant access*: two members are an administrator who leaves and the one who must stay, or a
member who delegates and one who receives; two permissions are one held and one not.
*Departments*: a cycle that each of two concurrent moves alone would not close needs two
departments, and a chain above them the third; with `MaxDepartmentNodes = 2` the third is the one
beyond the limit, so a cycle of three, for which moves among three would have to be allowed, is left
to the proof. *Tenant deletion*: its effects are in one table each, so one row per table shows
what survives; one deletion runs at a time, a second one would wait for the first one's rows.
*Catalog*: the second build drops an action and
the third brings it back in another scope, so every order of restarts meets both. *Dictionary*
and *navigation*: two nodes that move below each other, and in the navigation a third beyond the
limit. *Published policies*: two documents, one large, of which two large ones exceed the bytes. *Caches* (dictionary, navigation,
configuration, directory): one slow reader, or two where readers fill the cache for each
other, and enough writes for the row to change between every two of their reads. *Keys*: a
request whose lease is lost and its retry. *Transactions*: two callers that take the same
connection in turn, and a second connection to be given up. *Listing*: three rows and pages
of one or two, so that a row is inserted, deleted or moved before, in or behind the page being
read. Of the bounds named `Max...`, `MaxDepartmentNodes`, `MaxTreeNodes`, `MaxDepth`,
`MaxItemsBytes`, `MaxNavNodes`, `MaxPublishedRows`, `MaxPublishedBytes`, `MaxFailed` and
`MaxDeliver` are limits of the code; the others only cut off counters. Five more bounds stand in
`MCAdministration`: ids are handed out in order (`InOrder`; they differ by name only); of the
nodes of `PermissionCatalog` only those of the manifest are disabled (`ApiNodesActive`; the code
asks for the state of either kind in the same places); a
tenant is deleted in `TenantAccess` while it is active and its members, its roles and the catalog
are not disabled (`AllActive`), in `Departments` while there are at most two departments and the lease lasts
(`DepartmentsRest`), and the navigation in `Applications` is written while its tenant is there, is
not being deleted and its session has no context (`TenancyRests`: the rows belong to the platform,
and neither side writes the other's). The
proofs have none of these bounds. `CHECK_DEADLOCK FALSE` is set throughout: a
system without pending work may rest.

## 4. Fairness

Safety runs assume none. For liveness:

* *EventOutbox*: dispatchers poll on a ticker (`runDispatchLoop`), so claiming is weakly
  fair; leases and backoffs run out. A dispatcher that owns its claim again and again
  publishes and marks in time again and again (strong fairness): configuration validation
  demands a lease longer than the publish timeout, and the broker is reachable infinitely
  often. Crashes, failed publishes and lost leases stay possible for ever.
* *AuditLog*: what the outbox promises (`RowsSettle`), the broker's ack wait, consumers that
  receive. Nothing says that a handler succeeds; the property allows for used up deliveries.
* *FileStore*: workers tick for ever; the object store and the database work infinitely
  often for one or another worker; every request and every job ends, the server decides
  every `COMMIT`. Every single attempt may fail.
* *ManualRuns*: dispatch events are redelivered until consumed, leases run out, idle workers
  poll, executions end by their deadline. `QueuedIsClaimed` is about executions
  without restarts (`restarts`, chosen in the initial state), since a restart forgets whose
  turn it is; that runs finish (part `finishing`) assumes `Persistence`: a worker that gets
  the chance again and again completes a run within its renewed lease, and expired runs are
  taken in the order of `lease_until`.
* *PolicySync*: the poll ticker runs for ever and the database answers infinitely often.
  No hint ever needs to arrive.
* *JobSchedule*: the refresh loop of a replica that is up reads on its ticker (weak), and a
  refresh whose database and definitions allow it succeeds in the end (strong). No
  notification needs to arrive.
* *Runtime*: hooks are run by Fx one after the other and its budget is a timer; the retry
  loop of a consumer runs. No worker is assumed to look at its context.

In `MCBackground` one strong fairness condition may name actions of several components. As
`part` never changes, only one of them can ever be enabled in a behaviour, and the condition
is the one of that component.

## 5. The proofs

Every safety property of the passing runs is a theorem, `QueriesAreSound` excepted, and so are the
action properties and the refinement; each is proved from an inductive invariant for every value
of the constants that the named assumptions admit. The assumptions:

* `EventsAssumption`, `WorkersAssumption`, `RunsAssumption`, `ActorsAssumption`, `FilesAssumption`
  and `SyncAssumption`: the model values that stand for nobody and nothing are no worker, file or
  thread, and rows that do not decode are among the rows;
* `BoundsAssumption` (`EventOutbox`, `Sessions`), `AuditAssumption`, `AccountsAssumption`: limits
  of attempts, copies and deliveries are natural numbers, above zero where validation demands it;
* `MemberAssumption`: a tenant has finitely many members;
* `DirectoryAssumption`: users and organisations are different rows;
* `ResponseAssumption`: a response carries a status;
* `AttemptsAssumption`: clients refuse to be built with less than one attempt
  (`NewHTTPClient`, `NewClient`);
* `GateAssumption`: service accounts are asked for by gRPC methods only, and no route that
  evaluates capabilities is a login;
* `CatalogAssumption`: keys of the code and manual keys differ (`ErrSourceConflict`), and builds
  are numbered;
* `ListingAssumption`: a listing is of finitely many numbered rows, and the default page size is
  above zero;
* `TreesAssumption`: trees are finite, no row has the name that stands for "no parent", and the
  limits of nodes and bytes are natural numbers;
* `~SnapshotReads`, in the theorems on dictionaries only: statements read anew, as PostgreSQL's
  do. With the snapshots of MySQL the statement is false (the run `dictionary_snapshot`).

TLC evaluates them on the instances of the runs, `~SnapshotReads` excepted, which is the value
that the run `administration` gives to the constant.

`EventOutboxProofs` proves for every set of events, dispatchers and operators, every
`MaxDeliver`, `AttemptCap`, `MaxCopies` and `PurgeBatch` allowed by the assumptions named in
`EventOutbox`:

* `TypeCorrect`, `FencingHolds` (ClaimFencing), `PublishedHolds` (PublishedWasAccepted, which
  no run repeats), `DeadHolds` (DeadNeverAccepted), `ContentHolds` (OneContentPerEvent) and `ListingHolds`
  (ListedVersionIsCurrent), all from `Invariance == Spec => []IndInv`.

None of these is inductive alone. The bytes of a message come from a dispatcher's copy of a
row, and a repair may replace the bytes of the row; that no two contents meet in the stream
rests on a chain: a row becomes dead only through a dispatcher that still owns it and could
not decode it; whatever a dispatcher ever held of a row that decodes is the row's present
content, even after its lease is gone (`ClaimedBodies`, `ClaimsAgree`); whatever the stream
holds is the content of the row or the row was retired (`StreamedBodies`, `StreamAgrees`).
`RowsConsistent` and `ClaimsConsistent` relate flags of rows and claims, `WindowRoom` bounds
the copies. There is one lemma per group of actions (`StoreKeeps`, `ClaimKeeps`,
`UpdateClaimKeeps`, `PublishKeeps`, `CrashKeeps`, `TimeKeeps`, `RepairKeeps`, `ListKeeps`,
`CleanupKeeps`, `WindowKeeps`), with one step per conjunct of the invariant, and record
lemmas for what each `UPDATE` writes.

`UserProofs`, on `Sessions`, proves for every set of sessions and login requests and every
`MaxFailedAttempts`, `MaxTokens` and `MaxPasswords` above zero: `SessionTypes`,
`PasswordFenced` (OnlyCurrentPassword), `ReplayDetected` (ReplayRevokes), and the action
properties `RevocationFinal` (RevokedIsFinal) and `LockEnforced` (LockHolds). The invariant
adds what a login in flight may rely on (`FreshLogins`: while its version is current, the
password it verified is in place and nothing has locked the credential), that the history of
a session that can still be refreshed lacks no superseded token (`HistoryComplete`), and
that only existing sessions see replays (`ReplayedExist`); without these neither the
password fence nor the replay detection is inductive.

`PublishedStays` (PublishedIsFinal) and `Refines` (ImplementsContract) need one thing more, that a
settled row is unleased (`SettledUnleased`, in `FinalInv`): otherwise a lease that runs out could
touch a published row. The refinement of `EventContract` is proved step by step: the initial
states map to initial ones; for a step, first what it does to the rows and to the stream
(`StepShape`: every row stays as settled as it was, or one row turns, or the stream alone grows),
then which action of the contract or stutter each shape is (`ContractSteps`).

`BackgroundProofs`, on `AuditLog`, proves over that contract, and so for whatever the outbox does, `AuditKept`
(AuditIsKept) for every set of operations, contents and consumers. `AuditInv` follows an
operation and its event through their stages (`Operation`: what a caller may be told agrees with
what was committed) and the log rows (`Logged`: what is logged was delivered, and all that was
delivered of an event has one content).

`UserProofs`, on `FileStore`, proves for every set of files and workers and every combination of faults
`FilesMatch` (FilesMatchObjects) and `IntentDecides` (IntentDecidesUpload). The invariant has a
part that needs no lock (`IntentOK`: rows follow the intent, and a `COMMIT` under way keeps its
intent pending, because `finishUploadIntent` waits for its row lock) and a part for executions
whose locks last (`ObjectOK`, `RepairOK`: the upload and a repair are never both at work on one
file, a repair that has removed an object knows it gone), and one for executions without any fault
(the intent of a repair under way is pending, hence there is no file row to protect). That the
last part needs decided commits is what the run `files_late_commit` shows.

`SchedulerProofs`, on `ManualRuns`, proves for every set of runs and workers `CompletedOnceHolds` (CompletedOnce)
and the action property `LatestDecides` (LatestClaimDecides). The completion compares
`lease_owner` only, so the invariant (`ClaimOK`) says that of all workers that hold a run in
memory, one that is still named by the row is the latest that claimed it; `RowOK` ties lease,
status and the number of completions.

`BackgroundProofs`, on `PolicySync`, proves for every number of replicas, request threads and changes
`SnapshotSound` (SnapshotIsSound) and `NoRegress` (SnapshotNeverRegresses). What a refresh installs
was read earlier; `LoadedIsRecent` bounds what a refresh in progress has read from below by
everything its replica serves, has answered or is about to answer, and `PromisesAreServed` carries
that over to the snapshot. Both rest on the mutex around reading and installing.

`AccessControlProofs`, on `TenantAccess`, proves for every finite set of members and every set of roles and permissions
`AccessSound` (AccessIsSound) and the action property `Delegation` (DelegationIsBounded). The
named properties are inductive but for two transactions that span steps. `RoleTxOK`: while the
role has the version that UpdateRole or DeleteRole has checked, its permissions are ones that the
caller held. `SweepOK`: once deleteTenant has updated the grants, and while the tenant has the
version that it names, there is no grant that it has not found, because `SetTenantPermissions`
raises that version; so a tenant that is deleted leaves none. What survives of links needs
no invariant, as nothing is claimed of it. `MemberAssumption` is needed for counting administrators. `OffersHold` shows the different
queries of pages, guard and writes equivalent in every typed state.

`ServicesProofs`, on `Transactions`, proves for every set of connections, callers and principals
`ActorsHold` (ActorsAreOwn). The invariant adds `Owned`: a caller of `Within` has its connection to
itself, and `Holds` says what the session variable is at each stage; the point is its last part,
that in MySQL a variable that does not count as set is empty, which is why a statement that fails
must leave it counting as set. One lemma, `CallerStep`, covers a step of one caller on one
connection, and the lemmas of the actions supply the caller's and the session's new records.

`ServicesProofs`, on `ServiceAccounts`, proves for every set of authentications and every
`MaxFailed` `AccountsSound` (AccountsAreSound). `ReadOK`: what an authentication has read is the
row's generation as long as the version is the row's, so a token signed before the commit belongs
to the generation it is handed out in; `TokensOK`: a token of the current generation is of the
current epoch unless the account is unusable (an account that has expired keeps its generation
until it is made usable again, and that begins a new one); `CountOK`: the row's failures were all
counted against the current secret, and a lock was set by one of them, seen after the increment
or before it (`FailedSeen`).

`AccessControlProofs`, on `PermissionCatalog`, proves for any nodes, actions, builds and
administrators `CatalogIsAlwaysSound` (CatalogIsSound) and the action property
`NewestBuildIsFollowed` (CatalogFollowsNewestBuild). What the properties say of links, groups,
scopes and grants is inductive together with what `seed` relies on: a node that a build has seeded
has one link at most (`SeedHasOneLink`), and every action that something names exists
(`ReferencedExist`), also one that the newest build has dropped.

`BackgroundProofs`, on `Runtime`, proves `ClosedAfterUseHolds` (ClosedAfterUse) for every order of
failures, cancellations and time-outs: while hooks are stopped in reverse, what a worker uses was
opened before it and is closed after its own hook has been called (`ResourcesStayOpen`), and a
worker outlives its hook only into `cancelled` (`NothingRunsEarly`).

`SchedulerProofs`, on `JobSchedule`, proves for any definitions, handlers and replicas
`ScheduleSound` (ScheduleIsSound). `KeptIsLocked` relates running handlers to the lock of their
job: at most one of them has not lost it.

`ServicesProofs` proves `ReadsCurrent` (ReadsAreCurrent) over four modules, and `ReviewedIsPublished`
(PublishesWhatWasReviewed). *Configuration*: between its two queries a read carries a version and
no value, so the invariant says that the cache holds under a version the value of that version
(`CacheIsOld`) and that a read has seen what is so now (`ReadsSeeNow`). *Directory*: a version
stands for one row for ever, whatever is cached or being loaded is of the past (`EntriesArePast`,
`LoadsArePast`), and whoever answers from it has compared the version (`ReadsSeeRow`). *Policies*:
every version compiles, published or not, since any may be next (`VersionsBelong`), so a load fails
at the limits only, for any sizes and limits; and the
review's row is the present one as long as its version is (`ReviewIsPast`). *Listings*
(`WalksComplete`): every one of the 36 listings is sorted by a list of columns that names `id` or
`key` (`OrderDecides`), so its order is total (`OrderIsTotal`) and a row stands in the answer at its
rank, the number of rows before it (`AnswerRanks`). While nothing leaves the listing a rank only
grows, so the rows that a walk began with and whose rank is below what it has read were seen
(`PagesInv`); the total that ends the walk counts the rows the page was read from, unless something
was written between the two statements (`TotalInv`), and without writes pages have no gaps and no
doubles (`StillInv`).

`RequestsProofs` proves `RequestsAnswered` (RequestsAreAnswered) and `CallsSound` (CallsAreSound).
*Keys*: a replay repeats what is stored, so what is stored is of a transaction that committed
(`StoredIsReal`) before anybody is told of it; an answer whose lease was lost is told and not
stored. *Mutations*: `TryIsKnown` says at every stage of the handler whether the change has been
made, is in doubt or cannot have been made. *Outbound*: sends are bounded with attempts, and a
response body is accounted for from the attempt that opened it (`GoodSending`, `GoodReturned`).
*Readiness*: a verdict is earned by probes that have ended (`ProbesRemember`). *The gate*: what a
check has found need not be true at the next one, so `seen` collects what was true at some moment
of the call, and every stage says which of it the call rests on (`Verified`, `GatePassed`,
`Admitted`); two capability answers with one revision agree because both are functions of what
the revision digests (`AnswerIsPinned`, `HintIsPinned`).

`TreesProofs` proves `TreesSound` (TreesAreSound) for any number of departments, items and nodes.
The code walks up a tree; the models define the walk by recursion, and what it reaches is an
induction over its length. `NatSetInduction` states induction over naturals for a set, from the
well-foundedness of their order, and gives the lemmas on walks: a walk exists, two of them agree,
it stays in what is closed, it stops at a fixed point, it depends only on the places it visits
(`WalkExists`, `WalksAgree`, `WalkStaysIn`, `WalkStops`, `WalkTransfers`). *Departments*: no set of
live departments is closed under `parent_id` (`NoCycle`), because `validateDepartmentMove` has
walked from the new parent to the root (`MoveKeepsForest`); that no live department hangs below a
deleted one needs the lease (`LeaseHolds`); a deletion of the tenant commits all that it has found
or nothing, and is the only writer that leaves an assignment behind (`DeleteTenantKeeps`). *Dictionary*: each item's path ends at the root within
the depth (`ItemsStand`). A write is checked for the item it moves; the other paths either meet
that item, and go on as its path does, or do not, and stay. Cached answers rest on the version of
the definition, which every write of an item raises (`VersionsTell`). *Navigation*: the rows
always are a tree that `Build` accepts, since a write is checked with the tree it makes and only
leaves are deleted; it has one node beyond the limit at most, since the last write has counted
the others (`OverByOne`); one write adds one to the sum of all versions (`SumGrows`, an induction over
the size of sets), so no two states of the rows share a revision, and what is cached under one is
not older (`RevisionsTell`).

Only model-checked: liveness (the provers do not handle fairness), and `QueriesAreSound`, which is
`EvaluationIsSound` of `PolicyEvaluation`. It is about recursive operators over conditions, which
the prover does not accept, and is checked on the policies of `PolicySamples`.

## 6. Where code and documentation differ

* *outbox_attempts*: the repository's README says that the dispatcher retries with bounded
  attempts and moves exhausted rows to a dead state. A row whose publish fails is released
  with a longer backoff every time, without a bound; only an envelope that does not decode
  reaches the dead state. (This is also why `DeadNeverAccepted` holds: were failed publishes
  dead-lettered, an operator could replace the envelope of a message the broker has.)
* *files_late_commit*: `ProcessPendingUploads` promises that an existing file row always
  wins over the removal of its object. The repair counts file rows and removes the object in
  two steps, without a lock on the intent row, so a `COMMIT` that the client gave up on and
  that lands in between leaves a visible file without an object.
* *sessions_inactive*: a user update is said to revoke the user's sessions when the status
  becomes non-active. A login that read the user as active before the change commits its
  session after the revocation: its transaction compares the credential's version, which the
  change does not touch, and does not look at the user again. The session is refused while
  the user is inactive, and accepted again after reactivation. (Password changes are not
  exposed to this: they do increment the credential's version, see `PasswordFenced`.)
* *dictionary_snapshot*: the design of dictionaries relies on the lock of the definition row
  instead of a distributed lock. `UpdateItem` reads its item before it takes that lock; under
  MySQL's REPEATABLE READ this fixes the snapshot, so the walk up the parents after the lock
  does not see a move that committed while it waited. Two items can become each other's
  parent and the tree is no longer served. With statement snapshots (PostgreSQL, the run
  `administration`) this cannot happen.
* *policy_collation*: `docs/data-permission-policy-spec.md` (sections 3 and 10) admits an operator
  only if its meaning in memory and in SQL is tested to be the same, and asks for the same range on
  MySQL and PostgreSQL. `evaluator.go` compares texts with `==`, `compiler.go` leaves `=` and `IN`
  to the column, and the MySQL migrations declare text columns without `COLLATE`, so that the
  default of the server, which ignores case, decides: a policy on `"ACTIVE"` lists the row
  `"active"`, and denies an operation on it that it lists. Where the collation is binary, or no
  stored text differs from a text of a policy by case alone, both agree (`ScopesAgreeApart`).

Smaller disagreements, most of them stated in a module and refuted by TLC, without a run of their
own:

* The navigation limit of 5000 nodes is off by one for `Create` (`navigation/service.go:308`): the
  5001st node is accepted, after which the tree is not served until one is deleted
  (`NavigationIsServed` states the bound that holds). Published policies beyond the limits of a
  load (`lifecycle.go:199`) stop every load; the code has a test of that, and no check where policies
  are published.
* `deleteTenant` leaves what was written to a table after its `UPDATE`. The leftovers authorize
  nothing, but `permissionReferenced` and `application.Delete` still count them.
* On MySQL users and service accounts are locked one failure before the configured number
  (`authentication/service.go:587`, `serviceaccount/service.go:454`).
* `docs/sop-audit.md:463` says that replacing the permissions of an existing role first validates
  its current permissions against the caller; `SetRolePermissions` checks the replacement only,
  and its comment says that removing what the caller does not hold is intended. What is *given*
  is bounded either way (`DelegationIsBounded`).

* `KeptFailuresAreFinal` (Mutations): an aborted serializable transaction of the tenant
  authorization handlers is answered with 409 (`tenant_authorization.go:732`), which the
  idempotency middleware keeps although a retry could succeed; `docs/sop-audit.md:349` has
  only deterministic failures kept, and does not list the status.
* `RejectionsAreRecorded` (Mutations): platform grants and the resource catalog return a unique
  violation as a conflict before they record the rejected attempt (`platform_grant.go:432`,
  `resourcecatalog/service.go:584`); `docs/sop-audit.md:391` has rejected attempts recorded.
* `RowsAreOffered` (PolicyEvaluation): a row capability evaluates the row alone; a denial that
  depends on the proposed values hides the button although some update would be accepted.
* `docs/sop-audit.md:464` says that role updates and deletions run in serializable
  transactions; `UpdateRole` and `DeleteRole` use the default isolation. `TenantAccess` models
  them so, and its properties hold by the versions and row locks.

## 7. What is not modelled

Presentation, downloads, tracing, metrics, logs, the content of events and files, signatures
and rotation of keys, password hashing, the CEL syntax in front of a condition's tree, the
order in which single row locks are taken (a deadlock, as a refresh and a password change can have,
is broken by the database and leaves no trace), batch limits other than retention's, the deletion
of a tenant's data policies (`PolicyLifecycle` has the tenant inactive instead, which hides them
from every load), and MySQL and PostgreSQL dialects where they mean the same. The lock `file:deletion:<id>` only saves duplicate work and is left out. Object
store calls take effect before they return, so a `Put` that arrives after its repair is not
covered. Clocks of replicas agree well enough for leases. The creation and removal of log
partitions is DDL. The SDK's Redis wrappers (locks, cache, rate limiter, idempotency store),
gobreaker, singleflight and Fx are external and modelled from how they are used. Configuration,
migrations, logging, observability and scaffolding validate or generate at start-up and have
no state that steps change; `docs/docs.go` and `gen/` are generated.

## 8. Plan

Every part of the program whose state is changed by concurrent steps has a module and is checked,
and what section 5 lists is proved. What would be next:

1. `EvaluationIsSound` with conditions as rows of a table instead of recursive operators, so that an
   induction over their size can be stated.
2. The dictionary under MySQL: what remains true with snapshot reads, once the walk is repeated
   after the lock.
