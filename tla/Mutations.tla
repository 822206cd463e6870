----------------------------- MODULE Mutations ------------------------------
(***************************************************************************)
(* A request of the administration API with an idempotency key, from its   *)
(* handler (transport/http) through the mutate function of its service to  *)
(* the answer and to what the idempotency middleware keeps of it.          *)
(*                                                                         *)
(* Every service runs a change and its audit records in one transaction,   *)
(* some inside a Redis lease, and records a failed attempt on its own.     *)
(* Every handler answers the errors it knows with their own status and the *)
(* others as internal errors.  A status that calls for a retry releases the*)
(* key, so that the retry executes; any other is kept and replayed.        *)
(***************************************************************************)
EXTENDS Naturals

CONSTANT MaxTries     \* bound on the tries of the client

VARIABLES
    mutation,   \* the try that runs
    effects,    \* how often the change was committed
    kept        \* what the middleware keeps under the key: "", "result", or the cause of a failure

vars == <<mutation, effects, kept>>

-----------------------------------------------------------------------------
\* The services: their audit trail, their lease, the refusals they return

\* Every service: records of the operation log, a unique violation becomes a conflict.
Plain == [security |-> FALSE, lease |-> FALSE, failClosed |-> FALSE, uniqueRecorded |-> TRUE,
          refuses |-> {"invalid", "not found", "stale", "conflict"}]

Secured == [Plain EXCEPT !.security = TRUE]

users == [Secured EXCEPT !.refuses = @ \cup {"forbidden", "in use"}]

tenants == [Secured EXCEPT !.refuses = @ \cup {"forbidden"}]

members == [Secured EXCEPT !.lease = TRUE, !.refuses = @ \cup {"forbidden", "no identity"}]

departments == [Plain EXCEPT !.lease = TRUE, !.refuses = @ \cup {"forbidden"}]

configs == [Secured EXCEPT !.lease = TRUE]

navigations == Plain

accounts == Secured

jobs == Plain

permissions == [Secured EXCEPT !.refuses = @ \cup {"in use"}]

\* Two services return the conflict of a unique violation before they record the failure.
catalog == [Secured EXCEPT !.uniqueRecorded = FALSE, !.refuses = @ \cup {"in use"}]

platformGrants == [Secured EXCEPT !.uniqueRecorded = FALSE]

applications == Plain

\* When the failure cannot be recorded as a security event, that is the error.
applicationGrants == [Secured EXCEPT !.failClosed = TRUE, !.refuses = @ \cup {"forbidden"}]

roles == [Secured EXCEPT !.lease = TRUE, !.refuses = @ \cup {"forbidden"}]

dictionaries == Plain

\* An unsupported condition of a policy has errors of its own, which its handler does not know.
policies == [Secured EXCEPT !.refuses = (@ \ {"stale"}) \cup {"forbidden", "condition"}]

-----------------------------------------------------------------------------
\* The handlers: their operations, and the errors they know

\* A handler: its operations that change something, those that read, the errors it knows.
Ops(changes, reads) == [changes |-> changes, reads |-> reads]

HandlerWith(service, groups, known) ==
    [service |-> service, known |-> known,
     changes |-> UNION {g.changes : g \in groups}, reads |-> UNION {g.reads : g \in groups}]

Usual == {"invalid", "not found", "stale", "conflict"}

UserAccounts == Ops({"UpdateProfile", "Create"}, {"GetProfile", "Get", "ResetPasswordTarget", "ForceLogoutTarget"})

UserHandler == HandlerWith(users, {UserAccounts, Ops({"Update", "Delete"}, {"DeleteTarget", "UpdateTarget", "Page"})},
    Usual \cup {"forbidden", "in use"})

OwnTenant == Ops({"Create", "Update", "Delete"}, {"Get", "Page", "DeleteTarget", "UpdateTarget"})

TenantHandler == HandlerWith(tenants,
    {OwnTenant, Ops({"AdminUpdate", "AdminDelete"}, {"AdminGet", "AdminPage", "AdminUpdateTarget", "AdminDeleteTarget"})},
    Usual \cup {"forbidden"})

TenantMembers == Ops({"Add", "UpdateStatus", "Remove"}, {"Get", "StatusTarget", "RemoveTarget", "Page"})

TenantMemberHandler == HandlerWith(members,
    {TenantMembers, Ops({}, {"AvailableTenants", "AvailableTenantsPage", "CurrentTenant"})},
    Usual \cup {"forbidden", "no identity", "no audit"})

DepartmentTree == Ops({"Create"}, {"Get", "UpdateTarget", "DeleteTarget", "AssignmentTarget", "Tree"})

DepartmentHandler == HandlerWith(departments, {DepartmentTree, Ops({"Update", "Delete", "SetMembers"}, {"Members"})},
    Usual \cup {"forbidden"})

ConfigEntries == Ops({"Create", "Update"}, {"Get", "Page", "UpdateTarget"})

PlatformConfigHandler == HandlerWith(configs, {ConfigEntries, Ops({"Delete"}, {"DeleteTarget", "GetPublic", "ListPublic"})}, Usual)

NavigationTree == Ops({"Create"}, {"Get", "UpdateTarget", "DeleteTarget", "Tree"})

NavigationHandler == HandlerWith(navigations, {NavigationTree, Ops({"Update", "Delete"}, {"Current"})}, Usual)

AccountTargets == Ops({"Create"}, {"Get", "RotateTarget", "DeleteTarget", "UpdateTarget"})

ServiceAccountHandler == HandlerWith(accounts, {AccountTargets, Ops({"Update", "RotateSecret", "Delete"}, {"Page"})}, Usual)

JobDefinitions == Ops({"Create", "Update"}, {"Get", "Page", "UpdateTarget"})

ScheduledJobHandler == HandlerWith(jobs,
    {JobDefinitions, Ops({"Delete", "Trigger"}, {"DeleteTarget", "ListHandlers", "GetRun", "PageRuns"})}, Usual)

PermissionNodes == Ops({"Create", "Update", "Delete"}, {"Get", "UpdateTarget", "DeleteTarget"})

PermissionHandler == HandlerWith(permissions, {PermissionNodes, Ops({"SetActions"}, {"Tree", "GetActions", "ActionEditTarget"})},
    Usual \cup {"in use"})

CatalogActions == Ops({"CreateAction", "UpdateAction", "DeleteAction"},
    {"GetAction", "ActionUpdateTarget", "ActionDeleteTarget", "PageActions"})

ResourceCatalogHandler == HandlerWith(catalog,
    {CatalogActions, Ops({"CreateResource", "UpdateResource", "DeleteResource"},
                         {"GetResource", "ResourceUpdateTarget", "ResourceDeleteTarget", "PageResources"})},
    Usual \cup {"in use"})

GrantEntries == Ops({"Create", "Delete"}, {"Get", "UpdateTarget", "DeleteTarget", "Page"})

PlatformGrantHandler == HandlerWith(platformGrants, {GrantEntries, Ops({"Update"}, {"PageGrantablePermissions"})}, Usual)

ApplicationHandler == HandlerWith(applications,
    {Ops({"Create", "Update", "Delete"},
         {"Get", "DeleteTarget", "UpdateTarget", "Page", "NavigationApplicationTargetRead", "NavigationApplicationTargetList",
          "NavigationApplicationTargetCreate"})}, Usual)

TenantApplicationHandler == HandlerWith(applicationGrants,
    {Ops({"GrantTenantApplication", "RevokeTenantApplication", "SwitchApplication"},
         {"RevokeTenantApplicationTarget", "GetTenantApplication", "PageTenantApplications", "CurrentApplications",
          "CurrentApplication"})}, Usual \cup {"forbidden", "no audit"})

TenantCeiling == Ops({"SetTenantPermissions"},
    {"TenantPermissionCeiling", "TenantPermissionTarget", "PageTenantGrantablePermissions",
     "PagePlatformAdministratorCandidates", "PlatformAdministratorTarget"})

TenantAdministrators == Ops({"SetAdministrator", "CreateRole"},
    {"TenantApplicationTargetRead", "TenantApplicationTargetList", "TenantApplicationTargetGrant",
     "PageTenantAdministratorCandidates", "GetRole"})

TenantRoles == Ops({"UpdateRole", "DeleteRole"},
    {"RoleUpdateTarget", "RoleDeleteTarget", "PageRoles", "PageRoleAssignmentCandidates"})

RoleLinks == Ops({"SetRolePermissions"}, {"RolePermissions", "RoleGrantTarget", "MemberRoles", "MemberRoleAssignmentTarget"})

\* It answers an aborted transaction as a conflict.
TenantAuthorizationHandler == HandlerWith(roles,
    {TenantCeiling, TenantAdministrators, TenantRoles, RoleLinks,
     Ops({"SetMemberRoles"}, {"EffectivePermissions", "AssignablePermissions", "PageAssignablePermissions"})},
    Usual \cup {"forbidden", "aborted"})

DictionaryDefinitions == Ops({"CreateDefinition"},
    {"Query", "GetDefinition", "UpdateTarget", "DeleteTarget", "ItemDefinitionTargetRead", "ItemDefinitionTargetList"})

DictionaryItems == Ops({"CreateItem"},
    {"ItemDefinitionTargetCreate", "ItemDefinitionTargetUpdate", "ItemDefinitionTargetDelete", "PageDefinitions", "GetItem",
     "ItemUpdateTarget", "ItemDeleteTarget"})

DictionaryHandler == HandlerWith(dictionaries,
    {DictionaryDefinitions, DictionaryItems,
     Ops({"UpdateDefinition", "DeleteDefinition", "UpdateItem", "DeleteItem"}, {"PageItems"})}, Usual)

PolicyDrafts == Ops({"Create", "CreateVersion"}, {"Get", "Page", "VersionCreateTarget"})

PolicyVersions == Ops({"Publish"}, {"GetVersion", "PageVersions", "PublishTarget"})

DataPermissionHandler == HandlerWith(policies, {PolicyDrafts, PolicyVersions, Ops({"SetStatus"}, {"StatusTarget"})},
    (Usual \ {"stale"}) \cup {"forbidden"})

Handlers == {UserHandler, TenantHandler, TenantMemberHandler, DepartmentHandler, PlatformConfigHandler, NavigationHandler,
             ServiceAccountHandler, ScheduledJobHandler, PermissionHandler, ResourceCatalogHandler, PlatformGrantHandler,
             ApplicationHandler, TenantApplicationHandler, TenantAuthorizationHandler, DictionaryHandler,
             DataPermissionHandler}

-----------------------------------------------------------------------------
\* The answer

\* apperror: the status of an error a handler knows.
Status(error) ==
    CASE error = "invalid" -> 400 [] error = "not found" -> 404 [] error = "forbidden" -> 403
      [] error \in {"stale", "conflict", "in use", "aborted"} -> 409
      [] error \in {"no identity", "no audit"} -> 503

\* Fail: any other error is an internal one, or the outbox of the audit trail is unavailable.
Fail(handler, error) ==
    IF error \in handler.known THEN Status(error) ELSE IF error = "outbox" THEN 503 ELSE 500

\* responseContextEnded: 504 once the deadline has passed, nothing (0) once the client is gone.
Answered(over, status) == CASE over = "deadline" -> 504 [] over = "cancelled" -> 0 [] over = "" -> status

retryable(status) == status \in {0, 408, 425, 429} \/ status >= 500

-----------------------------------------------------------------------------

NoMutation == [pc |-> "idle", tries |-> 0]

Init == mutation = NoMutation /\ effects = 0 /\ kept = ""

Begins(h, op, tries) == [pc |-> IF op \in h.changes THEN "bound" ELSE "reading", handler |-> h, op |-> op, tries |-> tries,
    over |-> "", cause |-> "", error |-> "", lease |-> FALSE, took |-> FALSE, doubt |-> FALSE, failures |-> {},
    recordFails |-> FALSE, status |-> 0]

\* The first try: a body that cannot be bound is refused.
Bind(h, op, valid) ==
    /\ mutation.pc = "idle"
    /\ mutation' = IF valid THEN Begins(h, op, 1)
                   ELSE [Begins(h, op, 1) EXCEPT !.pc = "failed", !.cause = "refused", !.error = "invalid"]
    /\ UNCHANGED <<effects, kept>>

Service == mutation.handler.service

Goes(pc) == mutation' = [mutation EXCEPT !.pc = pc] /\ UNCHANGED <<effects, kept>>

Fails(pc, cause, error) ==
    /\ mutation' = [mutation EXCEPT !.pc = pc, !.cause = cause, !.error = error]
    /\ UNCHANGED <<effects, kept>>

\* A read: its answer, a refusal, or the database is down.
Read ==
    /\ mutation.pc = "reading"
    /\ \/ Goes("done")
       \/ \E e \in Service.refuses : Fails("failed", "refused", e)
       \/ Fails("failed", "transient", "down")

\* What the service checks and reads first is refused without a record of the
\* attempt: the input, its subject, the rights of the actor.
Check ==
    /\ mutation.pc = "bound"
    /\ \/ Goes(IF Service.lease THEN "lease" ELSE "working")
       \/ \E e \in Service.refuses \ {"stale", "conflict", "in use"} : Fails("failed", "refused", e)
       \/ Fails("failed", "transient", "down")

\* cache.WithCommittedLock: the lease is not to be had, or is held around the transaction.
Lease ==
    /\ mutation.pc = "lease"
    /\ \/ /\ mutation' = [mutation EXCEPT !.pc = "working", !.lease = TRUE]
          /\ UNCHANGED <<effects, kept>>
       \/ Fails("failed", "transient", "lease")

\* The transaction up to its commit: the change, then the records.
Transact ==
    /\ mutation.pc = "working"
    /\ \/ mutation.over = "" /\ Goes("commit")
       \/ \E e \in Service.refuses : Fails("record", "refused", e)
       \/ Fails("record", "transient", "aborted")
       \/ Fails("record", "transient", "down")
       \/ Fails("record", "transient", "outbox")
       \/ Fails(IF Service.uniqueRecorded THEN "record" ELSE "failed", "refused", "conflict")

\* COMMIT succeeds; it is aborted; or its outcome is not known and an error is returned.
Commit ==
    /\ mutation.pc = "commit"
    /\ \/ /\ mutation.over = ""
          /\ mutation' = [mutation EXCEPT !.pc = IF mutation.lease THEN "release" ELSE "done", !.took = TRUE]
          /\ effects' = effects + 1
       \/ /\ mutation' = [mutation EXCEPT !.pc = "record", !.cause = "transient", !.error = "aborted"]
          /\ UNCHANGED effects
       \/ \E took \in BOOLEAN :
            /\ mutation' = [mutation EXCEPT !.pc = "record", !.cause = "transient", !.error = "down", !.took = took, !.doubt = TRUE]
            /\ effects' = effects + (IF took THEN 1 ELSE 0)
    /\ UNCHANGED kept

\* Mutant: the error of the release is the caller's.
Release_Reported ==
    /\ mutation.pc = "release"
    /\ Goes("done") \/ Fails("failed", "transient", "lease")

\* The lease is released, or that fails and is logged; the caches and the names of
\* the answer come after the commit, and their errors are logged as well.
Release ==
    /\ mutation.pc = "release"
    /\ Goes("done")

\* The failure is recorded outside the transaction, in a context of its own.
RecordFailure ==
    /\ mutation.pc = "record"
    /\ \E failures \in SUBSET (IF Service.security THEN {"operation", "security"} ELSE {"operation"}) :
         mutation' = [mutation EXCEPT !.pc = "failed", !.failures = failures,
           !.recordFails = failures # (IF Service.security THEN {"operation", "security"} ELSE {"operation"}),
           !.cause = IF Service.failClosed /\ "security" \notin failures THEN "transient" ELSE @,
           !.error = IF Service.failClosed /\ "security" \notin failures THEN "no audit" ELSE @]
    /\ UNCHANGED <<effects, kept>>

\* The deadline of the request passes, or its client goes away.
ContextEnds(over) ==
    /\ mutation.pc \notin {"idle", "answered"} /\ mutation.over = ""
    /\ mutation' = [mutation EXCEPT !.over = over]
    /\ UNCHANGED <<effects, kept>>

\* OK or Fail, and what the middleware keeps of it.
Answer ==
    /\ mutation.pc \in {"done", "failed"}
    /\ LET status == Answered(mutation.over, IF mutation.pc = "done" THEN 200 ELSE Fail(mutation.handler, mutation.error)) IN
       /\ mutation' = [mutation EXCEPT !.pc = "answered", !.status = status]
       /\ kept' = IF retryable(status) THEN "" ELSE IF status < 400 THEN "result" ELSE mutation.cause
    /\ UNCHANGED effects

\* The client tries again with the same key when the answer calls for it.
Retry ==
    /\ mutation.pc = "answered" /\ retryable(mutation.status) /\ mutation.tries < MaxTries
    /\ mutation' = Begins(mutation.handler, mutation.op, mutation.tries + 1)
    /\ UNCHANGED <<effects, kept>>

Next == \/ \E h \in Handlers : \E op \in h.changes \cup h.reads, valid \in BOOLEAN : Bind(h, op, valid)
        \/ Read \/ Check \/ Lease \/ Transact \/ Commit \/ Release \/ RecordFailure \/ Answer \/ Retry
        \/ \E over \in {"deadline", "cancelled"} : ContextEnds(over)

Spec == Init /\ [][Next]_vars

-----------------------------------------------------------------------------

\* What the idempotency middleware takes for granted of a handler: a try that
\* is answered with success has committed its change, one that is answered with
\* a refusal has not, and a committed change is answered with success unless
\* the database left its commit in doubt or the time of the request was up.
\* Under one key, a change is made twice only after such an answer.
ChangesAreAnswered ==
    mutation.pc = "answered" /\ mutation.op \in mutation.handler.changes =>
      /\ mutation.status = 200 => mutation.took
      /\ mutation.status \in 400..499 => ~mutation.took
      /\ mutation.took => mutation.status = 200 \/ mutation.doubt \/ mutation.over # ""
      /\ kept = "result" => effects > 0

\* A failure that is kept and replayed to every retry is a refusal: it would
\* be refused again (docs/sop-audit.md: "deterministic failures").
KeptFailuresAreFinal == kept # "transient"

\* A rejected change of privileges leaves a record, unless recording failed.
RejectionsAreRecorded ==
    mutation.pc = "answered" /\ mutation.op \in mutation.handler.changes /\ Service.security /\ mutation.error = "conflict" =>
      "security" \in mutation.failures \/ mutation.recordFails
=============================================================================
