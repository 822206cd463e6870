-------------------------- MODULE PermissionCatalog --------------------------
(***************************************************************************)
(* What can be granted: the catalog of resources and actions               *)
(* (internal/resourcecatalog), which every instance that starts reconciles *)
(* with the definitions compiled into it, the permission tree over it      *)
(* (internal/permission), and the platform's grants of permissions         *)
(* (internal/authorization/platform_grant.go).                             *)
(*                                                                         *)
(* All of these run in serializable transactions, one step each, except    *)
(* Sync, which holds the row of the recorded build.  A version named by a  *)
(* caller is the current one or the call fails, so versions are left out.  *)
(***************************************************************************)
EXTENDS Naturals, FiniteSets

CONSTANTS
    CodeAction,     \* actions that builds define; the resource of each is its own
    ManualAction,   \* actions created through the API, each of a manual resource
    Build,          \* builds of the program, numbered by their build time
    Defined,        \* Defined[b]: the actions that build b defines
    TenantScope,    \* TenantScope[b]: those of them whose resource is of tenant scope
    Node,           \* ids of permission nodes created through the API
    SeedNode,       \* ids derived from the keys of the deployment manifest
    Principal       \* users and service accounts

VARIABLES
    action,         \* authorization_resource_actions: state and owner
    resource,       \* authorization_resources, one per action: state and scope
    build,          \* authorization_catalog_syncs: the build last recorded, 0 before any
    perm,           \* permissions
    link,           \* live permission_resource_actions: <<node, action>>
    platformGrant,  \* live platform_principal_permissions: <<principal, node>>
    tenantRef,      \* nodes in some live tenant grant or role
    rescoped        \* a build changed the scope of a resource that was in use

vars == <<action, resource, build, perm, link, platformGrant, tenantRef, rescoped>>

Action == CodeAction \cup ManualAction

AnyNode == Node \cup SeedNode

-----------------------------------------------------------------------------
(* State.                                                                  *)

RowState == {"absent", "active", "disabled", "deleted"}

NoNode == [state |-> "absent", type |-> "group", parent |-> "root", primary |-> "none"]

\* A node as Create, Update and Seed are given it: a group, or a permission for an action.
Input ==
    LET Of(type, primaries) == [state : {"active", "disabled"}, type : {type},
                                parent : AnyNode \cup {"root"}, primary : primaries]
    IN  Of("group", {"none"}) \cup Of("permission", Action)

Init == /\ action = [a \in Action |-> "absent"]
        /\ resource = [a \in Action |-> [state |-> "absent", scope |-> "tenant"]]
        /\ build = 0
        /\ perm = [n \in AnyNode |-> NoNode]
        /\ link = {}
        /\ platformGrant = {}
        /\ tenantRef = {}
        /\ rescoped = FALSE

Kept(state) == state \in {"active", "disabled"}

\* The action and its resource exist, and are active.
Usable(a) == action[a] = "active" /\ resource[a].state = "active"

\* primaryActionScope: neither needs to be active.
primaryActionScope(a) == resource[a].scope

Links(n) == {a \in Action : <<n, a>> \in link}

-----------------------------------------------------------------------------
(* The catalog.                                                            *)

CreateResource(a, scope) ==
    /\ a \in ManualAction /\ ~Kept(resource[a].state)
    /\ resource' = [resource EXCEPT ![a] = [state |-> "active", scope |-> scope]]
    /\ UNCHANGED <<action, build, perm, link, platformGrant, tenantRef, rescoped>>

\* Its key and scope cannot change.
UpdateResource(a, state) ==
    /\ a \in ManualAction /\ Kept(resource[a].state)
    /\ resource' = [resource EXCEPT ![a].state = state]
    /\ UNCHANGED <<action, build, perm, link, platformGrant, tenantRef, rescoped>>

DeleteResource(a) ==
    /\ a \in ManualAction /\ Kept(resource[a].state) /\ ~Kept(action[a])
    /\ resource' = [resource EXCEPT ![a].state = "deleted"]
    /\ UNCHANGED <<action, build, perm, link, platformGrant, tenantRef, rescoped>>

CreateAction(a) ==
    /\ a \in ManualAction /\ resource[a].state = "active" /\ ~Kept(action[a])
    /\ action' = [action EXCEPT ![a] = "active"]
    /\ UNCHANGED <<resource, build, perm, link, platformGrant, tenantRef, rescoped>>

UpdateAction(a, state) ==
    /\ a \in ManualAction /\ Kept(action[a]) /\ resource[a].state = "active"
    /\ action' = [action EXCEPT ![a] = state]
    /\ UNCHANGED <<resource, build, perm, link, platformGrant, tenantRef, rescoped>>

\* Mutant: a linked action may be deleted once it is disabled.
DeleteAction_Disabled(a) ==
    /\ a \in ManualAction /\ Kept(action[a]) /\ Kept(resource[a].state)
    /\ action[a] = "disabled" \/ \A n \in AnyNode : <<n, a>> \notin link
    /\ action' = [action EXCEPT ![a] = "deleted"]
    /\ UNCHANGED <<resource, build, perm, link, platformGrant, tenantRef, rescoped>>

\* Only when no permission is linked to it.
DeleteAction(a) ==
    /\ a \in ManualAction /\ Kept(action[a]) /\ Kept(resource[a].state)
    /\ \A n \in AnyNode : <<n, a>> \notin link
    /\ action' = [action EXCEPT ![a] = "deleted"]
    /\ UNCHANGED <<resource, build, perm, link, platformGrant, tenantRef, rescoped>>

\* Mutant: an instance of an older build takes the catalog back.
checkBuild_AnyBuild(b) == TRUE

\* An older build is refused: ErrStaleBuild.
checkBuild(b) == b >= build

\* What syncResource, syncAction and disableMissing leave of a code-owned row.
syncAction(b, a) == IF a \in Defined[b] THEN "active"
                    ELSE IF Kept(action[a]) THEN "disabled" ELSE action[a]

syncResource(b, a) ==
    IF a \in Defined[b]
    THEN [state |-> "active", scope |-> IF a \in TenantScope[b] THEN "tenant" ELSE "platform"]
    ELSE [resource[a] EXCEPT !.state = IF Kept(@) THEN "disabled" ELSE @]

\* Sync of an instance of build b that starts.  Every code-owned row is of that build
\* afterwards; manual rows, links and grants are left alone.
Sync(b) ==
    /\ checkBuild(b)
    /\ action' = [a \in Action |-> IF a \in CodeAction THEN syncAction(b, a) ELSE action[a]]
    /\ resource' = [a \in Action |-> IF a \in CodeAction THEN syncResource(b, a) ELSE resource[a]]
    /\ build' = b
    /\ rescoped' = (rescoped \/ \E a \in CodeAction : /\ resource[a].state # "absent"
                                                      /\ resource'[a].scope # resource[a].scope)
    /\ UNCHANGED <<perm, link, platformGrant, tenantRef>>

-----------------------------------------------------------------------------
(* The permission tree.                                                    *)

\* Mutant: the parent must be a live node, of whatever type.
validateTreeTx_AnyParent(n, i) ==
    i.parent # "root" => i.parent # n /\ Kept(perm[i.parent].state)

\* The tree with the node as it is to be: every parent is a live group (hasValidParentTypes),
\* and platformtree.Build finds no cycle.
validateTreeTx(n, i) ==
    LET kept == {x \in AnyNode : Kept(perm[x].state)}
        tree == [x \in kept \cup {n} |-> IF x = n THEN i ELSE perm[x]]
    IN  /\ \A x \in DOMAIN tree : tree[x].parent # "root" =>
              tree[x].parent \in DOMAIN tree /\ tree[tree[x].parent].type = "group"
        /\ \A S \in SUBSET DOMAIN tree : S # {} => \E x \in S : tree[x].parent \notin S

\* syncPrimaryLink: the links afterwards, of which L are left; the action must be active.
syncPrimaryLink(n, i, L) == IF i.type = "group" THEN L ELSE L \cup {<<n, i.primary>>}

Create(n, i) ==
    /\ n \in Node /\ perm[n].state = "absent"
    /\ i.type = "permission" => Usable(i.primary)
    /\ validateTreeTx(n, i)
    /\ perm' = [perm EXCEPT ![n] = i]
    /\ link' = syncPrimaryLink(n, i, link)
    /\ UNCHANGED <<action, resource, build, platformGrant, tenantRef, rescoped>>

\* Mutant: a permission may be moved to an action of another scope.
SameScope_Any(n, i) == TRUE

\* A permission that stays one keeps its scope.
SameScope(n, i) ==
    perm[n].type = "permission" /\ i.type = "permission"
       => primaryActionScope(i.primary) = primaryActionScope(perm[n].primary)

\* What Update and Seed leave of the node's links: all, all but the old primary one, none.
Remaining(n, i) ==
    {x \in link : x[1] = n => /\ perm[n].type = i.type
                              /\ perm[n].primary = i.primary \/ x[2] # perm[n].primary}

Update(n, i) ==
    /\ n \in Node /\ Kept(perm[n].state)
    /\ i.primary \notin {perm[n].primary, "none"} => Usable(i.primary)
    /\ SameScope(n, i)
    /\ validateTreeTx(n, i)
    /\ perm' = [perm EXCEPT ![n] = i]
    /\ link' = syncPrimaryLink(n, i, Remaining(n, i))
    /\ UNCHANGED <<action, resource, build, platformGrant, tenantRef, rescoped>>

\* SetActions replaces the links: the primary action is among them, all are active and of
\* its scope.
SetActions(n, A) ==
    /\ n \in Node /\ Kept(perm[n].state) /\ perm[n].type = "permission"
    /\ perm[n].primary \in A
    /\ \A a \in A : Usable(a) /\ resource[a].scope = primaryActionScope(perm[n].primary)
    /\ link' = {x \in link : x[1] # n} \cup ({n} \X A)
    /\ UNCHANGED <<action, resource, build, perm, platformGrant, tenantRef, rescoped>>

permissionReferenced(n) == n \in tenantRef \/ \E q \in Principal : <<q, n>> \in platformGrant

Delete(n) ==
    /\ n \in Node /\ Kept(perm[n].state)
    /\ \A x \in AnyNode : Kept(perm[x].state) => perm[x].parent # n
    /\ ~permissionReferenced(n)
    /\ perm' = [perm EXCEPT ![n] = [NoNode EXCEPT !.state = "deleted"]]
    /\ link' = {x \in link : x[1] # n}
    /\ UNCHANGED <<action, resource, build, platformGrant, tenantRef, rescoped>>

\* Seed installs or updates a built-in node; an identical one with its link is left alone.
Seed(n, i) ==
    /\ n \in SeedNode
    /\ i.type = "permission" => Usable(i.primary)
    /\ validateTreeTx(n, i)
    /\ perm' = [perm EXCEPT ![n] = i]
    /\ link' = syncPrimaryLink(n, i, Remaining(n, i))
    /\ UNCHANGED <<action, resource, build, platformGrant, tenantRef, rescoped>>

-----------------------------------------------------------------------------
(* Grants.                                                                 *)

\* platformGrantablePermissionWhere and tenantGrantablePermissionWhere.  The latter also
\* asks for the primary action.
Grantable(n, scope) ==
    /\ perm[n].state = "active" /\ perm[n].type = "permission"
    /\ \E a \in Links(n) : /\ Usable(a) /\ resource[a].scope = scope
                           /\ scope = "tenant" => a = perm[n].primary

CreateGrant(q, n) ==
    /\ <<q, n>> \notin platformGrant /\ Grantable(n, "platform")
    /\ platformGrant' = platformGrant \cup {<<q, n>>}
    /\ UNCHANGED <<action, resource, build, perm, link, tenantRef, rescoped>>

\* PlatformGrantService.Update: the row is given to another principal or permission.
UpdateGrant(g, q, n) ==
    /\ g \in platformGrant /\ <<q, n>> \notin platformGrant /\ Grantable(n, "platform")
    /\ platformGrant' = (platformGrant \ {g}) \cup {<<q, n>>}
    /\ UNCHANGED <<action, resource, build, perm, link, tenantRef, rescoped>>

DeleteGrant(g) ==
    /\ g \in platformGrant
    /\ platformGrant' = platformGrant \ {g}
    /\ UNCHANGED <<action, resource, build, perm, link, tenantRef, rescoped>>

\* The ceilings and roles of the tenants (TenantAccess), of which this module sees whether
\* some row refers to the node.
TenantGrant(n) ==
    /\ n \notin tenantRef /\ Grantable(n, "tenant")
    /\ tenantRef' = tenantRef \cup {n}
    /\ UNCHANGED <<action, resource, build, perm, link, platformGrant, rescoped>>

TenantRevoke(n) ==
    /\ n \in tenantRef
    /\ tenantRef' = tenantRef \ {n}
    /\ UNCHANGED <<action, resource, build, perm, link, platformGrant, rescoped>>

\* hasPlatformGrant, and platformGrants of a pinned snapshot: what the principal may do.
platformGrants(q) == {a \in Action : /\ Usable(a) /\ resource[a].scope = "platform"
                                     /\ \E n \in AnyNode : /\ <<q, n>> \in platformGrant
                                                           /\ perm[n].state = "active"
                                                           /\ perm[n].type = "permission"
                                                           /\ <<n, a>> \in link}

Next == \/ \E a \in Action :
              \/ DeleteResource(a) \/ CreateAction(a) \/ DeleteAction(a)
              \/ \E scope \in {"platform", "tenant"} : CreateResource(a, scope)
              \/ \E state \in {"active", "disabled"} : UpdateResource(a, state) \/ UpdateAction(a, state)
        \/ \E b \in Build : Sync(b)
        \/ \E n \in AnyNode :
              \/ \E i \in Input : Create(n, i) \/ Update(n, i) \/ Seed(n, i)
              \/ \E A \in SUBSET Action : SetActions(n, A)
              \/ Delete(n) \/ TenantGrant(n) \/ TenantRevoke(n)
              \/ \E q \in Principal : \/ CreateGrant(q, n)
                                      \/ \E g \in platformGrant : UpdateGrant(g, q, n)
        \/ \E g \in platformGrant : DeleteGrant(g)

Spec == Init /\ [][Next]_vars

-----------------------------------------------------------------------------
(* Properties.                                                             *)

TypeOK ==
    /\ action \in [Action -> RowState]
    /\ resource \in [Action -> [state : RowState, scope : {"platform", "tenant"}]]
    /\ build \in Build \cup {0}
    /\ \A n \in AnyNode : Kept(perm[n].state) => perm[n] \in Input
    /\ link \subseteq AnyNode \X Action
    /\ platformGrant \subseteq Principal \X AnyNode
    /\ tenantRef \subseteq AnyNode
    /\ rescoped \in BOOLEAN

(* Nothing that authorizes dangles: a link joins a permission that exists to an action   *)
(* and a resource that exist, a permission is linked to the action it is named for, a    *)
(* group to none, and grants are of nodes that exist, whatever is converted, disabled,   *)
(* deleted or taken out of the code in between.                                          *)
CatalogIsSound ==
    /\ \A x \in link : /\ Kept(perm[x[1]].state) /\ perm[x[1]].type = "permission"
                       /\ Kept(action[x[2]]) /\ Kept(resource[x[2]].state)
    /\ \A n \in AnyNode : Kept(perm[n].state) /\ perm[n].type = "permission"
                             => <<n, perm[n].primary>> \in link
    /\ \A n \in AnyNode : permissionReferenced(n) => Kept(perm[n].state)

(* The permission nodes form a forest below groups, whatever is moved or converted       *)
(* (validateTreeTx, hasValidParentTypes).                                                *)
PermissionsAreForest ==
    LET kept == {n \in AnyNode : Kept(perm[n].state)}
    IN  /\ \A S \in SUBSET kept : S # {} => \E n \in S : perm[n].parent \notin S
        /\ \A n \in kept : perm[n].parent # "root" =>
              perm[n].parent \in kept /\ perm[perm[n].parent].type = "group"

(* "All actions must share one scope" (permission.go:193): as long as no build changes   *)
(* the scope of a resource, the actions of a permission are all of one scope, through    *)
(* every edit of its actions, so that no platform grant reaches a tenant's operations    *)
(* under the name of another.                                                            *)
OneScope == ~rescoped => \A x, y \in link : x[1] = y[1] => resource[x[2]].scope = resource[y[2]].scope

(* The code-owned catalog is the one of the newest build that ever started, even while   *)
(* instances of an older build restart beside it (checkBuild, disableMissing).           *)
CatalogFollowsNewestBuild ==
    /\ [](build # 0 => \A a \in CodeAction : Usable(a) <=> a \in Defined[build])
    /\ [][build' >= build]_build
=============================================================================
