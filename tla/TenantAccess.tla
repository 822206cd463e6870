---------------------------- MODULE TenantAccess ----------------------------
(***************************************************************************)
(* Who may do what in one tenant (internal/tenant,                         *)
(* internal/authorization/tenant_service.go and provider.go): the tenant   *)
(* and its members, its administrators, the permissions the platform       *)
(* grants to it (its ceiling), its roles, and the members' roles.          *)
(*                                                                         *)
(* A serializable transaction is one step.  Renaming or deleting a role,   *)
(* adding a member and deleting the tenant run in weaker transactions and  *)
(* are several steps: what they read first may be stale when they write,   *)
(* and only the versions and row locks they use protect them.  Deleting    *)
(* the tenant is one step for each table it updates: a row that one of its *)
(* UPDATEs has found is locked from then on, and a row written later is    *)
(* not found.  The Redis leases around these calls may be lost and protect *)
(* nothing here.  A transaction that fails, its audit events included,     *)
(* leaves no trace.                                                        *)
(***************************************************************************)
EXTENDS Naturals, FiniteSets

CONSTANTS
    Permission,   \* tenant-scoped nodes of the permission tree
    Role,         \* ids that CreateRole may use
    Member        \* users, each with at most one membership in the tenant

ASSUME MemberAssumption == IsFiniteSet(Member)

VARIABLES
    tenant,       \* tenants.status, or that the row is absent or deleted
    node,         \* what the catalog says of each permission
    grants,       \* live tenant_permission_grants
    member,       \* tenant_memberships
    admin,        \* live tenant_administrators
    role,         \* tenant_roles
    rolePerms,    \* live tenant_role_permissions
    memberRoles,  \* live tenant_member_roles
    roleTx,       \* an UpdateRole or DeleteRole between its check and its write
    addTx,        \* members that an Add has found absent in an active tenant
    sweep         \* a deleteTenant between its first statement and its last one

accessVars == <<tenant, node, grants, member, admin, role, rolePerms, memberRoles, roleTx, addTx, sweep>>

access == <<tenant, node, grants, member, admin, role, rolePerms, memberRoles>>

-----------------------------------------------------------------------------
(* State.                                                                  *)

\* grantable: an active permission whose action and resource are active; unlinked: an
\* active permission whose action or resource is not; inactive: disabled, or a group.
Node == {"grantable", "unlinked", "inactive", "deleted"}

Row == {"absent", "active", "disabled", "deleted"}

\* held: what the caller could delegate when it was checked; fresh: the role still has
\* the version that the caller names.
RoleTx == [op : {"none", "update", "delete"}, role : Role \cup {"none"}, held : SUBSET Permission, fresh : BOOLEAN]

\* The rows that the first at UPDATEs of deleteTenant found, in the order of the fields;
\* fresh: the tenant still has the version that the caller names.
Sweep == [at : 0..6, memberRoles : [Member -> SUBSET Role], rolePerms : [Role -> SUBSET Permission],
          roles : SUBSET Role, admins : SUBSET Member, grants : SUBSET Permission,
          members : SUBSET Member, fresh : BOOLEAN]

NoRoleTx == [op |-> "none", role |-> "none", held |-> {}, fresh |-> FALSE]

NoSweep == [at |-> 0, memberRoles |-> [m \in Member |-> {}], rolePerms |-> [r \in Role |-> {}],
            roles |-> {}, admins |-> {}, grants |-> {}, members |-> {}, fresh |-> FALSE]

AccessInit == /\ tenant = "absent"
              /\ node = [p \in Permission |-> "grantable"]
              /\ grants = {}
              /\ member = [m \in Member |-> "absent"]
              /\ admin = {}
              /\ role = [r \in Role |-> "absent"]
              /\ rolePerms = [r \in Role |-> {}]
              /\ memberRoles = [m \in Member |-> {}]
              /\ roleTx = NoRoleTx
              /\ addTx = {}
              /\ sweep = NoSweep

-----------------------------------------------------------------------------
(* Helpers.                                                                *)

Live(status) == status \in {"active", "disabled"}

\* tenantGrantablePermissionWhere
Grantable(p) == node[p] = "grantable"

ActivePermission(p) == node[p] \in {"grantable", "unlinked"}

ensureTenant == tenant = "active"

\* ensureMembership: active and not deleted.
ensureMembership(m) == member[m] = "active"

\* requireAdministrator, and ensureAdministrator inside the transaction.
ensureAdministrator(m) == tenant = "active" /\ member[m] = "active" /\ m \in admin

\* The administrators that SetAdministrator and protectLastAdministrator count.
ActiveAdministrators == {m \in admin : member[m] = "active"}

\* The permissions of the member's active roles.
ByRole(m) == UNION {rolePerms[r] : r \in {x \in memberRoles[m] : role[x] = "active"}}

\* The active member's administrator link decides which of the two queries runs.
effectivePermissionIDs(m) ==
    {p \in grants : ActivePermission(p) /\ (m \in admin \/ p \in ByRole(m))}

\* A caller without an active membership of an active tenant is refused.
mayDelegate(m) == tenant = "active" /\ member[m] = "active"

validateTenantPermissions(P) == \A p \in P : Grantable(p)

\* validateTenantPermissions and requireSubset of what the caller holds itself.
ensureAssignable(m, P) == /\ validateTenantPermissions(P)
                          /\ mayDelegate(m)
                          /\ P \subseteq effectivePermissionIDs(m)

ensureRoleAssignable(m, r) == Live(role[r]) /\ ensureAssignable(m, rolePerms[r])

\* Mutant: whoever may delegate at all assigns any active role.
ensureRolesAssignable_Active(m, R) == mayDelegate(m) /\ \A r \in R : role[r] = "active"

\* Every role is locked and active, and their union may be delegated.
ensureRolesAssignable(m, R) == /\ \A r \in R : role[r] = "active"
                               /\ ensureAssignable(m, UNION {rolePerms[r] : r \in R})

\* A row that a deleteTenant in flight has updated is locked until it ends.
UnlockedMember(m) == m \notin sweep.members

UnlockedRole(r) == r \notin sweep.roles

\* Every write of a role or of the tenant increments its version.
Outdated(R) == IF roleTx.op # "none" /\ roleTx.role \in R
               THEN [roleTx EXCEPT !.fresh = FALSE] ELSE roleTx

TenantRewritten == [sweep EXCEPT !.fresh = FALSE]

-----------------------------------------------------------------------------
(* The tenant.                                                             *)

\* insertTenant, insertOwnerMembership and insertTenantAdministrator in one transaction.
Create(owner) ==
    /\ tenant = "absent"
    /\ tenant' = "active"
    /\ member' = [member EXCEPT ![owner] = "active"]
    /\ admin' = {owner}
    /\ UNCHANGED <<node, grants, role, rolePerms, memberRoles, roleTx, addTx, sweep>>

\* AdminUpdate and Update: updateTenant.
Update(status) ==
    /\ Live(tenant)
    /\ tenant' = status
    /\ sweep' = TenantRewritten
    /\ UNCHANGED <<node, grants, member, admin, role, rolePerms, memberRoles, roleTx, addTx>>

\* AdminDelete and Delete: deleteTenant updates the rows of one table after the other, each
\* with the rows that are live by then.
deleteTenantRows ==
    /\ Live(tenant) /\ sweep.at < 6
    /\ sweep' = [at |-> sweep.at + 1,
                 memberRoles |-> IF sweep.at = 0 THEN memberRoles ELSE sweep.memberRoles,
                 rolePerms |-> IF sweep.at = 1 THEN rolePerms ELSE sweep.rolePerms,
                 roles |-> IF sweep.at = 2 THEN {r \in Role : Live(role[r])} ELSE sweep.roles,
                 admins |-> IF sweep.at = 3 THEN admin ELSE sweep.admins,
                 grants |-> IF sweep.at = 4 THEN grants ELSE sweep.grants,
                 members |-> IF sweep.at = 5 THEN {m \in Member : Live(member[m])} ELSE sweep.members,
                 fresh |-> sweep.at = 0 \/ sweep.fresh]
    /\ UNCHANGED <<access, roleTx, addTx>>

\* Mutant: the tenant is deleted whatever its version.
TenantUnchanged_ById == TRUE

\* WHERE id = ? AND version = ? AND deleted_at IS NULL
TenantUnchanged == sweep.fresh

\* deleteTenant's last statement, and its commit.  What was written after the UPDATE of its
\* table survives.
deleteTenant ==
    /\ sweep.at = 6 /\ TenantUnchanged /\ Live(tenant)
    /\ tenant' = "deleted"
    /\ memberRoles' = [m \in Member |-> memberRoles[m] \ sweep.memberRoles[m]]
    /\ rolePerms' = [r \in Role |-> rolePerms[r] \ sweep.rolePerms[r]]
    /\ role' = [r \in Role |-> IF r \in sweep.roles THEN "deleted" ELSE role[r]]
    /\ admin' = admin \ sweep.admins
    /\ grants' = grants \ sweep.grants
    /\ member' = [m \in Member |-> IF m \in sweep.members THEN "deleted" ELSE member[m]]
    /\ roleTx' = Outdated(sweep.roles)
    /\ sweep' = NoSweep
    /\ UNCHANGED <<node, addTx>>

\* deleteTenant fails and rolls back.
deleteTenantFails ==
    /\ sweep.at > 0
    /\ sweep' = NoSweep
    /\ UNCHANGED <<access, roleTx, addTx>>

-----------------------------------------------------------------------------
(* Members.                                                                *)

\* Add, up to ensureActiveTenant: the user has no live membership.
AddFinds(m) ==
    /\ tenant = "active" /\ ~Live(member[m])
    /\ addTx' = addTx \cup {m}
    /\ UNCHANGED <<access, roleTx, sweep>>

\* Add inserts the membership, or restores the deleted one; a live one is a conflict.
Add(m) ==
    /\ m \in addTx
    /\ addTx' = addTx \ {m}
    /\ member' = [member EXCEPT ![m] = IF Live(member[m]) THEN member[m] ELSE "active"]
    /\ UNCHANGED <<tenant, node, grants, admin, role, rolePerms, memberRoles, roleTx, sweep>>

\* Mutant: the administrators are counted with their disabled members.
protectLastAdministrator_AnyStatus(m) == m \in admin => Cardinality(admin) > 1

\* The last active administrator may not lose its membership.
protectLastAdministrator(m) == m \in admin => Cardinality(ActiveAdministrators) > 1

UpdateStatus(m, status) ==
    /\ tenant = "active" /\ Live(member[m]) /\ UnlockedMember(m)
    /\ status = "disabled" => protectLastAdministrator(m)
    /\ member' = [member EXCEPT ![m] = status]
    /\ UNCHANGED <<tenant, node, grants, admin, role, rolePerms, memberRoles, roleTx, addTx, sweep>>

\* Mutant: the administrator link of the membership is left alone.
Remove_KeepsAdministrator(m) ==
    /\ tenant = "active" /\ Live(member[m]) /\ UnlockedMember(m)
    /\ sweep.memberRoles[m] = {} /\ m \notin sweep.admins
    /\ protectLastAdministrator(m)
    /\ member' = [member EXCEPT ![m] = "deleted"]
    /\ memberRoles' = [memberRoles EXCEPT ![m] = {}]
    /\ UNCHANGED <<tenant, node, grants, admin, role, rolePerms, roleTx, addTx, sweep>>

\* The membership, its roles and its administrator link are deleted together.
Remove(m) ==
    /\ tenant = "active" /\ Live(member[m]) /\ UnlockedMember(m)
    /\ sweep.memberRoles[m] = {} /\ m \notin sweep.admins
    /\ protectLastAdministrator(m)
    /\ member' = [member EXCEPT ![m] = "deleted"]
    /\ admin' = admin \ {m}
    /\ memberRoles' = [memberRoles EXCEPT ![m] = {}]
    /\ UNCHANGED <<tenant, node, grants, role, rolePerms, roleTx, addTx, sweep>>

\* SetAdministrator; by is the platform or a member of the tenant.
SetAdministrator(by, m, enabled) ==
    /\ ensureTenant
    /\ by \in Member => ensureAdministrator(by)
    /\ ensureMembership(m) /\ UnlockedMember(m) /\ m \notin sweep.admins
    /\ ~enabled => Cardinality(ActiveAdministrators) > 1 /\ m \in admin
    /\ admin' = IF enabled THEN admin \cup {m} ELSE admin \ {m}
    /\ UNCHANGED <<tenant, node, grants, member, role, rolePerms, memberRoles, roleTx, addTx, sweep>>

-----------------------------------------------------------------------------
(* The ceiling, the roles and their members.                               *)

\* Mutant: the ceiling is replaced, the roles keep what they had.
pruneRolePermissions_Nothing(P) == rolePerms

\* The roles lose what the ceiling no longer holds.
pruneRolePermissions(P) == [r \in Role |-> rolePerms[r] \cap P]

\* The tenant's version, its grants and its roles change together: replaceLinks locks all
\* grants, pruneRolePermissions the roles and links outside P.
SetTenantPermissions(P) ==
    /\ ensureTenant
    /\ sweep.grants = {}
    /\ \A r \in Role : sweep.rolePerms[r] \subseteq P
    /\ \A r \in sweep.roles : rolePerms[r] \subseteq P
    /\ validateTenantPermissions(P)
    /\ grants' = P
    /\ rolePerms' = pruneRolePermissions(P)
    /\ roleTx' = Outdated({r \in Role : ~(rolePerms[r] \subseteq P)})
    /\ sweep' = TenantRewritten
    /\ UNCHANGED <<tenant, node, member, admin, role, memberRoles, addTx>>

CreateRole(by, r, P) ==
    /\ role[r] = "absent"
    /\ ensureAssignable(by, P)
    /\ role' = [role EXCEPT ![r] = "active"]
    /\ rolePerms' = [rolePerms EXCEPT ![r] = P]
    /\ UNCHANGED <<tenant, node, grants, member, admin, memberRoles, roleTx, addTx, sweep>>

\* "Only the replacement set needs to be assignable."
SetRolePermissions(by, r, P) ==
    /\ ensureAssignable(by, P)
    /\ Live(role[r]) /\ UnlockedRole(r) /\ sweep.rolePerms[r] = {}
    /\ rolePerms' = [rolePerms EXCEPT ![r] = P]
    /\ roleTx' = Outdated({r})
    /\ UNCHANGED <<tenant, node, grants, member, admin, role, memberRoles, addTx, sweep>>

SetMemberRoles(by, m, R) ==
    /\ ensureMembership(m) /\ UnlockedMember(m) /\ sweep.memberRoles[m] = {}
    /\ ensureRolesAssignable(by, R) /\ \A r \in R : UnlockedRole(r)
    /\ memberRoles' = [memberRoles EXCEPT ![m] = R]
    /\ UNCHANGED <<tenant, node, grants, member, admin, role, rolePerms, roleTx, addTx, sweep>>

\* UpdateRole and DeleteRole check the caller against the role's permissions first.
CheckRole(by, r, op) ==
    /\ roleTx.op = "none"
    /\ ensureRoleAssignable(by, r)
    /\ roleTx' = [op |-> op, role |-> r, held |-> effectivePermissionIDs(by), fresh |-> TRUE]
    /\ UNCHANGED <<access, addTx, sweep>>

\* Mutant: the role is written whatever its version.
RoleUnchanged_ById == Live(role[roleTx.role])

\* WHERE tenant_id=? AND id=? AND version=? AND deleted_at IS NULL
RoleUnchanged == Live(role[roleTx.role]) /\ roleTx.fresh

UpdateRole(status) ==
    /\ roleTx.op = "update"
    /\ RoleUnchanged /\ UnlockedRole(roleTx.role)
    /\ role' = [role EXCEPT ![roleTx.role] = status]
    /\ roleTx' = NoRoleTx
    /\ UNCHANGED <<tenant, node, grants, member, admin, rolePerms, memberRoles, addTx, sweep>>

\* The role's row is locked by its own update, so that nobody assigns it before the links
\* are deleted.  The versions of its members advance with them.
DeleteRole ==
    /\ roleTx.op = "delete"
    /\ RoleUnchanged /\ UnlockedRole(roleTx.role) /\ sweep.rolePerms[roleTx.role] = {}
    /\ \A m \in Member : roleTx.role \notin sweep.memberRoles[m]
    /\ \A m \in sweep.members : roleTx.role \notin memberRoles[m]
    /\ role' = [role EXCEPT ![roleTx.role] = "deleted"]
    /\ rolePerms' = [rolePerms EXCEPT ![roleTx.role] = {}]
    /\ memberRoles' = [m \in Member |-> memberRoles[m] \ {roleTx.role}]
    /\ roleTx' = NoRoleTx
    /\ UNCHANGED <<tenant, node, grants, member, admin, addTx, sweep>>

\* UpdateRole or DeleteRole fails: ErrTenantAuthorizationStaleVersion, or a rollback.
RoleTxFails ==
    /\ roleTx.op # "none"
    /\ roleTx' = NoRoleTx
    /\ UNCHANGED <<access, addTx, sweep>>

-----------------------------------------------------------------------------
(* The permission catalog, of which this module sees the effect only.      *)

\* A node or its action is disabled, enabled, or converted: no reference is checked.
CatalogChanges(p, status) ==
    /\ node[p] # "deleted" /\ status # node[p]
    /\ node' = [node EXCEPT ![p] = status]
    /\ UNCHANGED <<tenant, grants, member, admin, role, rolePerms, memberRoles, roleTx, addTx, sweep>>

\* permissionReferenced, of the tables of this module.
permissionReferenced(p) == p \in grants \/ \E r \in Role : p \in rolePerms[r]

DeleteNode(p) ==
    /\ node[p] # "deleted" /\ ~permissionReferenced(p)
    /\ node' = [node EXCEPT ![p] = "deleted"]
    /\ UNCHANGED <<tenant, grants, member, admin, role, rolePerms, memberRoles, roleTx, addTx, sweep>>

AccessNext == \/ \E m \in Member : Create(m) \/ AddFinds(m) \/ Add(m) \/ Remove(m)
              \/ \E status \in {"active", "disabled"} :
                    \/ Update(status)
                    \/ UpdateRole(status)
                    \/ \E m \in Member : UpdateStatus(m, status)
              \/ deleteTenantRows \/ deleteTenant \/ deleteTenantFails
              \/ \E by \in Member \cup {"platform"}, m \in Member, enabled \in BOOLEAN :
                    SetAdministrator(by, m, enabled)
              \/ \E P \in SUBSET Permission : SetTenantPermissions(P)
              \/ \E by \in Member, r \in Role, P \in SUBSET Permission :
                    CreateRole(by, r, P) \/ SetRolePermissions(by, r, P)
              \/ \E by, m \in Member, R \in SUBSET Role : SetMemberRoles(by, m, R)
              \/ \E by \in Member, r \in Role, op \in {"update", "delete"} : CheckRole(by, r, op)
              \/ DeleteRole \/ RoleTxFails
              \/ \E p \in Permission :
                    \/ DeleteNode(p)
                    \/ \E status \in Node \ {"deleted"} : CatalogChanges(p, status)

AccessSpec == AccessInit /\ [][AccessNext]_accessVars

-----------------------------------------------------------------------------
(* What the management pages offer, and what the guard of a request asks.  *)

\* PageAssignablePermissions
AssignablePermissions(by) ==
    {p \in Permission : /\ Grantable(p) /\ p \in grants /\ mayDelegate(by)
                        /\ by \in admin \/ \E r \in Role : /\ role[r] = "active"
                                                           /\ r \in memberRoles[by]
                                                           /\ p \in rolePerms[r]}

\* RoleGrantTarget: of the role's permissions, those marked assignable.
RoleGrantTarget(by, r) ==
    {p \in rolePerms[r] : ActivePermission(p) /\ p \in effectivePermissionIDs(by)
                          /\ Grantable(p) /\ p \in grants}

\* PageRoleAssignmentCandidates: active roles all of whose links are valid and held.
AssignableRoles(by) ==
    {r \in Role : /\ mayDelegate(by) /\ role[r] = "active"
                  /\ \A p \in rolePerms[r] : p \in grants /\ Grantable(p)
                                             /\ p \in effectivePermissionIDs(by)}

\* Mutant: the request guard overlooks that the member was disabled.
hasManagedTenantGrant_AnyMember(m, p) ==
    /\ tenant = "active" /\ Live(member[m])
    /\ p \in grants /\ Grantable(p)
    /\ m \in admin \/ \E r \in memberRoles[m] : role[r] = "active" /\ p \in rolePerms[r]

\* hasManagedTenantGrant: the guard of a request that needs p's own action.
hasManagedTenantGrant(m, p) ==
    /\ tenant = "active" /\ member[m] = "active"
    /\ p \in grants /\ Grantable(p)
    /\ m \in admin \/ \E r \in memberRoles[m] : role[r] = "active" /\ p \in rolePerms[r]

-----------------------------------------------------------------------------
(* Properties.                                                             *)

AccessTypeOK ==
    /\ tenant \in Row
    /\ node \in [Permission -> Node]
    /\ grants \subseteq Permission
    /\ member \in [Member -> Row]
    /\ admin \subseteq Member
    /\ role \in [Role -> Row]
    /\ rolePerms \in [Role -> SUBSET Permission]
    /\ memberRoles \in [Member -> SUBSET Role]
    /\ roleTx \in RoleTx
    /\ addTx \subseteq Member
    /\ sweep \in Sweep

(* A tenant that is not deleted has an active administrator, whatever its members and    *)
(* the platform do at the same time (protectLastAdministrator, SetAdministrator).        *)
KeepsAdministrator == Live(tenant) => ActiveAdministrators # {}

(* No role of the tenant holds a permission that the platform took away from the tenant  *)
(* (pruneRolePermissions), and a deleted tenant, of which a role, a member or a link     *)
(* written between two UPDATEs of the deletion may survive, holds no grant at all:       *)
(* nothing of it authorizes.                                                             *)
WithinCeiling == /\ tenant # "deleted" => \A r \in Role : rolePerms[r] \subseteq grants
                 /\ tenant = "deleted" => grants = {}

(* A link does not outlive what it links while the tenant is there: a removed membership *)
(* has neither roles nor an administrator link, so that an Add that restores it restores *)
(* no authority; a deleted role has no members and no permissions.  A deleted permission *)
(* is in no role or grant, those that survive the deletion of a tenant included.         *)
LinksAreLive ==
    /\ tenant # "deleted" =>
         /\ \A m \in Member : ~Live(member[m]) => memberRoles[m] = {} /\ m \notin admin
         /\ \A r \in Role :
              ~Live(role[r]) => rolePerms[r] = {} /\ \A m \in Member : r \notin memberRoles[m]
    /\ \A p \in Permission : node[p] = "deleted" => ~permissionReferenced(p)

(* The pages offer exactly what the writes accept ("so the management UI cannot          *)
(* advertise permissions that a subsequent write would reject", tenant_service.go:703),  *)
(* and the guard of a request lets a member do exactly what the member may delegate.     *)
OffersAreAccepted ==
    \A m \in Member :
       LET may == {p \in Permission : ensureAssignable(m, {p})}
       IN  /\ AssignablePermissions(m) = may
           /\ {p \in Permission : hasManagedTenantGrant(m, p)} = may
           /\ AssignableRoles(m) = {r \in Role : ensureRolesAssignable(m, {r})}
           /\ \A r \in Role : mayDelegate(m) => RoleGrantTarget(m, r) = rolePerms[r] \cap may

(* All of these: the tenant keeps an administrator, no role exceeds what the platform    *)
(* granted, no link outlives what it links while the tenant is there, nothing that       *)
(* survives its deletion authorizes, and the pages offer what the writes accept.         *)
AccessIsSound == KeepsAdministrator /\ WithinCeiling /\ LinksAreLive /\ OffersAreAccepted

\* What a step of the caller gives to some member beyond what it had.
Gained(m) == effectivePermissionIDs(m)' \ effectivePermissionIDs(m)

\* What each of these operations gives was held by its caller when it was checked.
Bounded ==
    (\E m \in Member : Gained(m) # {}) =>
       /\ \A by \in Member :
             (\/ \E r \in Role, P \in SUBSET Permission :
                    CreateRole(by, r, P) \/ SetRolePermissions(by, r, P)
              \/ \E m \in Member, R \in SUBSET Role : SetMemberRoles(by, m, R))
             => \A m \in Member : Gained(m) \subseteq effectivePermissionIDs(by)
       /\ UpdateRole("active") => \A m \in Member : Gained(m) \subseteq roleTx.held

(* Nobody gives what they do not hold: a role created, refilled, assigned or enabled by  *)
(* a member adds no permission to anyone that this member did not hold when it was       *)
(* checked, even if the role or the caller changed between the check and the write.      *)
DelegationIsBounded == [][Bounded]_accessVars
=============================================================================
