------------------------ MODULE AccessControlProofs -------------------------
(***************************************************************************)
(* Access in a tenant is sound, for any members, roles and permissions,    *)
(* and nobody gives what they do not hold. What the properties say         *)
(* themselves is inductive but for two transactions that span steps:       *)
(* UpdateRole and DeleteRole rely on what was checked before, deleteTenant *)
(* on what its UPDATEs found, each of them at its own time. RoleTxOK and   *)
(* SweepOK say what the versions and the row locks leave true of that.     *)
(*                                                                         *)
(* The catalog of permissions and resources is sound, for any nodes,       *)
(* builds and replicas: the rows of the tree, what a synchronisation has   *)
(* read and what the newest build has declared.                            *)
(***************************************************************************)
EXTENDS AccessControl, FiniteSetTheorems, TLAPS

-----------------------------------------------------------------------------
(* Access in a tenant.                                                     *)

\* An UpdateRole or DeleteRole between its check and its write: while the role has the version
\* that was checked, the caller held all of its permissions.
RoleTxOK ==
    roleTx.op # "none" =>
      /\ roleTx.role \in Role /\ role[roleTx.role] # "absent"
      /\ roleTx.fresh => rolePerms[roleTx.role] \subseteq roleTx.held

\* A deleteTenant that has updated the grants: while the tenant has the version that was named,
\* there is no grant that it has not found.
SweepOK == sweep.at >= 5 /\ sweep.fresh => grants \subseteq sweep.grants

\* The inductive invariant.
AccessInv == /\ AccessTypeOK /\ KeepsAdministrator /\ WithinCeiling /\ LinksAreLive
             /\ RoleTxOK /\ SweepOK

-----------------------------------------------------------------------------

\* Of more than one, one remains.
LEMMA AnotherRemains ==
    ASSUME NEW S, IsFiniteSet(S), Cardinality(S) > 1, NEW m
    PROVE  S \ {m} # {}
<1> SUFFICES ASSUME S \ {m} = {} PROVE FALSE
  OBVIOUS
<1>1. S = {} \/ S = {m}
  OBVIOUS
<1>2. Cardinality({}) = 0
  BY FS_EmptySet
<1>3. Cardinality({m}) = 1
  BY FS_Singleton
<1> QED
  BY <1>1, <1>2, <1>3

\* Administrators are members, of whom there are finitely many.
LEMMA AdministratorsFinite == ASSUME AccessTypeOK PROVE IsFiniteSet(ActiveAdministrators)
  BY MemberAssumption, FS_Subset DEF AccessTypeOK, ActiveAdministrators

\* A write of roles takes the version away from a transaction on one of them, and nothing else.
LEMMA OutdatedFields ==
    ASSUME roleTx \in RoleTx, NEW R
    PROVE  /\ Outdated(R) \in RoleTx
           /\ Outdated(R).op = roleTx.op /\ Outdated(R).role = roleTx.role
           /\ Outdated(R).held = roleTx.held
           /\ Outdated(R).fresh => roleTx.fresh /\ (roleTx.op = "none" \/ roleTx.role \notin R)
<1> QED
  BY DEF Outdated, RoleTx

\* A write of the tenant takes the version away from a deleteTenant, and nothing else.
LEMMA RewrittenFields ==
    ASSUME sweep \in Sweep
    PROVE  /\ TenantRewritten \in Sweep /\ ~TenantRewritten.fresh
<1> QED
  BY DEF TenantRewritten, Sweep

\* What ensureAssignable lets through: active permissions of the ceiling that the caller holds.
LEMMA AssignableFacts ==
    ASSUME NEW by \in Member, NEW P, ensureAssignable(by, P)
    PROVE  /\ tenant = "active" /\ member[by] = "active" /\ P \subseteq grants
           /\ P \subseteq effectivePermissionIDs(by)
           /\ \A p \in P : node[p] = "grantable"
<1> QED
  BY DEF ensureAssignable, validateTenantPermissions, Grantable, mayDelegate,
         effectivePermissionIDs

\* The owner is the first administrator.
LEMMA CreateKeeps ==
    ASSUME AccessInv, NEW m \in Member, Create(m)
    PROVE  AccessInv'
<1>1. AccessTypeOK'
  BY DEF AccessInv, AccessTypeOK, Row, Create
<1>2. KeepsAdministrator'
  BY DEF AccessInv, AccessTypeOK, KeepsAdministrator, ActiveAdministrators, Create
<1>3. WithinCeiling'
  BY DEF AccessInv, WithinCeiling, Create
<1>4. LinksAreLive'
  BY DEF AccessInv, AccessTypeOK, LinksAreLive, permissionReferenced, Live, Create
<1>5. RoleTxOK'
  BY DEF AccessInv, RoleTxOK, Create
<1>6. SweepOK'
  BY DEF AccessInv, SweepOK, Create
<1> QED
  BY <1>1, <1>2, <1>3, <1>4, <1>5, <1>6 DEF AccessInv

\* The status of the tenant; a deleteTenant in flight will fail.
LEMMA UpdateKeeps ==
    ASSUME AccessInv, NEW status \in {"active", "disabled"}, Update(status)
    PROVE  AccessInv'
<1>1. AccessTypeOK'
  BY RewrittenFields DEF AccessInv, AccessTypeOK, Row, Update
<1>2. KeepsAdministrator'
  BY DEF AccessInv, KeepsAdministrator, ActiveAdministrators, Update
<1>3. WithinCeiling'
  BY DEF AccessInv, WithinCeiling, Update, Live
<1>4. LinksAreLive'
  BY DEF AccessInv, LinksAreLive, permissionReferenced, Live, Update
<1>5. RoleTxOK'
  BY DEF AccessInv, RoleTxOK, Update
<1>6. SweepOK'
  BY RewrittenFields DEF AccessInv, AccessTypeOK, SweepOK, Update
<1> QED
  BY <1>1, <1>2, <1>3, <1>4, <1>5, <1>6 DEF AccessInv

\* An UPDATE of deleteTenant; the fifth one finds the grants.
LEMMA deleteTenantRowsKeeps ==
    ASSUME AccessInv, deleteTenantRows
    PROVE  AccessInv'
<1>1. AccessTypeOK'
  BY DEF AccessInv, AccessTypeOK, Sweep, deleteTenantRows, access
<1>2. KeepsAdministrator'
  BY DEF AccessInv, KeepsAdministrator, ActiveAdministrators, deleteTenantRows, access
<1>3. WithinCeiling'
  BY DEF AccessInv, WithinCeiling, deleteTenantRows, access
<1>4. LinksAreLive'
  BY DEF AccessInv, LinksAreLive, permissionReferenced, deleteTenantRows, access
<1>5. RoleTxOK'
  BY DEF AccessInv, RoleTxOK, deleteTenantRows, access
<1>6. SweepOK'
  BY DEF AccessInv, AccessTypeOK, Sweep, SweepOK, deleteTenantRows, access
<1> QED
  BY <1>1, <1>2, <1>3, <1>4, <1>5, <1>6 DEF AccessInv

\* Its last statement: with the version it names, every grant there is was found; of the roles, the
\* members and their links some may survive.
LEMMA deleteTenantKeeps ==
    ASSUME AccessInv, deleteTenant
    PROVE  AccessInv'
<1>1. AccessTypeOK'
  BY OutdatedFields DEF AccessInv, AccessTypeOK, Row, Sweep, NoSweep, deleteTenant
<1>2. KeepsAdministrator'
  BY DEF AccessInv, KeepsAdministrator, Live, deleteTenant
<1>3. WithinCeiling'
  BY DEF AccessInv, WithinCeiling, SweepOK, deleteTenant, TenantUnchanged
<1>4. LinksAreLive'
  BY DEF AccessInv, AccessTypeOK, LinksAreLive, permissionReferenced, deleteTenant
<1>5. RoleTxOK'
  BY OutdatedFields DEF AccessInv, AccessTypeOK, RoleTxOK, deleteTenant
<1>6. SweepOK'
  BY DEF AccessInv, SweepOK, NoSweep, deleteTenant
<1> QED
  BY <1>1, <1>2, <1>3, <1>4, <1>5, <1>6 DEF AccessInv

\* A rollback.
LEMMA deleteTenantFailsKeeps ==
    ASSUME AccessInv, deleteTenantFails
    PROVE  AccessInv'
<1>1. AccessTypeOK'
  BY DEF AccessInv, AccessTypeOK, Sweep, NoSweep, deleteTenantFails, access
<1>2. KeepsAdministrator'
  BY DEF AccessInv, KeepsAdministrator, ActiveAdministrators, deleteTenantFails, access
<1>3. WithinCeiling'
  BY DEF AccessInv, WithinCeiling, deleteTenantFails, access
<1>4. LinksAreLive'
  BY DEF AccessInv, LinksAreLive, permissionReferenced, deleteTenantFails, access
<1>5. RoleTxOK'
  BY DEF AccessInv, RoleTxOK, deleteTenantFails, access
<1>6. SweepOK'
  BY DEF AccessInv, SweepOK, NoSweep, deleteTenantFails
<1> QED
  BY <1>1, <1>2, <1>3, <1>4, <1>5, <1>6 DEF AccessInv

\* Add, up to its check.
LEMMA AddFindsKeeps ==
    ASSUME AccessInv, NEW m \in Member, AddFinds(m)
    PROVE  AccessInv'
<1>1. AccessTypeOK'
  BY DEF AccessInv, AccessTypeOK, AddFinds, access
<1>2. KeepsAdministrator'
  BY DEF AccessInv, KeepsAdministrator, ActiveAdministrators, AddFinds, access
<1>3. WithinCeiling'
  BY DEF AccessInv, WithinCeiling, AddFinds, access
<1>4. LinksAreLive'
  BY DEF AccessInv, LinksAreLive, permissionReferenced, AddFinds, access
<1>5. RoleTxOK'
  BY DEF AccessInv, RoleTxOK, AddFinds, access
<1>6. SweepOK'
  BY DEF AccessInv, SweepOK, AddFinds, access
<1> QED
  BY <1>1, <1>2, <1>3, <1>4, <1>5, <1>6 DEF AccessInv

\* A restored membership has no roles and no administrator link.
LEMMA AddKeeps ==
    ASSUME AccessInv, NEW m \in Member, Add(m)
    PROVE  AccessInv'
<1>1. AccessTypeOK'
  BY DEF AccessInv, AccessTypeOK, Row, Add
<1>2. KeepsAdministrator'
  BY DEF AccessInv, KeepsAdministrator, ActiveAdministrators, Add
<1>3. WithinCeiling'
  BY DEF AccessInv, WithinCeiling, Add
<1>4. LinksAreLive'
  BY DEF AccessInv, LinksAreLive, permissionReferenced, Add
<1>5. RoleTxOK'
  BY DEF AccessInv, RoleTxOK, Add
<1>6. SweepOK'
  BY DEF AccessInv, SweepOK, Add
<1> QED
  BY <1>1, <1>2, <1>3, <1>4, <1>5, <1>6 DEF AccessInv

\* protectLastAdministrator: another active administrator remains.
LEMMA UpdateStatusKeeps ==
    ASSUME AccessInv, NEW m \in Member, NEW status \in {"active", "disabled"}, UpdateStatus(m,
           status)
    PROVE  AccessInv'
<1>1. AccessTypeOK'
  BY DEF AccessInv, AccessTypeOK, Row, UpdateStatus
<1>2. KeepsAdministrator'
  <2>1. CASE status = "disabled" /\ m \in admin
    <3>1. ActiveAdministrators \ {m} # {}
      BY <2>1, AnotherRemains, AdministratorsFinite
         DEF AccessInv, UpdateStatus, protectLastAdministrator
    <3>2. ActiveAdministrators \ {m} \subseteq ActiveAdministrators'
      BY DEF AccessInv, ActiveAdministrators, UpdateStatus
    <3> QED
      BY <3>1, <3>2 DEF KeepsAdministrator
  <2>2. CASE status = "active" \/ m \notin admin
    BY <2>2 DEF AccessInv, KeepsAdministrator, ActiveAdministrators, UpdateStatus
  <2> QED
    BY <2>1, <2>2
<1>3. WithinCeiling'
  BY DEF AccessInv, WithinCeiling, UpdateStatus
<1>4. LinksAreLive'
  BY DEF AccessInv, LinksAreLive, permissionReferenced, Live, UpdateStatus
<1>5. RoleTxOK'
  BY DEF AccessInv, RoleTxOK, UpdateStatus
<1>6. SweepOK'
  BY DEF AccessInv, SweepOK, UpdateStatus
<1> QED
  BY <1>1, <1>2, <1>3, <1>4, <1>5, <1>6 DEF AccessInv

\* The same when the membership goes, with its links.
LEMMA RemoveKeeps ==
    ASSUME AccessInv, NEW m \in Member, Remove(m)
    PROVE  AccessInv'
<1>1. AccessTypeOK'
  BY DEF AccessInv, AccessTypeOK, Row, Remove
<1>2. KeepsAdministrator'
  <2>1. ActiveAdministrators \ {m} \subseteq ActiveAdministrators'
    BY DEF AccessInv, ActiveAdministrators, Remove
  <2>2. CASE m \in admin
    BY <2>1, <2>2, AnotherRemains, AdministratorsFinite
       DEF AccessInv, Remove, protectLastAdministrator, KeepsAdministrator
  <2>3. CASE m \notin admin
    BY <2>1, <2>3 DEF AccessInv, KeepsAdministrator, ActiveAdministrators, Remove
  <2> QED
    BY <2>2, <2>3
<1>3. WithinCeiling'
  BY DEF AccessInv, WithinCeiling, Remove
<1>4. LinksAreLive'
  BY DEF AccessInv, AccessTypeOK, LinksAreLive, permissionReferenced, Remove
<1>5. RoleTxOK'
  BY DEF AccessInv, RoleTxOK, Remove
<1>6. SweepOK'
  BY DEF AccessInv, SweepOK, Remove
<1> QED
  BY <1>1, <1>2, <1>3, <1>4, <1>5, <1>6 DEF AccessInv

\* SetAdministrator counts the active administrators.
LEMMA SetAdministratorKeeps ==
    ASSUME AccessInv, NEW by \in Member \cup {"platform"}, NEW m \in Member,
           NEW enabled \in BOOLEAN, SetAdministrator(by, m, enabled)
    PROVE  AccessInv'
<1>1. AccessTypeOK'
  BY DEF AccessInv, AccessTypeOK, SetAdministrator
<1>2. KeepsAdministrator'
  BY AnotherRemains, AdministratorsFinite
     DEF AccessInv, KeepsAdministrator, ActiveAdministrators, SetAdministrator
<1>3. WithinCeiling'
  BY DEF AccessInv, WithinCeiling, SetAdministrator
<1>4. LinksAreLive'
  BY DEF AccessInv, LinksAreLive, permissionReferenced, Live, SetAdministrator, ensureMembership
<1>5. RoleTxOK'
  BY DEF AccessInv, RoleTxOK, SetAdministrator
<1>6. SweepOK'
  BY DEF AccessInv, SweepOK, SetAdministrator
<1> QED
  BY <1>1, <1>2, <1>3, <1>4, <1>5, <1>6 DEF AccessInv

\* The ceiling and the roles change together; a deleteTenant in flight, whose list of grants is stale
\* now, will fail.
LEMMA SetTenantPermissionsKeeps ==
    ASSUME AccessInv, NEW P \in SUBSET Permission, SetTenantPermissions(P)
    PROVE  AccessInv'
<1>1. AccessTypeOK'
  BY OutdatedFields, RewrittenFields
     DEF AccessInv, AccessTypeOK, SetTenantPermissions, pruneRolePermissions
<1>2. KeepsAdministrator'
  BY DEF AccessInv, KeepsAdministrator, ActiveAdministrators, SetTenantPermissions
<1>3. WithinCeiling'
  BY DEF AccessInv, WithinCeiling, SetTenantPermissions, ensureTenant, pruneRolePermissions
<1>4. LinksAreLive'
  BY DEF AccessInv, LinksAreLive, permissionReferenced, SetTenantPermissions,
         validateTenantPermissions, Grantable, pruneRolePermissions
<1>5. RoleTxOK'
  BY OutdatedFields
     DEF AccessInv, AccessTypeOK, RoleTxOK, SetTenantPermissions, pruneRolePermissions
<1>6. SweepOK'
  BY RewrittenFields DEF AccessInv, AccessTypeOK, SweepOK, SetTenantPermissions
<1> QED
  BY <1>1, <1>2, <1>3, <1>4, <1>5, <1>6 DEF AccessInv

\* A new role is within the ceiling, as its creator is; no transaction on its id can be under way.
LEMMA CreateRoleKeeps ==
    ASSUME AccessInv, NEW by \in Member, NEW r \in Role, NEW P \in SUBSET Permission,
           CreateRole(by, r, P)
    PROVE  AccessInv'
<1>1. AccessTypeOK'
  BY DEF AccessInv, AccessTypeOK, Row, CreateRole
<1>2. KeepsAdministrator'
  BY DEF AccessInv, KeepsAdministrator, ActiveAdministrators, CreateRole
<1>3. WithinCeiling'
  BY AssignableFacts DEF AccessInv, WithinCeiling, CreateRole
<1>4. LinksAreLive'
  BY AssignableFacts
     DEF AccessInv, AccessTypeOK, LinksAreLive, permissionReferenced, Live, CreateRole
<1>5. RoleTxOK'
  BY DEF AccessInv, RoleTxOK, CreateRole
<1>6. SweepOK'
  BY DEF AccessInv, SweepOK, CreateRole
<1> QED
  BY <1>1, <1>2, <1>3, <1>4, <1>5, <1>6 DEF AccessInv

\* So is the new content of a role; a transaction on the role will fail.
LEMMA SetRolePermissionsKeeps ==
    ASSUME AccessInv, NEW by \in Member, NEW r \in Role, NEW P \in SUBSET Permission,
           SetRolePermissions(by, r, P)
    PROVE  AccessInv'
<1>1. AccessTypeOK'
  BY OutdatedFields DEF AccessInv, AccessTypeOK, SetRolePermissions
<1>2. KeepsAdministrator'
  BY DEF AccessInv, KeepsAdministrator, ActiveAdministrators, SetRolePermissions
<1>3. WithinCeiling'
  BY AssignableFacts DEF AccessInv, WithinCeiling, SetRolePermissions
<1>4. LinksAreLive'
  BY AssignableFacts DEF AccessInv, LinksAreLive, permissionReferenced, SetRolePermissions
<1>5. RoleTxOK'
  BY OutdatedFields DEF AccessInv, AccessTypeOK, RoleTxOK, SetRolePermissions
<1>6. SweepOK'
  BY DEF AccessInv, SweepOK, SetRolePermissions
<1> QED
  BY <1>1, <1>2, <1>3, <1>4, <1>5, <1>6 DEF AccessInv

\* Only active members get roles, and only active roles are given.
LEMMA SetMemberRolesKeeps ==
    ASSUME AccessInv, NEW by \in Member, NEW m \in Member, NEW R \in SUBSET Role,
           SetMemberRoles(by, m, R)
    PROVE  AccessInv'
<1>1. AccessTypeOK'
  BY DEF AccessInv, AccessTypeOK, SetMemberRoles
<1>2. KeepsAdministrator'
  BY DEF AccessInv, KeepsAdministrator, ActiveAdministrators, SetMemberRoles
<1>3. WithinCeiling'
  BY DEF AccessInv, WithinCeiling, SetMemberRoles
<1>4. LinksAreLive'
  BY DEF AccessInv, LinksAreLive, permissionReferenced, Live, SetMemberRoles, ensureMembership,
         ensureRolesAssignable
<1>5. RoleTxOK'
  BY DEF AccessInv, RoleTxOK, SetMemberRoles
<1>6. SweepOK'
  BY DEF AccessInv, SweepOK, SetMemberRoles
<1> QED
  BY <1>1, <1>2, <1>3, <1>4, <1>5, <1>6 DEF AccessInv

\* UpdateRole and DeleteRole, up to their check: the caller holds what the role has.
LEMMA CheckRoleKeeps ==
    ASSUME AccessInv, NEW by \in Member, NEW r \in Role, NEW op \in {"update", "delete"},
           CheckRole(by, r, op)
    PROVE  AccessInv'
<1>1. AccessTypeOK'
  <2>1. effectivePermissionIDs(by) \in SUBSET Permission
    BY DEF AccessInv, AccessTypeOK, effectivePermissionIDs
  <2>2. roleTx' \in RoleTx
    BY <2>1 DEF CheckRole, RoleTx
  <2> QED
    BY <2>2 DEF AccessInv, AccessTypeOK, CheckRole, access
<1>2. KeepsAdministrator'
  BY DEF AccessInv, KeepsAdministrator, ActiveAdministrators, CheckRole, access
<1>3. WithinCeiling'
  BY DEF AccessInv, WithinCeiling, CheckRole, access
<1>4. LinksAreLive'
  BY DEF AccessInv, LinksAreLive, permissionReferenced, CheckRole, access
<1>5. RoleTxOK'
  BY AssignableFacts DEF AccessInv, RoleTxOK, Live, CheckRole, access, ensureRoleAssignable
<1>6. SweepOK'
  BY DEF AccessInv, SweepOK, CheckRole, access
<1> QED
  BY <1>1, <1>2, <1>3, <1>4, <1>5, <1>6 DEF AccessInv

\* The write of UpdateRole.
LEMMA UpdateRoleKeeps ==
    ASSUME AccessInv, NEW status \in {"active", "disabled"}, UpdateRole(status)
    PROVE  AccessInv'
<1>1. AccessTypeOK'
  BY DEF AccessInv, AccessTypeOK, Row, RoleTx, NoRoleTx, UpdateRole
<1>2. KeepsAdministrator'
  BY DEF AccessInv, KeepsAdministrator, ActiveAdministrators, UpdateRole
<1>3. WithinCeiling'
  BY DEF AccessInv, WithinCeiling, UpdateRole
<1>4. LinksAreLive'
  BY DEF AccessInv, LinksAreLive, permissionReferenced, Live, UpdateRole
<1>5. RoleTxOK'
  BY DEF AccessInv, RoleTxOK, NoRoleTx, UpdateRole
<1>6. SweepOK'
  BY DEF AccessInv, SweepOK, UpdateRole
<1> QED
  BY <1>1, <1>2, <1>3, <1>4, <1>5, <1>6 DEF AccessInv

\* The role goes with its links.
LEMMA DeleteRoleKeeps ==
    ASSUME AccessInv, DeleteRole
    PROVE  AccessInv'
<1>1. AccessTypeOK'
  BY DEF AccessInv, AccessTypeOK, Row, RoleTx, NoRoleTx, DeleteRole
<1>2. KeepsAdministrator'
  BY DEF AccessInv, KeepsAdministrator, ActiveAdministrators, DeleteRole
<1>3. WithinCeiling'
  BY DEF AccessInv, WithinCeiling, DeleteRole
<1>4. LinksAreLive'
  BY DEF AccessInv, AccessTypeOK, LinksAreLive, permissionReferenced, DeleteRole
<1>5. RoleTxOK'
  BY DEF AccessInv, RoleTxOK, NoRoleTx, DeleteRole
<1>6. SweepOK'
  BY DEF AccessInv, SweepOK, DeleteRole
<1> QED
  BY <1>1, <1>2, <1>3, <1>4, <1>5, <1>6 DEF AccessInv

\* A rollback of either.
LEMMA RoleTxFailsKeeps ==
    ASSUME AccessInv, RoleTxFails
    PROVE  AccessInv'
<1>1. AccessTypeOK'
  BY DEF AccessInv, AccessTypeOK, RoleTx, NoRoleTx, RoleTxFails, access
<1>2. KeepsAdministrator'
  BY DEF AccessInv, KeepsAdministrator, ActiveAdministrators, RoleTxFails, access
<1>3. WithinCeiling'
  BY DEF AccessInv, WithinCeiling, RoleTxFails, access
<1>4. LinksAreLive'
  BY DEF AccessInv, LinksAreLive, permissionReferenced, RoleTxFails, access
<1>5. RoleTxOK'
  BY DEF AccessInv, RoleTxOK, NoRoleTx, RoleTxFails
<1>6. SweepOK'
  BY DEF AccessInv, SweepOK, RoleTxFails, access
<1> QED
  BY <1>1, <1>2, <1>3, <1>4, <1>5, <1>6 DEF AccessInv

\* A change of the catalog deletes no node.
LEMMA CatalogChangesKeeps ==
    ASSUME AccessInv, NEW p \in Permission, NEW status \in Node \ {"deleted"}, CatalogChanges(p,
           status)
    PROVE  AccessInv'
<1>1. AccessTypeOK'
  BY DEF AccessInv, AccessTypeOK, CatalogChanges
<1>2. KeepsAdministrator'
  BY DEF AccessInv, KeepsAdministrator, ActiveAdministrators, CatalogChanges
<1>3. WithinCeiling'
  BY DEF AccessInv, WithinCeiling, CatalogChanges
<1>4. LinksAreLive'
  BY DEF AccessInv, LinksAreLive, permissionReferenced, CatalogChanges
<1>5. RoleTxOK'
  BY DEF AccessInv, RoleTxOK, CatalogChanges
<1>6. SweepOK'
  BY DEF AccessInv, SweepOK, CatalogChanges
<1> QED
  BY <1>1, <1>2, <1>3, <1>4, <1>5, <1>6 DEF AccessInv

\* A node is deleted only when nothing refers to it.
LEMMA DeleteNodeKeeps ==
    ASSUME AccessInv, NEW p \in Permission, DeleteNode(p)
    PROVE  AccessInv'
<1>1. AccessTypeOK'
  BY DEF AccessInv, AccessTypeOK, Node, DeleteNode
<1>2. KeepsAdministrator'
  BY DEF AccessInv, KeepsAdministrator, ActiveAdministrators, DeleteNode
<1>3. WithinCeiling'
  BY DEF AccessInv, WithinCeiling, DeleteNode
<1>4. LinksAreLive'
  BY DEF AccessInv, LinksAreLive, permissionReferenced, DeleteNode
<1>5. RoleTxOK'
  BY DEF AccessInv, RoleTxOK, DeleteNode
<1>6. SweepOK'
  BY DEF AccessInv, SweepOK, DeleteNode
<1> QED
  BY <1>1, <1>2, <1>3, <1>4, <1>5, <1>6 DEF AccessInv
-----------------------------------------------------------------------------

\* There is no tenant yet.
LEMMA AccessInitial == AccessInit => AccessInv
  BY DEF AccessInit, AccessInv, AccessTypeOK, Row, Node, RoleTx, Sweep, NoRoleTx, NoSweep,
         KeepsAdministrator, Live, WithinCeiling, LinksAreLive, permissionReferenced, RoleTxOK,
         SweepOK

\* One step of any member, of the platform or of the catalog.
LEMMA AccessStep == AccessInv /\ [AccessNext]_accessVars => AccessInv'
<1> SUFFICES ASSUME AccessInv, [AccessNext]_accessVars PROVE AccessInv'
  OBVIOUS
<1>1. ASSUME NEW m \in Member, Create(m) \/ AddFinds(m) \/ Add(m) \/ Remove(m) PROVE AccessInv'
  BY <1>1, CreateKeeps, AddFindsKeeps, AddKeeps, RemoveKeeps
<1>2. ASSUME NEW status \in {"active", "disabled"},
             Update(status) \/ UpdateRole(status) \/ \E m \in Member : UpdateStatus(m, status)
      PROVE  AccessInv'
  BY <1>2, UpdateKeeps, UpdateRoleKeeps, UpdateStatusKeeps
<1>3. CASE deleteTenantRows \/ deleteTenant \/ deleteTenantFails
  BY <1>3, deleteTenantRowsKeeps, deleteTenantKeeps, deleteTenantFailsKeeps
<1>4. ASSUME NEW by \in Member \cup {"platform"}, NEW m \in Member, NEW enabled \in BOOLEAN,
             SetAdministrator(by, m, enabled)
      PROVE  AccessInv'
  BY <1>4, SetAdministratorKeeps
<1>5. ASSUME NEW P \in SUBSET Permission, SetTenantPermissions(P) PROVE AccessInv'
  BY <1>5, SetTenantPermissionsKeeps
<1>6. ASSUME NEW by \in Member, NEW r \in Role, NEW P \in SUBSET Permission,
             CreateRole(by, r, P) \/ SetRolePermissions(by, r, P)
      PROVE  AccessInv'
  BY <1>6, CreateRoleKeeps, SetRolePermissionsKeeps
<1>7. ASSUME NEW by \in Member, NEW m \in Member, NEW R \in SUBSET Role, SetMemberRoles(by, m, R)
      PROVE  AccessInv'
  BY <1>7, SetMemberRolesKeeps
<1>8. ASSUME NEW by \in Member, NEW r \in Role, NEW op \in {"update", "delete"}, CheckRole(by, r, op)
      PROVE  AccessInv'
  BY <1>8, CheckRoleKeeps
<1>9. CASE DeleteRole \/ RoleTxFails
  BY <1>9, DeleteRoleKeeps, RoleTxFailsKeeps
<1>10. ASSUME NEW p \in Permission,
              DeleteNode(p) \/ \E status \in Node \ {"deleted"} : CatalogChanges(p, status)
       PROVE  AccessInv'
  BY <1>10, DeleteNodeKeeps, CatalogChangesKeeps
<1>11. CASE UNCHANGED accessVars
  BY <1>11
     DEF accessVars, AccessInv, AccessTypeOK, KeepsAdministrator, ActiveAdministrators,
         WithinCeiling, LinksAreLive, permissionReferenced, RoleTxOK, SweepOK
<1> QED
  BY <1>1, <1>2, <1>3, <1>4, <1>5, <1>6, <1>7, <1>8, <1>9, <1>10, <1>11 DEF AccessNext

-----------------------------------------------------------------------------

\* What a member may delegate, one permission at a time.
LEMMA MayDelegate ==
    ASSUME AccessTypeOK, NEW m \in Member, NEW p \in Permission
    PROVE  ensureAssignable(m, {p}) <=>
             /\ tenant = "active" /\ member[m] = "active" /\ p \in grants /\ Grantable(p)
             /\ m \in admin \/ \E r \in Role : /\ role[r] = "active" /\ r \in memberRoles[m]
                                               /\ p \in rolePerms[r]
<1>1. p \in ByRole(m) <=> \E r \in Role : /\ role[r] = "active" /\ r \in memberRoles[m]
                                          /\ p \in rolePerms[r]
  BY DEF ByRole, AccessTypeOK
<1>2. Grantable(p) => ActivePermission(p)
  BY DEF Grantable, ActivePermission
<1> QED
  BY <1>1, <1>2
     DEF ensureAssignable, validateTenantPermissions, mayDelegate, effectivePermissionIDs

\* The management pages (PageAssignablePermissions, RoleGrantTarget, PageRoleAssignmentCandidates), the
\* guard of requests and the writes use different queries and agree in every state.
LEMMA OffersHold == AccessTypeOK => OffersAreAccepted
<1> SUFFICES ASSUME AccessTypeOK, NEW m \in Member
             PROVE  LET may == {p \in Permission : ensureAssignable(m, {p})}
                    IN  /\ AssignablePermissions(m) = may
                        /\ {p \in Permission : hasManagedTenantGrant(m, p)} = may
                        /\ AssignableRoles(m) = {r \in Role : ensureRolesAssignable(m, {r})}
                        /\ \A r \in Role : mayDelegate(m) => RoleGrantTarget(m, r) = rolePerms[r] \cap may
  BY DEF OffersAreAccepted
<1> DEFINE may == {p \in Permission : ensureAssignable(m, {p})}
<1>1. AssignablePermissions(m) = may
  BY MayDelegate DEF AssignablePermissions, mayDelegate
<1>2. {p \in Permission : hasManagedTenantGrant(m, p)} = may
  BY MayDelegate DEF hasManagedTenantGrant, AccessTypeOK
<1>3. ASSUME NEW r \in Role PROVE r \in AssignableRoles(m) <=> ensureRolesAssignable(m, {r})
  <2>1. UNION {rolePerms[x] : x \in {r}} = rolePerms[r]
    OBVIOUS
  <2>2. effectivePermissionIDs(m) \subseteq grants
    BY DEF effectivePermissionIDs
  <2> QED
    BY <2>1, <2>2
       DEF AssignableRoles, ensureRolesAssignable, ensureAssignable, validateTenantPermissions,
           mayDelegate
<1>4. ASSUME NEW r \in Role, mayDelegate(m) PROVE RoleGrantTarget(m, r) = rolePerms[r] \cap may
  <2>1. rolePerms[r] \subseteq Permission
    BY DEF AccessTypeOK
  <2>2. ASSUME NEW p \in rolePerms[r] PROVE p \in RoleGrantTarget(m, r) <=> ensureAssignable(m, {p})
    BY <1>4, <2>1, <2>2
       DEF RoleGrantTarget, ensureAssignable, validateTenantPermissions, effectivePermissionIDs
  <2> QED
    BY <2>1, <2>2 DEF RoleGrantTarget
<1> QED
  BY <1>1, <1>2, <1>3, <1>4 DEF AssignableRoles

\* The invariant holds throughout.
THEOREM AccessInvariance == AccessSpec => []AccessInv
<1> QED
  BY AccessInitial, AccessStep, PTL DEF AccessSpec

\* Rows, links and transactions have their types.
THEOREM AccessTypes == AccessSpec => []AccessTypeOK
<1>1. AccessInv => AccessTypeOK
  BY DEF AccessInv
<1> QED
  BY <1>1, AccessInvariance, PTL

\* A tenant keeps an active administrator, no role exceeds the ceiling, no link outlives what it links
\* while the tenant is there, nothing of a deleted tenant authorizes, and the pages offer what the
\* writes accept (tenant_service.go, tenant/service.go), whatever members, platform, catalog and the
\* UPDATEs of deleteTenant do side by side.
THEOREM AccessSound == AccessSpec => []AccessIsSound
<1>1. AccessInv => AccessIsSound
  BY OffersHold DEF AccessInv, AccessIsSound
<1> QED
  BY <1>1, AccessInvariance, PTL

-----------------------------------------------------------------------------

\* While ceiling, catalog and administrators stay, whoever gains a permission gains it by a role.
LEMMA GainIsOfRole ==
    ASSUME AccessTypeOK, AccessTypeOK', NEW m \in Member, NEW p \in Gained(m),
           grants' = grants, node' = node, admin' = admin
    PROVE  \E r \in Role : /\ r \in memberRoles'[m] /\ role'[r] = "active" /\ p \in rolePerms'[r]
                           /\ ~(r \in memberRoles[m] /\ role[r] = "active" /\ p \in rolePerms[r])
<1>1. p \in effectivePermissionIDs(m)' /\ p \notin effectivePermissionIDs(m)
  BY DEF Gained
<1>2. p \in grants /\ ActivePermission(p) /\ m \notin admin /\ p \in ByRole(m)' /\ p \notin ByRole(m)
  BY <1>1 DEF effectivePermissionIDs, ActivePermission
<1>3. PICK r \in memberRoles'[m] : role'[r] = "active" /\ p \in rolePerms'[r]
  BY <1>2 DEF ByRole
<1>4. ~(r \in memberRoles[m] /\ role[r] = "active" /\ p \in rolePerms[r])
  BY <1>2 DEF ByRole
<1>5. r \in Role
  BY <1>3 DEF AccessTypeOK
<1> QED
  BY <1>3, <1>4, <1>5

\* CreateRole and SetRolePermissions give what their caller holds.
LEMMA RoleGives ==
    ASSUME AccessInv, AccessInv', NEW by \in Member, NEW r \in Role, NEW P \in SUBSET Permission,
           CreateRole(by, r, P) \/ SetRolePermissions(by, r, P), NEW m \in Member
    PROVE  Gained(m) \subseteq effectivePermissionIDs(by)
<1> SUFFICES ASSUME NEW p \in Gained(m) PROVE p \in effectivePermissionIDs(by)
  OBVIOUS
<1>1. P \subseteq effectivePermissionIDs(by)
  BY AssignableFacts DEF CreateRole, SetRolePermissions
<1>2. /\ grants' = grants /\ node' = node /\ admin' = admin /\ memberRoles' = memberRoles
      /\ rolePerms' = [rolePerms EXCEPT ![r] = P]
      /\ role' = role \/ role' = [role EXCEPT ![r] = "active"]
  BY DEF CreateRole, SetRolePermissions
<1>3. PICK x \in Role : /\ x \in memberRoles'[m] /\ role'[x] = "active" /\ p \in rolePerms'[x]
                        /\ ~(x \in memberRoles[m] /\ role[x] = "active" /\ p \in rolePerms[x])
  BY <1>2, GainIsOfRole DEF AccessInv
<1>4. x = r
  BY <1>2, <1>3 DEF AccessInv, AccessTypeOK
<1> QED
  BY <1>1, <1>2, <1>3, <1>4 DEF AccessInv, AccessTypeOK

\* So does SetMemberRoles.
LEMMA AssignmentGives ==
    ASSUME AccessInv, AccessInv', NEW by \in Member, NEW k \in Member, NEW R \in SUBSET Role,
           SetMemberRoles(by, k, R), NEW m \in Member
    PROVE  Gained(m) \subseteq effectivePermissionIDs(by)
<1> SUFFICES ASSUME NEW p \in Gained(m) PROVE p \in effectivePermissionIDs(by)
  OBVIOUS
<1>1. UNION {rolePerms[r] : r \in R} \subseteq effectivePermissionIDs(by)
  BY AssignableFacts DEF SetMemberRoles, ensureRolesAssignable
<1>2. /\ grants' = grants /\ node' = node /\ admin' = admin /\ role' = role /\ rolePerms' = rolePerms
      /\ memberRoles' = [memberRoles EXCEPT ![k] = R]
  BY DEF SetMemberRoles
<1>3. PICK x \in Role : /\ x \in memberRoles'[m] /\ role'[x] = "active" /\ p \in rolePerms'[x]
                        /\ ~(x \in memberRoles[m] /\ role[x] = "active" /\ p \in rolePerms[x])
  BY <1>2, GainIsOfRole DEF AccessInv
<1>4. x \in R
  BY <1>2, <1>3 DEF AccessInv, AccessTypeOK
<1> QED
  BY <1>1, <1>2, <1>3, <1>4

\* UpdateRole, by enabling a role, gives what its caller held at the check.
LEMMA EnablingGives ==
    ASSUME AccessInv, AccessInv', UpdateRole("active"), NEW m \in Member
    PROVE  Gained(m) \subseteq roleTx.held
<1> SUFFICES ASSUME NEW p \in Gained(m) PROVE p \in roleTx.held
  OBVIOUS
<1>1. roleTx.role \in Role /\ rolePerms[roleTx.role] \subseteq roleTx.held
  BY DEF AccessInv, RoleTxOK, UpdateRole, RoleUnchanged
<1>2. /\ grants' = grants /\ node' = node /\ admin' = admin /\ rolePerms' = rolePerms
      /\ memberRoles' = memberRoles /\ role' = [role EXCEPT ![roleTx.role] = "active"]
  BY DEF UpdateRole
<1>3. PICK x \in Role : /\ x \in memberRoles'[m] /\ role'[x] = "active" /\ p \in rolePerms'[x]
                        /\ ~(x \in memberRoles[m] /\ role[x] = "active" /\ p \in rolePerms[x])
  BY <1>2, GainIsOfRole DEF AccessInv
<1>4. x = roleTx.role
  BY <1>1, <1>2, <1>3 DEF AccessInv, AccessTypeOK
<1> QED
  BY <1>1, <1>2, <1>3, <1>4

\* A step of CreateRole, SetRolePermissions, SetMemberRoles or UpdateRole gives nobody a permission
\* that its caller did not hold when it was checked.
THEOREM Delegation == AccessSpec => DelegationIsBounded
<1>1. AccessInv /\ AccessInv' => [Bounded]_accessVars
  BY RoleGives, AssignmentGives, EnablingGives DEF Bounded
<1> QED
  BY <1>1, AccessInvariance, PTL DEF DelegationIsBounded

-----------------------------------------------------------------------------
(* The catalog.                                                            *)

\* What a row of permissions may hold: what Create, Update and Seed are given, nothing yet, or the
\* mark of a deletion.
NodeRow == Catalog!Input \cup {Catalog!NoNode, [Catalog!NoNode EXCEPT !.state = "deleted"]}

\* The types of the catalog; grants and tenant references are sets of pairs and nodes whose type
\* plays no part.
CatalogTypeOK ==
    /\ action \in [Catalog!Action -> Catalog!RowState]
    /\ resource \in [Catalog!Action -> [state : Catalog!RowState, scope : {"platform", "tenant"}]]
    /\ build \in Nat
    /\ perm \in [Catalog!AnyNode -> NodeRow]
    /\ link \subseteq Catalog!AnyNode \X Catalog!Action
    /\ rescoped \in BOOLEAN

\* A live link joins a permission and an action that exist, under a resource that exists.
LinksAreReal ==
    \A n \in Catalog!AnyNode, a \in Catalog!Action : <<n, a>> \in link =>
      /\ Catalog!Kept(perm[n].state) /\ perm[n].type = "permission"
      /\ Catalog!Kept(action[a]) /\ Catalog!Kept(resource[a].state)

\* A permission is linked to the action it is named for.
PrimaryIsLinked ==
    \A n \in Catalog!AnyNode : Catalog!Kept(perm[n].state) /\ perm[n].type = "permission"
    => <<n, perm[n].primary>> \in link

\* What a grant or a role names exists.
ReferencedExist == \A n \in Catalog!AnyNode : Catalog!permissionReferenced(n) => Catalog!Kept(perm[n].state)

\* The permissions of the deployment manifest have no link but their own: SetActions refuses them.
SeedHasOneLink == \A n \in SeedNode, a \in Catalog!Action : <<n, a>> \in link => a = perm[n].primary

\* OneScope, with the pairs of links spelled out.
LinksShareScope ==
    ~rescoped => \A n \in Catalog!AnyNode, a, b \in Catalog!Action :
                    <<n, a>> \in link /\ <<n, b>> \in link => resource[a].scope = resource[b].scope

\* The first half of CatalogFollowsNewestBuild.
NewestIsServed == build # 0 => \A a \in CodeAction : Catalog!Usable(a) <=> a \in Defined[build]

\* The inductive invariant: the properties, with what Seed relies on.
CatalogInv ==
    /\ CatalogTypeOK /\ LinksAreReal /\ PrimaryIsLinked /\ ReferencedExist /\ SeedHasOneLink
       /\ LinksShareScope
    /\ Catalog!PermissionsAreForest /\ NewestIsServed

\* The properties follow.
LEMMA CatalogSound == CatalogInv => CatalogIsSound
  <1> SUFFICES ASSUME CatalogInv PROVE CatalogIsSound
    OBVIOUS
  <1>1. ASSUME NEW x \in link
        PROVE  \E n \in Catalog!AnyNode, a \in Catalog!Action : x = <<n, a>> /\ x[1] = n /\ x[2] = a
    BY DEF CatalogInv, CatalogTypeOK
  <1>2. \A x \in link : /\ Catalog!Kept(perm[x[1]].state) /\ perm[x[1]].type = "permission"
                        /\ Catalog!Kept(action[x[2]]) /\ Catalog!Kept(resource[x[2]].state)
    BY <1>1 DEF CatalogInv, LinksAreReal
  <1>3. Catalog!CatalogIsSound
    BY <1>2 DEF Catalog!CatalogIsSound, CatalogInv, PrimaryIsLinked, ReferencedExist
  <1>4. Catalog!OneScope
    BY <1>1 DEF Catalog!OneScope, CatalogInv, LinksShareScope
  <1> QED
    BY <1>3, <1>4 DEF CatalogInv, CatalogIsSound

\* An empty catalog.
LEMMA CatalogBegin == Catalog!Init => CatalogInv
  <1> SUFFICES ASSUME Catalog!Init PROVE CatalogInv
    OBVIOUS
  <1>1. CatalogTypeOK
    BY DEF Catalog!Init, CatalogTypeOK, NodeRow, Catalog!RowState
  <1>2. \A n \in Catalog!AnyNode : ~Catalog!Kept(perm[n].state)
    BY DEF Catalog!Init, Catalog!Kept, Catalog!NoNode
  <1>3. Catalog!PermissionsAreForest
    BY <1>2 DEF Catalog!PermissionsAreForest
  <1> QED
    BY <1>1, <1>2, <1>3
       DEF Catalog!Init, CatalogInv, LinksAreReal, PrimaryIsLinked, ReferencedExist,
           SeedHasOneLink, LinksShareScope, NewestIsServed, Catalog!permissionReferenced

\* A write to one manual action or to its resource, which leaves both in place as long as a
\* permission is linked to the action.
LEMMA RowChanges ==
  ASSUME CatalogInv, NEW a \in ManualAction,
         action' \in [Catalog!Action -> Catalog!RowState],
         resource' \in [Catalog!Action -> [state : Catalog!RowState, scope : {"platform", "tenant"}]],
         \A b \in Catalog!Action \ {a} : action'[b] = action[b] /\ resource'[b] = resource[b],
         \A n \in Catalog!AnyNode : <<n, a>> \in link =>
            /\ Catalog!Kept(action'[a]) /\ Catalog!Kept(resource'[a].state)
               /\ resource'[a].scope = resource[a].scope,
         UNCHANGED <<build, perm, link, platformGrant, tenantRef, rescoped>>
  PROVE  CatalogInv'
  <1>1. CatalogTypeOK'
    BY DEF CatalogInv, CatalogTypeOK
  <1>2. LinksAreReal'
    BY DEF CatalogInv, LinksAreReal
  <1>3. PrimaryIsLinked' /\ SeedHasOneLink'
    BY DEF CatalogInv, PrimaryIsLinked, SeedHasOneLink
  <1>4. ReferencedExist'
    BY DEF CatalogInv, ReferencedExist, Catalog!permissionReferenced
  <1>5. LinksShareScope'
    BY DEF CatalogInv, LinksShareScope
  <1>6. Catalog!PermissionsAreForest'
    BY DEF CatalogInv, Catalog!PermissionsAreForest
  <1>7. NewestIsServed'
    <2>1. \A b \in CodeAction : action'[b] = action[b] /\ resource'[b] = resource[b]
      BY CatalogAssumption DEF Catalog!Action
    <2> QED
      BY <2>1 DEF CatalogInv, NewestIsServed, Catalog!Usable
  <1> QED
    BY <1>1, <1>2, <1>3, <1>4, <1>5, <1>6, <1>7 DEF CatalogInv

\* A manual resource is created, or created again: nothing is linked to the actions of one that is
\* not there.
LEMMA CreateResourceKeeps ==
  ASSUME CatalogInv, NEW a \in Catalog!Action, NEW scope \in {"platform", "tenant"},
         Catalog!CreateResource(a, scope)
  PROVE  CatalogInv'
  <1>1. a \in ManualAction /\ a \in Catalog!Action
    BY DEF Catalog!CreateResource
  <1>2. action' \in [Catalog!Action -> Catalog!RowState]
    BY DEF Catalog!CreateResource, CatalogInv, CatalogTypeOK
  <1>3. resource' \in [Catalog!Action -> [state : Catalog!RowState, scope : {"platform", "tenant"}]]
    BY DEF Catalog!CreateResource, CatalogInv, CatalogTypeOK, Catalog!RowState
  <1>4. \A b \in Catalog!Action \ {a} : action'[b] = action[b] /\ resource'[b] = resource[b]
    BY DEF Catalog!CreateResource
  <1>5. \A n \in Catalog!AnyNode : <<n, a>> \in link =>
           /\ Catalog!Kept(action'[a]) /\ Catalog!Kept(resource'[a].state)
              /\ resource'[a].scope = resource[a].scope
    BY DEF Catalog!CreateResource, CatalogInv, LinksAreReal
  <1>6. UNCHANGED <<build, perm, link, platformGrant, tenantRef, rescoped>>
    BY DEF Catalog!CreateResource
  <1> QED
    BY <1>1, <1>2, <1>3, <1>4, <1>5, <1>6, RowChanges

\* Disabling a resource deletes nothing.
LEMMA UpdateResourceKeeps ==
  ASSUME CatalogInv, NEW a \in Catalog!Action, NEW state \in {"active", "disabled"},
         Catalog!UpdateResource(a, state)
  PROVE  CatalogInv'
  <1>1. a \in ManualAction /\ a \in Catalog!Action
    BY DEF Catalog!UpdateResource
  <1>2. action' \in [Catalog!Action -> Catalog!RowState]
    BY DEF Catalog!UpdateResource, CatalogInv, CatalogTypeOK
  <1>3. resource' \in [Catalog!Action -> [state : Catalog!RowState, scope : {"platform", "tenant"}]]
    BY DEF Catalog!UpdateResource, CatalogInv, CatalogTypeOK, Catalog!RowState
  <1>4. \A b \in Catalog!Action \ {a} : action'[b] = action[b] /\ resource'[b] = resource[b]
    BY DEF Catalog!UpdateResource
  <1>5. \A n \in Catalog!AnyNode : <<n, a>> \in link =>
           /\ Catalog!Kept(action'[a]) /\ Catalog!Kept(resource'[a].state)
              /\ resource'[a].scope = resource[a].scope
    BY DEF Catalog!UpdateResource, CatalogInv, LinksAreReal, Catalog!Kept
  <1>6. UNCHANGED <<build, perm, link, platformGrant, tenantRef, rescoped>>
    BY DEF Catalog!UpdateResource
  <1> QED
    BY <1>1, <1>2, <1>3, <1>4, <1>5, <1>6, RowChanges

\* Refused while the resource has actions.
LEMMA DeleteResourceKeeps ==
  ASSUME CatalogInv, NEW a \in Catalog!Action, Catalog!DeleteResource(a)
  PROVE  CatalogInv'
  <1>1. a \in ManualAction /\ a \in Catalog!Action
    BY DEF Catalog!DeleteResource
  <1>2. action' \in [Catalog!Action -> Catalog!RowState]
    BY DEF Catalog!DeleteResource, CatalogInv, CatalogTypeOK
  <1>3. resource' \in [Catalog!Action -> [state : Catalog!RowState, scope : {"platform", "tenant"}]]
    BY DEF Catalog!DeleteResource, CatalogInv, CatalogTypeOK, Catalog!RowState
  <1>4. \A b \in Catalog!Action \ {a} : action'[b] = action[b] /\ resource'[b] = resource[b]
    BY DEF Catalog!DeleteResource
  <1>5. \A n \in Catalog!AnyNode : <<n, a>> \in link =>
           /\ Catalog!Kept(action'[a]) /\ Catalog!Kept(resource'[a].state)
              /\ resource'[a].scope = resource[a].scope
    BY DEF Catalog!DeleteResource, CatalogInv, LinksAreReal
  <1>6. UNCHANGED <<build, perm, link, platformGrant, tenantRef, rescoped>>
    BY DEF Catalog!DeleteResource
  <1> QED
    BY <1>1, <1>2, <1>3, <1>4, <1>5, <1>6, RowChanges

\* A new action is linked to nothing.
LEMMA CreateActionKeeps ==
  ASSUME CatalogInv, NEW a \in Catalog!Action, Catalog!CreateAction(a)
  PROVE  CatalogInv'
  <1>1. a \in ManualAction /\ a \in Catalog!Action
    BY DEF Catalog!CreateAction
  <1>2. action' \in [Catalog!Action -> Catalog!RowState]
    BY DEF Catalog!CreateAction, CatalogInv, CatalogTypeOK
  <1>3. resource' \in [Catalog!Action -> [state : Catalog!RowState, scope : {"platform", "tenant"}]]
    BY DEF Catalog!CreateAction, CatalogInv, CatalogTypeOK
  <1>4. \A b \in Catalog!Action \ {a} : action'[b] = action[b] /\ resource'[b] = resource[b]
    BY DEF Catalog!CreateAction
  <1>5. \A n \in Catalog!AnyNode : <<n, a>> \in link =>
           /\ Catalog!Kept(action'[a]) /\ Catalog!Kept(resource'[a].state)
              /\ resource'[a].scope = resource[a].scope
    BY DEF Catalog!CreateAction, CatalogInv, LinksAreReal
  <1>6. UNCHANGED <<build, perm, link, platformGrant, tenantRef, rescoped>>
    BY DEF Catalog!CreateAction
  <1> QED
    BY <1>1, <1>2, <1>3, <1>4, <1>5, <1>6, RowChanges

\* Disabling an action deletes nothing.
LEMMA UpdateActionKeeps ==
  ASSUME CatalogInv, NEW a \in Catalog!Action, NEW state \in {"active", "disabled"},
         Catalog!UpdateAction(a, state)
  PROVE  CatalogInv'
  <1>1. a \in ManualAction /\ a \in Catalog!Action
    BY DEF Catalog!UpdateAction
  <1>2. action' \in [Catalog!Action -> Catalog!RowState]
    BY DEF Catalog!UpdateAction, CatalogInv, CatalogTypeOK, Catalog!RowState
  <1>3. resource' \in [Catalog!Action -> [state : Catalog!RowState, scope : {"platform", "tenant"}]]
    BY DEF Catalog!UpdateAction, CatalogInv, CatalogTypeOK
  <1>4. \A b \in Catalog!Action \ {a} : action'[b] = action[b] /\ resource'[b] = resource[b]
    BY DEF Catalog!UpdateAction
  <1>5. \A n \in Catalog!AnyNode : <<n, a>> \in link =>
           /\ Catalog!Kept(action'[a]) /\ Catalog!Kept(resource'[a].state)
              /\ resource'[a].scope = resource[a].scope
    BY DEF Catalog!UpdateAction, Catalog!Kept
  <1>6. UNCHANGED <<build, perm, link, platformGrant, tenantRef, rescoped>>
    BY DEF Catalog!UpdateAction
  <1> QED
    BY <1>1, <1>2, <1>3, <1>4, <1>5, <1>6, RowChanges

\* Refused while a permission is linked to the action.
LEMMA DeleteActionKeeps ==
  ASSUME CatalogInv, NEW a \in Catalog!Action, Catalog!DeleteAction(a)
  PROVE  CatalogInv'
  <1>1. a \in ManualAction /\ a \in Catalog!Action
    BY DEF Catalog!DeleteAction
  <1>2. action' \in [Catalog!Action -> Catalog!RowState]
    BY DEF Catalog!DeleteAction, CatalogInv, CatalogTypeOK, Catalog!RowState
  <1>3. resource' \in [Catalog!Action -> [state : Catalog!RowState, scope : {"platform", "tenant"}]]
    BY DEF Catalog!DeleteAction, CatalogInv, CatalogTypeOK
  <1>4. \A b \in Catalog!Action \ {a} : action'[b] = action[b] /\ resource'[b] = resource[b]
    BY DEF Catalog!DeleteAction
  <1>5. \A n \in Catalog!AnyNode : <<n, a>> \in link =>
           /\ Catalog!Kept(action'[a]) /\ Catalog!Kept(resource'[a].state)
              /\ resource'[a].scope = resource[a].scope
    BY DEF Catalog!DeleteAction
  <1>6. UNCHANGED <<build, perm, link, platformGrant, tenantRef, rescoped>>
    BY DEF Catalog!DeleteAction
  <1> QED
    BY <1>1, <1>2, <1>3, <1>4, <1>5, <1>6, RowChanges

\* The start of a build: its actions are upserted, those it lacks are disabled and never deleted,
\* and an older build is refused (checkBuild).
LEMMA SyncKeeps ==
  ASSUME CatalogInv, NEW b \in CatalogBuild, Catalog!Sync(b)
  PROVE  CatalogInv' /\ build' >= build
  <1>1. build' = b /\ b \in Nat /\ b >= build /\ UNCHANGED <<perm, link, platformGrant, tenantRef>>
    BY CatalogAssumption DEF Catalog!Sync, Catalog!checkBuild
  <1>2. \A a \in CodeAction : action'[a] = Catalog!syncAction(b, a)
        /\ resource'[a] = Catalog!syncResource(b, a)
    BY DEF Catalog!Sync, Catalog!Action
  <1>11. \A a \in CodeAction : a \in Defined[b] => resource'[a].state = "active"
                                 /\ resource'[a] \in [state : Catalog!RowState,
                                    scope : {"platform", "tenant"}]
    <2>1. SUFFICES ASSUME NEW a \in CodeAction, a \in Defined[b]
                   PROVE  resource'[a].state = "active"
                          /\ resource'[a] \in [state : Catalog!RowState, scope : {"platform", "tenant"}]
      OBVIOUS
    <2>2. PICK scope \in {"platform", "tenant"} : resource'[a] = [state |-> "active", scope |-> scope]
      BY <1>2, <2>1 DEF Catalog!syncResource
    <2> QED
      BY <2>2 DEF Catalog!RowState
  <1>12. \A a \in CodeAction : a \notin Defined[b] =>
           \E s \in Catalog!RowState : /\ resource'[a] = [resource[a] EXCEPT !.state = s]
                                       /\ Catalog!Kept(resource[a].state) => Catalog!Kept(s)
    <2>1. SUFFICES ASSUME NEW a \in CodeAction, a \notin Defined[b]
                   PROVE  \E s \in Catalog!RowState : /\ resource'[a] = [resource[a] EXCEPT !.state = s]
                                                      /\ Catalog!Kept(resource[a].state) => Catalog!Kept(s)
      OBVIOUS
    <2>2. PICK s : s = IF Catalog!Kept(resource[a].state) THEN "disabled" ELSE resource[a].state
      OBVIOUS
    <2>3. resource'[a] = [resource[a] EXCEPT !.state = s]
      BY <1>2, <2>1, <2>2 DEF Catalog!syncResource
    <2>4. resource[a].state \in Catalog!RowState
      BY DEF CatalogInv, CatalogTypeOK, Catalog!Action
    <2> QED
      BY <2>2, <2>3, <2>4 DEF Catalog!RowState, Catalog!Kept
  <1>3. \A a \in Catalog!Action \ CodeAction : action'[a] = action[a] /\ resource'[a] = resource[a]
    BY DEF Catalog!Sync
  <1>4. CatalogTypeOK'
    <2>1. \A a \in Catalog!Action : action'[a] \in Catalog!RowState
      BY <1>2, <1>3 DEF CatalogInv, CatalogTypeOK, Catalog!syncAction, Catalog!RowState
    <2>2. \A a \in Catalog!Action : resource'[a] \in [state : Catalog!RowState,
          scope : {"platform", "tenant"}]
      <3>1. TAKE a \in Catalog!Action
      <3>2. resource[a] \in [state : Catalog!RowState, scope : {"platform", "tenant"}]
        BY DEF CatalogInv, CatalogTypeOK
      <3>3. CASE a \in CodeAction
        <4>1. CASE a \notin Defined[b]
          <5>1. PICK s \in Catalog!RowState : resource'[a] = [resource[a] EXCEPT !.state = s]
            BY <1>12, <3>3, <4>1
          <5> QED
            BY <3>2, <5>1
        <4> QED
          BY <1>11, <3>3, <4>1
      <3> QED
        BY <1>3, <3>2, <3>3
    <2>3. action' \in [Catalog!Action -> Catalog!RowState]
      BY <2>1 DEF Catalog!Sync
    <2>4. resource' \in [Catalog!Action -> [state : Catalog!RowState, scope : {"platform", "tenant"}]]
      BY <2>2 DEF Catalog!Sync
    <2>5. rescoped' \in BOOLEAN
      BY DEF Catalog!Sync
    <2> QED
      BY <1>1, <2>3, <2>4, <2>5 DEF CatalogInv, CatalogTypeOK
  <1>5. \A a \in Catalog!Action : /\ Catalog!Kept(action[a]) => Catalog!Kept(action'[a])
                                  /\ Catalog!Kept(resource[a].state) => Catalog!Kept(resource'[a].state)
    <2>1. TAKE a \in Catalog!Action
    <2>2. resource[a] \in [state : Catalog!RowState, scope : {"platform", "tenant"}]
      BY DEF CatalogInv, CatalogTypeOK
    <2>3. CASE a \in CodeAction
      <3>1. Catalog!Kept(action[a]) => Catalog!Kept(action'[a])
        BY <1>2, <2>3 DEF Catalog!syncAction, Catalog!Kept
      <3>2. CASE a \in Defined[b]
        BY <1>11, <2>3, <3>1, <3>2 DEF Catalog!Kept
      <3>3. CASE a \notin Defined[b]
        <4>1. PICK s \in Catalog!RowState : /\ resource'[a] = [resource[a] EXCEPT !.state = s]
                                            /\ Catalog!Kept(resource[a].state) => Catalog!Kept(s)
          BY <1>12, <2>3, <3>3
        <4>2. resource'[a].state = s
          BY <4>1
        <4> QED
          BY <3>1, <4>1
      <3> QED
        BY <3>2, <3>3
    <2> QED
      BY <1>3, <2>3
  <1>6. LinksAreReal'
    BY <1>1, <1>5 DEF CatalogInv, LinksAreReal
  <1>7. PrimaryIsLinked' /\ SeedHasOneLink' /\ ReferencedExist'
    BY <1>1
       DEF CatalogInv, PrimaryIsLinked, SeedHasOneLink, ReferencedExist,
           Catalog!permissionReferenced
  <1>8. LinksShareScope'
    <2>1. SUFFICES ASSUME ~rescoped', NEW n \in Catalog!AnyNode, NEW x \in Catalog!Action,
                          NEW y \in Catalog!Action,
                          <<n, x>> \in link, <<n, y>> \in link
                   PROVE  resource'[x].scope = resource'[y].scope
      BY <1>1 DEF LinksShareScope
    <2>2. \A a \in CodeAction : resource[a].state # "absent" => resource'[a].scope = resource[a].scope
      BY <2>1 DEF Catalog!Sync
    <2>3. ~rescoped
      BY <2>1 DEF Catalog!Sync
    <2>4. resource[x].state # "absent" /\ resource[y].state # "absent"
      BY <2>1 DEF CatalogInv, LinksAreReal, Catalog!Kept
    <2>5. resource'[x].scope = resource[x].scope /\ resource'[y].scope = resource[y].scope
      BY <1>3, <2>2, <2>4
    <2> QED
      BY <2>1, <2>3, <2>5 DEF CatalogInv, LinksShareScope
  <1>9. Catalog!PermissionsAreForest'
    BY <1>1 DEF CatalogInv, Catalog!PermissionsAreForest
  <1>10. NewestIsServed'
    <2>1. SUFFICES ASSUME NEW a \in CodeAction
                   PROVE  action'[a] = "active" /\ resource'[a].state = "active" <=> a \in Defined[b]
      BY <1>1 DEF NewestIsServed, Catalog!Usable
    <2>2. CASE a \in Defined[b]
      BY <1>2, <1>11, <2>2 DEF Catalog!syncAction
    <2>3. CASE a \notin Defined[b]
      BY <1>2, <2>3 DEF Catalog!syncAction, Catalog!Kept
    <2> QED
      BY <2>2, <2>3
  <1> QED
    BY <1>1, <1>4, <1>6, <1>7, <1>8, <1>9, <1>10 DEF CatalogInv

\* The inputs of Create, Update and Seed are rows.
LEMMA InputRows ==
  ASSUME NEW i \in Catalog!Input
  PROVE  /\ i \in NodeRow /\ i.state \in {"active", "disabled"} /\ Catalog!Kept(i.state)
         /\ i.parent \in Catalog!AnyNode \cup {"root"}
         /\ (i.type = "group" /\ i.primary = "none") \/ (i.type = "permission"
            /\ i.primary \in Catalog!Action)
  <1>1. \/ i \in [state : {"active", "disabled"}, type : {"group"},
           parent : Catalog!AnyNode \cup {"root"}, primary : {"none"}]
        \/ i \in [state : {"active", "disabled"}, type : {"permission"},
           parent : Catalog!AnyNode \cup {"root"},
                  primary : Catalog!Action]
    BY DEF Catalog!Input
  <1> QED
    BY <1>1 DEF NodeRow, Catalog!Kept

\* validateTreeTx walks up from the new parent and refuses a walk that meets the node: what is
\* below it stays below it.
LEMMA ForestKept ==
  ASSUME NEW n \in Catalog!AnyNode, NEW i \in Catalog!Input, perm \in [Catalog!AnyNode -> NodeRow],
         Catalog!validateTreeTx(n, i), perm' = [perm EXCEPT ![n] = i]
  PROVE  Catalog!PermissionsAreForest'
  <1> DEFINE kept == {x \in Catalog!AnyNode : Catalog!Kept(perm[x].state)}
             tree == [x \in kept \cup {n} |-> IF x = n THEN i ELSE perm[x]]
             after == {x \in Catalog!AnyNode : Catalog!Kept(perm'[x].state)}
  <1>1. /\ \A x \in kept \cup {n} : tree[x].parent # "root" =>
              tree[x].parent \in kept \cup {n} /\ tree[tree[x].parent].type = "group"
        /\ \A S \in SUBSET (kept \cup {n}) : S # {} => \E x \in S : tree[x].parent \notin S
    BY DEF Catalog!validateTreeTx
  <1>2. after = kept \cup {n}
    BY InputRows
  <1>3. \A x \in kept \cup {n} : perm'[x] = tree[x]
    OBVIOUS
  <1>4. \A S \in SUBSET after : S # {} => \E x \in S : perm'[x].parent \notin S
    <2> HIDE DEF kept, tree, after
    <2> QED
      BY <1>1, <1>2, <1>3
  <1>5. \A x \in after : perm'[x].parent # "root" => perm'[x].parent \in after
        /\ perm'[perm'[x].parent].type = "group"
    <2> HIDE DEF kept, tree, after
    <2> QED
      BY <1>1, <1>2, <1>3
  <1> QED
    BY <1>4, <1>5 DEF Catalog!PermissionsAreForest

\* A write of one node with its primary link, whatever links of the node were removed before.
LEMMA NodeWritten ==
  ASSUME CatalogInv, NEW n \in Catalog!AnyNode, NEW i \in Catalog!Input, Catalog!validateTreeTx(n, i),
         perm' = [perm EXCEPT ![n] = i],
         NEW L, L \subseteq link, \A m \in Catalog!AnyNode \ {n},
         a \in Catalog!Action : <<m, a>> \in link => <<m, a>> \in L,
         i.type = "group" => \A a \in Catalog!Action : <<n, a>> \notin L,
         link' = Catalog!syncPrimaryLink(n, i, L),
         i.type = "permission" => Catalog!Usable(i.primary) \/ <<n, i.primary>> \in L,
         n \in SeedNode => \A a \in Catalog!Action : <<n, a>> \in L => a = i.primary,
         \A a \in Catalog!Action : <<n, a>> \in L /\ ~rescoped
         => resource[a].scope = resource[i.primary].scope,
         UNCHANGED <<action, resource, build, platformGrant, tenantRef, rescoped>>
  PROVE  CatalogInv'
  <1>1. i \in NodeRow /\ Catalog!Kept(i.state) /\ i.type \in {"group", "permission"}
        /\ (i.type = "permission" => i.primary \in Catalog!Action)
    BY InputRows
  <1>2. perm \in [Catalog!AnyNode -> NodeRow] /\ link \subseteq Catalog!AnyNode \X Catalog!Action
    BY DEF CatalogInv, CatalogTypeOK
  <1>3. perm'[n] = i /\ \A m \in Catalog!AnyNode \ {n} : perm'[m] = perm[m]
    BY <1>2
  <1>4. link' = IF i.type = "group" THEN L ELSE L \cup {<<n, i.primary>>}
    BY DEF Catalog!syncPrimaryLink
  <1>5. \A m \in Catalog!AnyNode \ {n}, a \in Catalog!Action : <<m, a>> \in link' <=> <<m, a>> \in link
    BY <1>4
  <1>6. \A a \in Catalog!Action : <<n, a>> \in link' => i.type = "permission"
        /\ (a = i.primary \/ <<n, a>> \in L)
    BY <1>1, <1>4
  <1>7. CatalogTypeOK'
    <2>1. perm' \in [Catalog!AnyNode -> NodeRow]
      BY <1>1, <1>2
    <2>2. link' \subseteq Catalog!AnyNode \X Catalog!Action
      BY <1>1, <1>2, <1>4
    <2> QED
      BY <2>1, <2>2 DEF CatalogInv, CatalogTypeOK
  <1>8. LinksAreReal'
    <2>1. SUFFICES ASSUME NEW m \in Catalog!AnyNode, NEW a \in Catalog!Action, <<m, a>> \in link'
                   PROVE  /\ Catalog!Kept(perm'[m].state) /\ perm'[m].type = "permission"
                          /\ Catalog!Kept(action[a]) /\ Catalog!Kept(resource[a].state)
      BY DEF LinksAreReal
    <2>2. CASE m # n
      BY <1>5, <2>1, <2>2 DEF CatalogInv, LinksAreReal
    <2>3. CASE m = n
      <3>1. <<n, a>> \in link \/ Catalog!Usable(a)
        BY <1>6, <2>1, <2>3
      <3>2. Catalog!Kept(action[a]) /\ Catalog!Kept(resource[a].state)
        BY <3>1 DEF CatalogInv, LinksAreReal, Catalog!Usable, Catalog!Kept
      <3> QED
        BY <1>1, <1>3, <1>6, <2>1, <2>3, <3>2
    <2> QED
      BY <2>2, <2>3
  <1>9. PrimaryIsLinked'
    <2>1. i.type = "permission" => <<n, i.primary>> \in link'
      BY <1>4
    <2>2. \A m \in Catalog!AnyNode \ {n} : Catalog!Kept(perm[m].state) /\ perm[m].type = "permission"
                                            => <<m, perm[m].primary>> \in link'
      BY <1>2, <1>5 DEF CatalogInv, PrimaryIsLinked
    <2> QED
      BY <1>3, <2>1, <2>2 DEF PrimaryIsLinked
  <1>10. ReferencedExist'
    BY <1>1 DEF CatalogInv, ReferencedExist, Catalog!permissionReferenced
  <1>11. SeedHasOneLink'
    BY <1>3, <1>5, <1>6 DEF CatalogInv, SeedHasOneLink, Catalog!AnyNode
  <1>12. LinksShareScope'
    <2>1. SUFFICES ASSUME ~rescoped, NEW m \in Catalog!AnyNode, NEW a \in Catalog!Action,
                          NEW b \in Catalog!Action,
                          <<m, a>> \in link', <<m, b>> \in link'
                   PROVE  resource[a].scope = resource[b].scope
      BY DEF LinksShareScope
    <2>2. CASE m # n
      BY <1>5, <2>1, <2>2 DEF CatalogInv, LinksShareScope
    <2>3. CASE m = n
      BY <1>6, <2>1, <2>3
    <2> QED
      BY <2>2, <2>3
  <1>13. Catalog!PermissionsAreForest'
    BY <1>2, ForestKept
  <1>14. NewestIsServed'
    BY DEF CatalogInv, NewestIsServed, Catalog!Usable
  <1> QED
    BY <1>7, <1>8, <1>9, <1>10, <1>11, <1>12, <1>13, <1>14 DEF CatalogInv

\* A node under an id that was not in use has no links yet.
LEMMA CatalogCreateKeeps ==
  ASSUME CatalogInv, NEW n \in Catalog!AnyNode, NEW i \in Catalog!Input, Catalog!Create(n, i)
  PROVE  CatalogInv'
  <1>1. \A a \in Catalog!Action : <<n, a>> \notin link
    BY DEF CatalogInv, LinksAreReal, Catalog!Create, Catalog!Kept
  <1> QED
    BY <1>1, NodeWritten DEF Catalog!Create

\* The links that survive a conversion of the node or a change of its primary action.
LEMMA RemainingLinks ==
  ASSUME CatalogInv, NEW n \in Catalog!AnyNode, NEW i \in Catalog!Input
  PROVE  /\ Catalog!Remaining(n, i) \subseteq link
         /\ \A m \in Catalog!AnyNode \ {n}, a \in Catalog!Action : <<m, a>> \in link
            => <<m, a>> \in Catalog!Remaining(n, i)
         /\ i.type = "group" => \A a \in Catalog!Action : <<n, a>> \notin Catalog!Remaining(n, i)
         /\ \A a \in Catalog!Action : <<n, a>> \in Catalog!Remaining(n, i) =>
              /\ perm[n].type = "permission" /\ i.type = "permission" /\ Catalog!Kept(perm[n].state)
              /\ perm[n].primary = i.primary \/ a # perm[n].primary
  <1>1. \A m \in Catalog!AnyNode, a \in Catalog!Action :
          <<m, a>> \in Catalog!Remaining(n, i) <=>
            <<m, a>> \in link /\ (m = n => /\ perm[n].type = i.type
                                           /\ perm[n].primary = i.primary \/ a # perm[n].primary)
    BY DEF Catalog!Remaining
  <1> QED
    BY DEF CatalogInv, LinksAreReal, Catalog!Remaining

\* A node is changed, or turned from a group into a permission or back, with the links that
\* survive.
LEMMA CatalogUpdateKeeps ==
  ASSUME CatalogInv, NEW n \in Catalog!AnyNode, NEW i \in Catalog!Input, Catalog!Update(n, i)
  PROVE  CatalogInv'
  <1>1. n \in PermissionNode /\ Catalog!Kept(perm[n].state)
    BY DEF Catalog!Update
  <1>2. i.type = "permission" => Catalog!Usable(i.primary) \/ <<n, i.primary>> \in Catalog!Remaining(n, i)
    <2>1. HAVE i.type = "permission"
    <2>2. i.primary \in Catalog!Action
      BY <2>1, InputRows
    <2>3. CASE i.primary # perm[n].primary /\ i.primary # "none"
      BY <2>3 DEF Catalog!Update
    <2>4. CASE i.primary = perm[n].primary
      <3>1. perm[n] \in Catalog!Input
        BY <1>1 DEF CatalogInv, CatalogTypeOK, NodeRow, Catalog!NoNode, Catalog!Kept
      <3>2. perm[n].type = "permission"
        BY <2>2, <2>4, <3>1, InputRows, CatalogAssumption DEF Catalog!Action
      <3>3. <<n, i.primary>> \in link
        BY <1>1, <2>4, <3>2 DEF CatalogInv, PrimaryIsLinked
      <3> QED
        BY <2>1, <3>2, <3>3 DEF Catalog!Remaining
    <2> QED
      BY <2>2, <2>3, <2>4, CatalogAssumption DEF Catalog!Action
  <1>3. n \in SeedNode => \A a \in Catalog!Action : <<n, a>> \in Catalog!Remaining(n, i) => a = i.primary
    BY <1>1, CatalogAssumption
  <1>4. \A a \in Catalog!Action : <<n, a>> \in Catalog!Remaining(n, i) /\ ~rescoped
        => resource[a].scope = resource[i.primary].scope
    <2>1. SUFFICES ASSUME NEW a \in Catalog!Action, <<n, a>> \in Catalog!Remaining(n, i), ~rescoped
                   PROVE  resource[a].scope = resource[i.primary].scope
      OBVIOUS
    <2>2. perm[n].type = "permission" /\ i.type = "permission" /\ <<n, a>> \in link
      BY <2>1, RemainingLinks
    <2>3. resource[i.primary].scope = resource[perm[n].primary].scope
      BY <2>2 DEF Catalog!Update, Catalog!SameScope, Catalog!primaryActionScope
    <2>4. <<n, perm[n].primary>> \in link
      BY <1>1, <2>2 DEF CatalogInv, PrimaryIsLinked
    <2>5. perm[n].primary \in Catalog!Action
      BY <2>4 DEF CatalogInv, CatalogTypeOK
    <2> QED
      BY <2>1, <2>2, <2>3, <2>4, <2>5 DEF CatalogInv, LinksShareScope
  <1> QED
    BY <1>2, <1>3, <1>4, RemainingLinks, NodeWritten DEF Catalog!Update

\* A manifest entry, written again by every instance that starts.
LEMMA CatalogSeedKeeps ==
  ASSUME CatalogInv, NEW n \in Catalog!AnyNode, NEW i \in Catalog!Input, Catalog!Seed(n, i)
  PROVE  CatalogInv'
  <1>1. \A a \in Catalog!Action : <<n, a>> \in Catalog!Remaining(n, i) => a = i.primary
    BY RemainingLinks DEF CatalogInv, SeedHasOneLink, Catalog!Seed
  <1> QED
    BY <1>1, RemainingLinks, NodeWritten DEF Catalog!Seed

\* The extra actions of a permission are replaced: they are of the scope of its primary action.
LEMMA CatalogSetActionsKeeps ==
  ASSUME CatalogInv, NEW n \in Catalog!AnyNode, NEW A \in SUBSET Catalog!Action, Catalog!SetActions(n, A)
  PROVE  CatalogInv'
  <1>1. /\ n \in PermissionNode /\ Catalog!Kept(perm[n].state) /\ perm[n].type = "permission"
           /\ perm[n].primary \in A
        /\ \A a \in A : Catalog!Usable(a) /\ resource[a].scope = resource[perm[n].primary].scope
        /\ UNCHANGED <<action, resource, build, perm, platformGrant, tenantRef, rescoped>>
    BY DEF Catalog!SetActions
  <1>2. \A m \in Catalog!AnyNode \ {n}, a \in Catalog!Action : <<m, a>> \in link' <=> <<m, a>> \in link
    BY DEF Catalog!SetActions
  <1>3. \A a \in Catalog!Action : <<n, a>> \in link' <=> a \in A
    BY DEF Catalog!SetActions
  <1>4. CatalogTypeOK'
    <2>1. link' \subseteq Catalog!AnyNode \X Catalog!Action
      BY DEF Catalog!SetActions, CatalogInv, CatalogTypeOK
    <2> QED
      BY <1>1, <2>1 DEF CatalogInv, CatalogTypeOK
  <1>5. LinksAreReal'
    BY <1>1, <1>2, <1>3 DEF CatalogInv, LinksAreReal, Catalog!Usable, Catalog!Kept
  <1>6. PrimaryIsLinked'
    <2>1. \A m \in Catalog!AnyNode \ {n} : Catalog!Kept(perm[m].state) /\ perm[m].type = "permission"
                                            => <<m, perm[m].primary>> \in link'
      BY <1>2 DEF CatalogInv, CatalogTypeOK, PrimaryIsLinked
    <2> QED
      BY <1>1, <1>3, <2>1 DEF PrimaryIsLinked
  <1>7. ReferencedExist'
    BY <1>1 DEF CatalogInv, ReferencedExist, Catalog!permissionReferenced
  <1>8. SeedHasOneLink'
    BY <1>1, <1>2, CatalogAssumption DEF CatalogInv, SeedHasOneLink, Catalog!AnyNode
  <1>9. LinksShareScope'
    <2>1. SUFFICES ASSUME ~rescoped, NEW m \in Catalog!AnyNode, NEW a \in Catalog!Action,
                          NEW b \in Catalog!Action,
                          <<m, a>> \in link', <<m, b>> \in link'
                   PROVE  resource[a].scope = resource[b].scope
      BY <1>1 DEF LinksShareScope
    <2>2. CASE m # n
      BY <1>2, <2>1, <2>2 DEF CatalogInv, LinksShareScope
    <2>3. CASE m = n
      BY <1>1, <1>3, <2>1, <2>3
    <2> QED
      BY <2>2, <2>3
  <1>10. Catalog!PermissionsAreForest' /\ NewestIsServed'
    BY <1>1 DEF CatalogInv, Catalog!PermissionsAreForest, NewestIsServed, Catalog!Usable
  <1> QED
    BY <1>4, <1>5, <1>6, <1>7, <1>8, <1>9, <1>10 DEF CatalogInv

\* Refused while the node has children or is referenced.
LEMMA CatalogDeleteKeeps ==
  ASSUME CatalogInv, NEW n \in Catalog!AnyNode, Catalog!Delete(n)
  PROVE  CatalogInv'
  <1>1. /\ \A x \in Catalog!AnyNode : Catalog!Kept(perm[x].state) => perm[x].parent # n
        /\ ~Catalog!permissionReferenced(n)
        /\ UNCHANGED <<action, resource, build, platformGrant, tenantRef, rescoped>>
    BY DEF Catalog!Delete
  <1>2. perm' \in [Catalog!AnyNode -> NodeRow] /\ ~Catalog!Kept(perm'[n].state)
        /\ \A m \in Catalog!AnyNode \ {n} : perm'[m] = perm[m]
    <2>1. PICK gone : gone = [Catalog!NoNode EXCEPT !.state = "deleted"]
      OBVIOUS
    <2>2. gone \in NodeRow /\ gone.state = "deleted"
      BY <2>1 DEF NodeRow
    <2>3. perm' = [perm EXCEPT ![n] = gone]
      BY <2>1 DEF Catalog!Delete
    <2> QED
      BY <2>2, <2>3 DEF CatalogInv, CatalogTypeOK, Catalog!Kept
  <1>3. \A m \in Catalog!AnyNode, a \in Catalog!Action : <<m, a>> \in link' <=> m # n /\ <<m, a>> \in link
    BY DEF Catalog!Delete
  <1>4. CatalogTypeOK'
    <2>1. link' \subseteq link
      BY DEF Catalog!Delete
    <2> QED
      BY <1>1, <1>2, <2>1 DEF CatalogInv, CatalogTypeOK
  <1>5. LinksAreReal'
    BY <1>1, <1>2, <1>3 DEF CatalogInv, LinksAreReal
  <1>6. PrimaryIsLinked'
    <2>1. \A m \in Catalog!AnyNode \ {n} : Catalog!Kept(perm[m].state) /\ perm[m].type = "permission"
                                            => <<m, perm[m].primary>> \in link'
      BY <1>3 DEF CatalogInv, CatalogTypeOK, PrimaryIsLinked
    <2> QED
      BY <1>2, <2>1 DEF PrimaryIsLinked
  <1>7. ReferencedExist'
    BY <1>1, <1>2 DEF CatalogInv, ReferencedExist, Catalog!permissionReferenced
  <1>8. SeedHasOneLink'
    BY <1>2, <1>3 DEF CatalogInv, SeedHasOneLink, Catalog!AnyNode
  <1>9. LinksShareScope'
    BY <1>1, <1>3 DEF CatalogInv, LinksShareScope
  <1>10. Catalog!PermissionsAreForest'
    <2> DEFINE before == {x \in Catalog!AnyNode : Catalog!Kept(perm[x].state)}
    <2>1. {x \in Catalog!AnyNode : Catalog!Kept(perm'[x].state)} = before \ {n}
      BY <1>2
    <2>2. /\ \A S \in SUBSET before : S # {} => \E x \in S : perm[x].parent \notin S
          /\ \A x \in before : perm[x].parent # "root" => perm[x].parent \in before
             /\ perm[perm[x].parent].type = "group"
      BY DEF CatalogInv, Catalog!PermissionsAreForest
    <2>3. \A S \in SUBSET (before \ {n}) : S # {} => \E x \in S : perm'[x].parent \notin S
      BY <1>2, <2>2
    <2>4. \A x \in before \ {n} : perm'[x].parent # "root" =>
            perm'[x].parent \in before \ {n} /\ perm'[perm'[x].parent].type = "group"
      BY <1>1, <1>2, <2>2
    <2> QED
      BY <2>1, <2>3, <2>4 DEF Catalog!PermissionsAreForest
  <1>11. NewestIsServed'
    BY <1>1 DEF CatalogInv, NewestIsServed, Catalog!Usable
  <1> QED
    BY <1>4, <1>5, <1>6, <1>7, <1>8, <1>9, <1>10, <1>11 DEF CatalogInv

\* A step of the grants alone, which refer to active nodes when they are given.
LEMMA GrantsChange ==
  ASSUME CatalogInv, UNCHANGED <<action, resource, build, perm, link, rescoped>>,
         \A m \in Catalog!AnyNode : Catalog!permissionReferenced(m)' =>
            Catalog!permissionReferenced(m) \/ perm[m].state = "active"
  PROVE  CatalogInv'
  <1>1. ReferencedExist'
    BY DEF CatalogInv, ReferencedExist, Catalog!Kept
  <1>2. Catalog!PermissionsAreForest' /\ NewestIsServed'
    BY DEF CatalogInv, Catalog!PermissionsAreForest, NewestIsServed, Catalog!Usable
  <1> QED
    BY <1>1, <1>2
       DEF CatalogInv, CatalogTypeOK, LinksAreReal, PrimaryIsLinked, SeedHasOneLink,
           LinksShareScope

\* Every grant and every reference of a tenant.
LEMMA GrantsKeep ==
  ASSUME CatalogInv,
         \/ \E n \in Catalog!AnyNode :
              \/ Catalog!TenantGrant(n) \/ Catalog!TenantRevoke(n)
              \/ \E q \in Principal : \/ Catalog!CreateGrant(q, n)
                                      \/ \E g \in platformGrant : Catalog!UpdateGrant(g, q, n)
         \/ \E g \in platformGrant : Catalog!DeleteGrant(g)
  PROVE  CatalogInv'
  <1>1. ASSUME NEW n \in Catalog!AnyNode, Catalog!TenantGrant(n) \/ Catalog!TenantRevoke(n) PROVE CatalogInv'
    BY <1>1, GrantsChange
       DEF Catalog!TenantGrant, Catalog!TenantRevoke, Catalog!Grantable,
           Catalog!permissionReferenced
  <1>2. ASSUME NEW n \in Catalog!AnyNode, NEW q \in Principal, Catalog!CreateGrant(q, n) PROVE CatalogInv'
    BY <1>2, GrantsChange DEF Catalog!CreateGrant, Catalog!Grantable, Catalog!permissionReferenced
  <1>3. ASSUME NEW n \in Catalog!AnyNode, NEW q \in Principal, NEW g \in platformGrant,
               Catalog!UpdateGrant(g, q, n)
        PROVE  CatalogInv'
    BY <1>3, GrantsChange DEF Catalog!UpdateGrant, Catalog!Grantable, Catalog!permissionReferenced
  <1>4. ASSUME NEW g \in platformGrant, Catalog!DeleteGrant(g) PROVE CatalogInv'
    BY <1>4, GrantsChange DEF Catalog!DeleteGrant, Catalog!permissionReferenced
  <1> QED
    BY <1>1, <1>2, <1>3, <1>4

\* Every step keeps the invariant and takes no build back.
LEMMA CatalogStep ==
  ASSUME CatalogInv, [Catalog!Next]_(Catalog!vars)
  PROVE  CatalogInv' /\ [build' >= build]_build
  <1>1. ASSUME UNCHANGED Catalog!vars PROVE CatalogInv' /\ build' = build
    <2>1. UNCHANGED <<action, resource, build, perm, link, rescoped, platformGrant, tenantRef>>
      BY <1>1 DEF Catalog!vars
    <2> QED
      BY <2>1, GrantsChange DEF Catalog!permissionReferenced
  <1>2. ASSUME NEW a \in Catalog!Action,
               \/ Catalog!DeleteResource(a) \/ Catalog!CreateAction(a) \/ Catalog!DeleteAction(a)
               \/ \E scope \in {"platform", "tenant"} : Catalog!CreateResource(a, scope)
               \/ \E state \in {"active", "disabled"} : Catalog!UpdateResource(a, state)
                  \/ Catalog!UpdateAction(a, state)
        PROVE  CatalogInv' /\ build' = build
    <2>1. CatalogInv'
      BY <1>2, CreateResourceKeeps, UpdateResourceKeeps, DeleteResourceKeeps, CreateActionKeeps,
         UpdateActionKeeps, DeleteActionKeeps
    <2>2. build' = build
      BY <1>2
         DEF Catalog!DeleteResource, Catalog!CreateAction, Catalog!DeleteAction,
             Catalog!CreateResource, Catalog!UpdateResource, Catalog!UpdateAction
    <2> QED
      BY <2>1, <2>2
  <1>3. ASSUME NEW n \in Catalog!AnyNode,
               \/ \E i \in Catalog!Input : Catalog!Create(n, i) \/ Catalog!Update(n, i) \/ Catalog!Seed(n, i)
               \/ \E A \in SUBSET Catalog!Action : Catalog!SetActions(n, A)
               \/ Catalog!Delete(n)
        PROVE  CatalogInv' /\ build' = build
    <2>1. CatalogInv'
      BY <1>3, CatalogCreateKeeps, CatalogUpdateKeeps, CatalogSeedKeeps, CatalogSetActionsKeeps,
         CatalogDeleteKeeps
    <2>2. build' = build
      BY <1>3 DEF Catalog!Create, Catalog!Update, Catalog!Seed, Catalog!SetActions, Catalog!Delete
    <2> QED
      BY <2>1, <2>2
  <1>4. ASSUME NEW n \in Catalog!AnyNode,
               \/ Catalog!TenantGrant(n) \/ Catalog!TenantRevoke(n)
               \/ \E q \in Principal : \/ Catalog!CreateGrant(q, n)
                                       \/ \E g \in platformGrant : Catalog!UpdateGrant(g, q, n)
        PROVE  CatalogInv' /\ build' = build
    <2>1. build' = build
      BY <1>4
         DEF Catalog!TenantGrant, Catalog!TenantRevoke, Catalog!CreateGrant, Catalog!UpdateGrant
    <2> QED
      BY <1>4, <2>1, GrantsKeep
  <1>5. ASSUME NEW g \in platformGrant, Catalog!DeleteGrant(g) PROVE CatalogInv' /\ build' = build
    <2>1. build' = build
      BY <1>5 DEF Catalog!DeleteGrant
    <2> QED
      BY <1>5, <2>1, GrantsKeep
  <1>6. ASSUME NEW b \in CatalogBuild, Catalog!Sync(b) PROVE CatalogInv' /\ build' >= build
    BY <1>6, SyncKeeps
  <1> QED
    BY <1>1, <1>2, <1>3, <1>4, <1>5, <1>6 DEF Catalog!Next

\* CatalogIsSound: whatever builds start, and whatever is created, converted, disabled and deleted
\* through the API, nothing that authorizes dangles, permissions hang below groups, and no
\* permission mixes scopes.
THEOREM CatalogIsAlwaysSound == Catalog!Spec => []CatalogIsSound
  <1>1. CatalogInv /\ [Catalog!Next]_(Catalog!vars) => CatalogInv'
    BY CatalogStep
  <1> QED
    BY <1>1, CatalogBegin, CatalogSound, PTL DEF Catalog!Spec

\* CatalogFollowsNewestBuild: instances of an older build that restart beside the newest one change
\* nothing it has recorded (checkBuild, disableMissing).
THEOREM NewestBuildIsFollowed == Catalog!Spec => CatalogFollowsNewestBuild
  <1>1. CatalogInv /\ [Catalog!Next]_(Catalog!vars) => CatalogInv' /\ [build' >= build]_build
    BY CatalogStep
  <1>2. CatalogInv => (build # 0 => \A a \in CodeAction : Catalog!Usable(a) <=> a \in Defined[build])
    BY DEF CatalogInv, NewestIsServed
  <1> QED
    BY <1>1, <1>2, CatalogBegin, PTL
       DEF Catalog!Spec, CatalogFollowsNewestBuild, Catalog!CatalogFollowsNewestBuild
=============================================================================
