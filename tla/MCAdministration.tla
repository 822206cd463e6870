--------------------------- MODULE MCAdministration ---------------------------
(***************************************************************************)
(* The administration of tenants and of the platform, one component at a   *)
(* time: part, which never changes, says which one an execution is about,  *)
(* and the others stay as they begin.                                      *)
(***************************************************************************)
EXTENDS AccessControl, Trees, Sequences, TLC

VARIABLE part

departmentVars == <<dept, parent, belongs, primary, membership, treeTx, leaseLost, tenantStatus,
                    removal>>
catalogVars == <<action, resource, build, perm, link, platformGrant, tenantRef, rescoped>>
dictionaryVars == <<definition, item, revision, mover, query, stored>>
applicationVars == <<app, grant, tenancy, context, nav, deleting, reader, source>>

vars == <<part, accessVars, departmentVars, catalogVars, dictionaryVars, applicationVars>>

\* The second build drops the code's action, and the third brings it back in another scope.
BuildActions == <<{"c1"}, {}, {"c1"}>>
BuildTenantScope == <<{"c1"}, {}, {}>>

\* An item with the second value is as large as a result may be.
ItemSizes == [v \in Value |-> IF v = "" THEN 1 ELSE 2]

\* Bound: a tenant is deleted while nothing of it is disabled and the catalog is as it begins.
AllActive ==
    sweep'.at > 0 => /\ tenant' = "active" /\ \A p \in Permission : node'[p] = "grantable"
                     /\ \A m \in Member : member'[m] # "disabled"
                     /\ \A r \in Role : role'[r] # "disabled"

\* Bound: of the permission nodes, only those of the manifest are disabled.
ApiNodesActive == \A n \in PermissionNode : perm'[n].state # "disabled"

\* Bound: the navigation is written while the tenant is there and its session has no context.
TenancyRests ==
    Apps!Writes' > 0 => deleting'.at = 0 /\ context' = "none" /\ tenancy' # "deleted"

\* Ids differ by name only, and are handed out in this order.
Ids == <<"a", "b", "c">>

InOrder(before, after) ==
    \A k \in 1..Len(Ids) : Ids[k] \in after \ before => \A j \in 1..(k - 1) : Ids[j] \in before

\* Ids of departments that exist, or are being created.
DepartmentIds == {d \in Department : dept[d] # "absent" \/ treeTx[d].op = "create"}

NavigationIds == {n \in Nav : nav[n].state # "absent"}

\* Bound: a tenant is deleted, or disabled, while it has at most two departments and the lease
\* department:tree is not lost.
DepartmentsRest ==
    removal'.at > 0 \/ tenantStatus' # "active" =>
        Cardinality(DepartmentIds') <= 2 /\ ~leaseLost'

Parts == {"access", "departments", "catalog", "dictionary", "applications"}

Init == /\ part \in Parts
        /\ AccessInit /\ Tree!Init /\ Catalog!Init /\ Dictionaries!Init /\ Apps!Init

Next == /\ UNCHANGED part
        /\ \/ /\ part = "access" /\ AccessNext /\ AllActive
              /\ UNCHANGED <<departmentVars, catalogVars, dictionaryVars, applicationVars>>
           \/ /\ part = "departments" /\ Tree!Next /\ InOrder(DepartmentIds, DepartmentIds')
              /\ DepartmentsRest
              /\ UNCHANGED <<accessVars, catalogVars, dictionaryVars, applicationVars>>
           \/ /\ part = "catalog" /\ Catalog!Next /\ ApiNodesActive
              /\ UNCHANGED <<accessVars, departmentVars, dictionaryVars, applicationVars>>
           \/ /\ part = "dictionary" /\ Dictionaries!Next
              /\ UNCHANGED <<accessVars, departmentVars, catalogVars, applicationVars>>
           \/ /\ part = "applications" /\ Apps!Next /\ TenancyRests
              /\ InOrder(NavigationIds, NavigationIds')
              /\ UNCHANGED <<accessVars, departmentVars, catalogVars, dictionaryVars>>

Spec == Init /\ [][Next]_vars

Symmetry == Permutations(Permission) \cup Permutations(Member)
=============================================================================
