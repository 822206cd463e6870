----------------------------- MODULE Departments -----------------------------
(***************************************************************************)
(* The department tree of a tenant and the members of its departments      *)
(* (internal/tenant/department.go).                                        *)
(*                                                                         *)
(* The structure is changed under a renewable Redis lease.  Moves and the  *)
(* replacement of members are serializable transactions, one step each;    *)
(* creation and deletion check first and write later.  A lease is lost     *)
(* when its holder stalls: from then on two structural changes may         *)
(* overlap, and only the row versions are left.                            *)
(*                                                                         *)
(* Deleting the tenant (repository.go) takes no lease and is one step for  *)
(* each table it updates: a row that one of its UPDATEs has found is       *)
(* locked from then on, and a row written later is not found.              *)
(***************************************************************************)
EXTENDS Naturals, FiniteSets

CONSTANTS
    Department,   \* ids that Create may use
    Staff,        \* memberships of the tenant
    MaxDepartmentNodes  \* maxDepartmentNodes

VARIABLES
    dept,         \* tenant_departments rows: absent, live or deleted
    parent,       \* parent_id, "root" when it is null
    belongs,      \* live tenant_department_members: <<department, member>>
    primary,      \* those with is_primary
    membership,   \* status of the memberships
    treeTx,       \* creations and deletions between their checks and their write
    leaseLost,    \* the lease department:tree was lost by a holder that is still running
    tenantStatus, \* tenants.status, or that the row is deleted
    removal       \* a deleteTenant between its first statement and its last one

vars == <<dept, parent, belongs, primary, membership, treeTx, leaseLost, tenantStatus, removal>>

-----------------------------------------------------------------------------

NoTx == [op |-> "none", parent |-> "root", fresh |-> FALSE]

\* fresh: the department still has the version that the caller names.
TreeTx == [op : {"none", "create", "delete"}, parent : Department \cup {"root"}, fresh : BOOLEAN]

\* The rows that the first at UPDATEs of deleteTenant found, in the order of the fields; fresh: the
\* tenant still has the version that the caller names.
Removal == [at : 0..3, belongs : SUBSET (Department \X Staff), members : SUBSET Staff,
            depts : SUBSET Department, fresh : BOOLEAN]

NoRemoval == [at |-> 0, belongs |-> {}, members |-> {}, depts |-> {}, fresh |-> FALSE]

Init == /\ dept = [d \in Department |-> "absent"]
        /\ parent = [d \in Department |-> "root"]
        /\ belongs = {}
        /\ primary = {}
        /\ membership = [m \in Staff |-> "active"]
        /\ treeTx = [d \in Department |-> NoTx]
        /\ leaseLost = FALSE
        /\ tenantStatus = "active"
        /\ removal = NoRemoval

LiveDepartment(d) == d \in Department /\ dept[d] = "live"

\* ensureActiveTenant, which locks nothing.
ensureActiveTenant == tenantStatus = "active"

\* Tree answers up to this many departments, and no department is moved below another one
\* beyond it; Create counts nothing.
WithinLimit == Cardinality({d \in Department : LiveDepartment(d)}) <= MaxDepartmentNodes

Children(d) == {c \in Department : LiveDepartment(c) /\ parent[c] = d}

\* withDepartmentLock(tree): nobody else holds the lease, or its holder lost it.
withDepartmentLock == leaseLost \/ \A d \in Department : treeTx[d].op = "none"

\* Every write of a department increments its version.
Rewritten(d) == [treeTx EXCEPT ![d].fresh = FALSE]

ensureDepartmentParent(p) == p = "root" \/ LiveDepartment(p)

\* The department reached from p after n steps up; what has no live row ends the walk.
Ancestor(p) ==
    LET up[n \in Nat] == IF n = 0 THEN p
                         ELSE IF LiveDepartment(up[n - 1]) THEN parent[up[n - 1]] ELSE "root"
    IN  up

\* Mutant: only the new parent itself is compared with the department.
validateDepartmentMove_Parent(d, p) == p # d

\* ensureDepartmentMove: the walk from the new parent ends, and does not pass the department.
validateDepartmentMove(d, p) ==
    /\ \A n \in 0..Cardinality(Department) : Ancestor(p)[n] # d
    /\ Ancestor(p)[Cardinality(Department) + 1] = "root"

-----------------------------------------------------------------------------
(* Structure.                                                              *)

\* Create, up to the INSERT.
CreateChecks(d, p) ==
    /\ dept[d] = "absent" /\ treeTx[d].op = "none"
    /\ withDepartmentLock
    /\ ensureActiveTenant /\ ensureDepartmentParent(p)
    /\ treeTx' = [treeTx EXCEPT ![d] = [op |-> "create", parent |-> p, fresh |-> TRUE]]
    /\ UNCHANGED <<dept, parent, belongs, primary, membership, leaseLost, tenantStatus, removal>>

Create(d) ==
    /\ treeTx[d].op = "create"
    /\ dept' = [dept EXCEPT ![d] = "live"]
    /\ parent' = [parent EXCEPT ![d] = treeTx[d].parent]
    /\ treeTx' = [treeTx EXCEPT ![d] = NoTx]
    /\ UNCHANGED <<belongs, primary, membership, leaseLost, tenantStatus, removal>>

\* Update: ensureDepartmentMove and the row, in one serializable transaction.
Update(d, p) ==
    /\ LiveDepartment(d) /\ p # d /\ d \notin removal.depts
    /\ withDepartmentLock
    /\ ensureActiveTenant /\ ensureDepartmentParent(p)
    /\ p # "root" => WithinLimit /\ validateDepartmentMove(d, p)
    /\ parent' = [parent EXCEPT ![d] = p]
    /\ treeTx' = Rewritten(d)
    /\ UNCHANGED <<dept, belongs, primary, membership, leaseLost, tenantStatus, removal>>

\* Delete, up to the UPDATE: neither children nor members.
DeleteChecks(d) ==
    /\ LiveDepartment(d) /\ treeTx[d].op = "none"
    /\ withDepartmentLock /\ ensureActiveTenant
    /\ Children(d) = {} /\ \A m \in Staff : <<d, m>> \notin belongs
    /\ treeTx' = [treeTx EXCEPT ![d] = [op |-> "delete", parent |-> "root", fresh |-> TRUE]]
    /\ UNCHANGED <<dept, parent, belongs, primary, membership, leaseLost, tenantStatus, removal>>

\* Mutant: the row is deleted whatever its version.
DepartmentUnchanged_ById(d) == LiveDepartment(d)

\* WHERE td.id=? AND td.version=? AND td.deleted_at IS NULL
DepartmentUnchanged(d) == LiveDepartment(d) /\ treeTx[d].fresh

Delete(d) ==
    /\ treeTx[d].op = "delete" /\ DepartmentUnchanged(d) /\ d \notin removal.depts
    /\ dept' = [dept EXCEPT ![d] = "deleted"]
    /\ treeTx' = [treeTx EXCEPT ![d] = NoTx]
    /\ UNCHANGED <<parent, belongs, primary, membership, leaseLost, tenantStatus, removal>>

\* Create or Delete fails and rolls back.
TreeTxFails(d) ==
    /\ treeTx[d].op # "none"
    /\ treeTx' = [treeTx EXCEPT ![d] = NoTx]
    /\ UNCHANGED <<dept, parent, belongs, primary, membership, leaseLost, tenantStatus, removal>>

LoseLease ==
    /\ ~leaseLost /\ \E d \in Department : treeTx[d].op # "none"
    /\ leaseLost' = TRUE
    /\ UNCHANGED <<dept, parent, belongs, primary, membership, treeTx, tenantStatus, removal>>

-----------------------------------------------------------------------------
(* Members.                                                                *)

\* Mutant: a primary department leaves the member's other ones primary.
syncDepartmentMembers_KeepsPrimary(d, P) ==
    {x \in primary : x[1] # d} \cup ({d} \X P)

\* The primary links afterwards: P here, and elsewhere those of nobody in P.
syncDepartmentMembers(d, P) ==
    {x \in primary : x[1] # d /\ x[2] \notin P} \cup ({d} \X P)

\* The rows that SetMembers writes, or locks before: the department, the members and their links.
UnlockedAssignments(d, M, P) ==
    /\ d \notin removal.depts /\ M \cap removal.members = {}
    /\ \A x \in removal.belongs \cap belongs : x[1] # d /\ (x[2] \in P => x \notin primary)

\* SetMembers: the version is claimed, the members are locked and active, the links are
\* replaced.  P are those whose primary department this is.
SetMembers(d, M, P) ==
    /\ ensureActiveTenant /\ LiveDepartment(d) /\ UnlockedAssignments(d, M, P)
    /\ \A m \in M : membership[m] = "active"
    /\ belongs' = {x \in belongs : x[1] # d} \cup ({d} \X M)
    /\ primary' = syncDepartmentMembers(d, P)
    /\ treeTx' = Rewritten(d)
    /\ UNCHANGED <<dept, parent, membership, leaseLost, tenantStatus, removal>>

\* MembershipService.Remove, of which the other links are in TenantAccess.
RemoveMember(m) ==
    /\ ensureActiveTenant /\ membership[m] # "removed" /\ m \notin removal.members
    /\ \A x \in removal.belongs \cap belongs : x[2] # m
    /\ membership' = [membership EXCEPT ![m] = "removed"]
    /\ belongs' = {x \in belongs : x[2] # m}
    /\ primary' = {x \in primary : x[2] # m}
    /\ UNCHANGED <<dept, parent, treeTx, leaseLost, tenantStatus, removal>>

\* MembershipService.UpdateStatus.
UpdateStatus(m, status) ==
    /\ ensureActiveTenant /\ membership[m] # "removed" /\ m \notin removal.members
    /\ membership' = [membership EXCEPT ![m] = status]
    /\ UNCHANGED <<dept, parent, belongs, primary, treeTx, leaseLost, tenantStatus, removal>>

\* MembershipService.Add restores the membership; what it has checked before, the tenant's
\* status included, may be stale by now (TenantAccess).
Add(m) ==
    /\ membership[m] = "removed"
    /\ membership' = [membership EXCEPT ![m] = "active"]
    /\ UNCHANGED <<dept, parent, belongs, primary, treeTx, leaseLost, tenantStatus, removal>>

-----------------------------------------------------------------------------
(* The tenant.                                                             *)

\* updateTenant, and whatever else increments the tenant's version.
UpdateTenant(status) ==
    /\ tenantStatus # "deleted"
    /\ tenantStatus' = status
    /\ removal' = [removal EXCEPT !.fresh = FALSE]
    /\ UNCHANGED <<dept, parent, belongs, primary, membership, treeTx, leaseLost>>

\* The UPDATEs of deleteTenant: tenant_department_members, tenant_memberships and
\* tenant_departments, each with the rows that are live by then.
deleteTenantRows ==
    /\ tenantStatus # "deleted" /\ removal.at < 3
    /\ removal' = [at |-> removal.at + 1,
                   belongs |-> IF removal.at = 0 THEN belongs ELSE removal.belongs,
                   members |-> IF removal.at = 1 THEN {m \in Staff : membership[m] # "removed"}
                                                 ELSE removal.members,
                   depts |-> IF removal.at = 2 THEN {d \in Department : LiveDepartment(d)}
                                               ELSE removal.depts,
                   fresh |-> removal.at = 0 \/ removal.fresh]
    /\ UNCHANGED <<dept, parent, belongs, primary, membership, treeTx, leaseLost, tenantStatus>>

\* Its last statement, WHERE id = ? AND version = ? AND deleted_at IS NULL, and its commit.
deleteTenant ==
    /\ removal.at = 3 /\ removal.fresh /\ tenantStatus # "deleted"
    /\ tenantStatus' = "deleted"
    /\ belongs' = belongs \ removal.belongs
    /\ primary' = primary \ removal.belongs
    /\ membership' = [m \in Staff |-> IF m \in removal.members THEN "removed" ELSE membership[m]]
    /\ dept' = [d \in Department |-> IF d \in removal.depts THEN "deleted" ELSE dept[d]]
    /\ treeTx' = [d \in Department |->
                   [treeTx[d] EXCEPT !.fresh = treeTx[d].fresh /\ d \notin removal.depts]]
    /\ removal' = NoRemoval
    /\ UNCHANGED <<parent, leaseLost>>

\* deleteTenant fails and rolls back.
deleteTenantFails ==
    /\ removal.at > 0
    /\ removal' = NoRemoval
    /\ UNCHANGED <<dept, parent, belongs, primary, membership, treeTx, leaseLost, tenantStatus>>

Next == \/ \E d \in Department :
              \/ Create(d) \/ DeleteChecks(d) \/ Delete(d) \/ TreeTxFails(d)
              \/ \E p \in Department \cup {"root"} : CreateChecks(d, p) \/ Update(d, p)
              \/ \E M \in SUBSET Staff : \E P \in SUBSET M : SetMembers(d, M, P)
        \/ \E m \in Staff :
              \/ RemoveMember(m) \/ Add(m)
              \/ \E status \in {"active", "disabled"} : UpdateStatus(m, status)
        \/ LoseLease
        \/ \E status \in {"active", "disabled"} : UpdateTenant(status)
        \/ deleteTenantRows \/ deleteTenant \/ deleteTenantFails

Spec == Init /\ [][Next]_vars

-----------------------------------------------------------------------------
(* Properties.                                                             *)

TypeOK ==
    /\ dept \in [Department -> {"absent", "live", "deleted"}]
    /\ parent \in [Department -> Department \cup {"root"}]
    /\ belongs \subseteq Department \X Staff
    /\ primary \subseteq belongs
    /\ membership \in [Staff -> {"active", "disabled", "removed"}]
    /\ treeTx \in [Department -> TreeTx]
    /\ leaseLost \in BOOLEAN
    /\ tenantStatus \in {"active", "disabled", "deleted"}
    /\ removal \in Removal

(* The live departments form a forest: no move ever closes a cycle, with or without the  *)
(* lease, whatever deletes the tenant meanwhile.  While the tenant is there and the lease *)
(* is not lost, no department hangs below a deleted one, so that Tree can be built        *)
(* whenever the departments are within its limit (ensureDepartmentMove, Delete).          *)
DepartmentsAreForest ==
    LET live == {d \in Department : LiveDepartment(d)}
    IN  /\ \A S \in SUBSET live : S # {} => \E d \in S : parent[d] \notin S
        /\ ~leaseLost /\ tenantStatus # "deleted" =>
             \A d \in live : ensureDepartmentParent(parent[d])

(* While the tenant is there, its members belong to departments that exist, and removed   *)
(* members to none, even when the lease is lost during a deletion.  A member has one      *)
(* primary department at most, however its departments are edited (SetMembers,            *)
(* syncDepartmentMembers), also among the links that survive the tenant's deletion.       *)
AssignmentsAreSound ==
    /\ tenantStatus # "deleted" =>
         \A x \in belongs : LiveDepartment(x[1]) /\ membership[x[2]] # "removed"
    /\ \A x, y \in primary : x[2] = y[2] => x = y
=============================================================================
