-------------------------------- MODULE Trees --------------------------------
(***************************************************************************)
(* The trees that administrators keep: the departments of a tenant, the    *)
(* items of a dictionary and the navigation of an application with the     *)
(* applications themselves, each as its own module describes it.           *)
(***************************************************************************)
EXTENDS Naturals, FiniteSets

CONSTANTS
    Department, Staff, MaxDepartmentNodes,                             \* Departments
    Item, Value, MaxTreeNodes, MaxDepth, ItemBytes, MaxItemsBytes,     \* Dictionary
    MaxVersion, SnapshotReads,
    App, Home, Nav, Segment, MaxNavNodes, MaxWrites                    \* Applications

\* A tree is a finite set of rows, and no row has the name of what is above all of them
\* (parent_id IS NULL).
ASSUME TreesAssumption ==
    /\ IsFiniteSet(Department) /\ "root" \notin Department
    /\ IsFiniteSet(Item) /\ "root" \notin Item
    /\ IsFiniteSet(Nav) /\ "root" \notin Nav
    /\ MaxTreeNodes \in Nat /\ MaxItemsBytes \in Nat /\ MaxNavNodes \in Nat
    /\ Home \in App

VARIABLES
    dept, parent, belongs, primary, membership, treeTx, leaseLost,     \* Departments
    tenantStatus, removal,
    definition, item, revision, mover, query, stored,                  \* Dictionary
    app, grant, tenancy, context, nav, deleting, reader, source        \* Applications

Tree == INSTANCE Departments

Dictionaries == INSTANCE Dictionary

Apps == INSTANCE Applications

\* DepartmentsAreForest and AssignmentsAreSound of Departments, DictionaryIsSound of Dictionary
\* and ApplicationsAreSound of Applications: no concurrent move closes a cycle, and none leaves a
\* department below a deleted one while the tenant is there and the lease of the tree holds;
\* members of a tenant that is there belong to departments that exist; every node within the
\* limits is served, cached answers are fresh, and grants and contexts name what is there.
TreesAreSound ==
    /\ Tree!DepartmentsAreForest /\ Tree!AssignmentsAreSound
    /\ Dictionaries!DictionaryIsSound
    /\ Apps!ApplicationsAreSound
=============================================================================
