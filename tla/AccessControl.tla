---------------------------- MODULE AccessControl ----------------------------
(***************************************************************************)
(* What authorization decides by: the members and roles of a tenant, and   *)
(* the catalog of permissions and actions that roles and grants name.      *)
(***************************************************************************)
EXTENDS TenantAccess, FiniteSets

CONSTANTS CodeAction, ManualAction, CatalogBuild, Defined, TenantScope, PermissionNode, SeedNode,
          Principal                                                \* PermissionCatalog

\* A synchronisation refuses a key of the code that a manual entry holds (ErrSourceConflict), and the
\* ids derived from the manifest's keys are not handed out otherwise; builds are numbered, and "none"
\* names no action.
ASSUME CatalogAssumption ==
    /\ CodeAction \cap ManualAction = {} /\ PermissionNode \cap SeedNode = {}
    /\ CatalogBuild \subseteq Nat /\ "none" \notin CodeAction \cup ManualAction

VARIABLES action, resource, build, perm, link, platformGrant, tenantRef, rescoped  \* PermissionCatalog

Catalog == INSTANCE PermissionCatalog WITH Node <- PermissionNode, Build <- CatalogBuild

\* CatalogIsSound, PermissionsAreForest and OneScope of PermissionCatalog: nothing that
\* authorizes dangles, every permission hangs below groups, and its actions share a scope.
CatalogIsSound == Catalog!CatalogIsSound /\ Catalog!PermissionsAreForest /\ Catalog!OneScope

\* CatalogFollowsNewestBuild of PermissionCatalog: while old and new builds restart side by
\* side, the code's actions are those of the newest one.
CatalogFollowsNewestBuild == Catalog!CatalogFollowsNewestBuild
=============================================================================
