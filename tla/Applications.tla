---------------------------- MODULE Applications ----------------------------
(***************************************************************************)
(* Applications, the tenants' grants of them, the application a session    *)
(* has selected (internal/application), and the navigation tree of an      *)
(* application with its cache (internal/navigation), seen from one tenant, *)
(* one member of it and one session.                                       *)
(*                                                                         *)
(* All writes are serializable transactions, one step each, except the     *)
(* deletion of the tenant, which is one step for each table it updates: a  *)
(* row that one of its UPDATEs has found is locked from then on, and a row *)
(* written later is not found.  CurrentTree reads the revision, the cache  *)
(* and the nodes one after the other.  A version that a caller names is    *)
(* the current one or the call fails, so the versions of tenant,           *)
(* applications and grants are left out; those of the navigation are part  *)
(* of the cache's key.                                                     *)
(***************************************************************************)
EXTENDS Naturals, FiniteSets, FiniteSetsExt

CONSTANTS
    App,          \* application codes; the id of an application is derived from its code
    Home,         \* the application whose navigation is followed
    Nav,          \* navigation keys of Home; the id of a node is derived from its key
    Segment,      \* last parts of route paths
    MaxNavNodes,  \* maxTreeNodes
    MaxWrites     \* bound of the writes to the navigation

VARIABLES
    app,          \* applications.status, or that the row is absent or deleted
    grant,        \* tenant_application_grants of the tenant
    tenancy,      \* the tenant is deleted, or with the membership and the session it is usable or not
    context,      \* application_session_contexts: the application, or "none"
    nav,          \* navigations of Home
    deleting,     \* a deleteTenant between its first statement and its last one
    reader,       \* a CurrentTree in progress
    source        \* a navigation:current-source entry of the cache; one is followed

vars == <<app, grant, tenancy, context, nav, deleting, reader, source>>

-----------------------------------------------------------------------------

\* A grant whose time is between starts_at and expires_at, or outside of them.
Window == {"active", "outside"}

NoNav == [state |-> "absent", type |-> "menu", up |-> "root", segment |-> "none",
          shown |-> FALSE, version |-> 0]

\* shown: visible and active.
NavInput == [type : {"directory", "menu"}, up : Nav \cup {"root"}, segment : Segment, shown : BOOLEAN]

\* The rows that the first at UPDATEs of deleteTenant found, in the order of the fields.
Deleting == [at : 0..2, context : BOOLEAN, grants : SUBSET App]

NoDeleting == [at |-> 0, context |-> FALSE, grants |-> {}]

NoReader == [on |-> FALSE, key |-> <<0, 0>>, since |-> 0]

Init == /\ app = [a \in App |-> "absent"]
        /\ grant = [a \in App |-> "none"]
        /\ tenancy = "usable"
        /\ context = "none"
        /\ nav = [n \in Nav |-> NoNav]
        /\ deleting = NoDeleting
        /\ reader = NoReader
        /\ source = {}

LiveApp(a) == app[a] \in {"active", "disabled"}

LiveNav == {n \in Nav : nav[n].state = "live"}

\* The write counter of the navigation, whatever its key in the cache.
Writes == MapThenSumSet(LAMBDA n : nav[n].version, Nav)

-----------------------------------------------------------------------------
(* Applications.                                                           *)

\* The id is the one of a deleted application of the same code: a conflict for ever.
Create(a, status) ==
    /\ app[a] = "absent"
    /\ app' = [app EXCEPT ![a] = status]
    /\ UNCHANGED <<grant, tenancy, context, nav, deleting, reader, source>>

Update(a, status) ==
    /\ LiveApp(a) /\ app[a] # status
    /\ app' = [app EXCEPT ![a] = status]
    /\ UNCHANGED <<grant, tenancy, context, nav, deleting, reader, source>>

\* A grant that is not revoked counts, whatever its window.
Granted(a) == grant[a] \in Window

\* Mutant: a disabled application is deleted with its grants in place.
Delete_Disabled(a) ==
    /\ LiveApp(a) /\ (a = Home => LiveNav = {}) /\ (app[a] = "active" => ~Granted(a))
    /\ app' = [app EXCEPT ![a] = "deleted"]
    /\ UNCHANGED <<grant, tenancy, context, nav, deleting, reader, source>>

\* Neither navigation nor grants are left.
Delete(a) ==
    /\ LiveApp(a) /\ (a = Home => LiveNav = {}) /\ ~Granted(a)
    /\ app' = [app EXCEPT ![a] = "deleted"]
    /\ UNCHANGED <<grant, tenancy, context, nav, deleting, reader, source>>

-----------------------------------------------------------------------------
(* Grants.                                                                 *)

\* A grant that a deleteTenant in flight has updated is locked until it ends.
Unlocked(a) == a \notin deleting.grants

\* Grant inserts the row, or locks it and renews it with another window; the tenant and the
\* application are locked and not deleted.
Grant(a, window) ==
    /\ tenancy # "deleted" /\ LiveApp(a) /\ Unlocked(a)
    /\ grant' = [grant EXCEPT ![a] = window]
    /\ UNCHANGED <<app, tenancy, context, nav, deleting, reader, source>>

Revoke(a) ==
    /\ tenancy # "deleted" /\ LiveApp(a) /\ Granted(a) /\ Unlocked(a)
    /\ grant' = [grant EXCEPT ![a] = "revoked"]
    /\ UNCHANGED <<app, tenancy, context, nav, deleting, reader, source>>

\* starts_at or expires_at is reached.
WindowMoves(a) ==
    /\ Granted(a)
    /\ grant' = [grant EXCEPT ![a] = IF @ = "outside" THEN "active" ELSE "outside"]
    /\ UNCHANGED <<app, tenancy, context, nav, deleting, reader, source>>

\* The tenant, the membership or the session is disabled, or enabled (TenantAccess, Sessions).
TenancyChanges ==
    /\ tenancy # "deleted"
    /\ tenancy' = IF tenancy = "usable" THEN "unusable" ELSE "usable"
    /\ UNCHANGED <<app, grant, context, nav, deleting, reader, source>>

\* The UPDATEs of deleteTenant: application_session_contexts and tenant_application_grants, each
\* with the rows that are live by then.
deleteTenantRows ==
    /\ tenancy # "deleted" /\ deleting.at < 2
    /\ deleting' = [at |-> deleting.at + 1,
                    context |-> IF deleting.at = 0 THEN context # "none" ELSE deleting.context,
                    grants |-> IF deleting.at = 1 THEN {a \in App : grant[a] # "none"}
                                                  ELSE deleting.grants]
    /\ UNCHANGED <<app, grant, tenancy, context, nav, reader, source>>

\* Its last statement, of the tenant itself, and its commit.
deleteTenant ==
    /\ tenancy # "deleted" /\ deleting.at = 2
    /\ tenancy' = "deleted"
    /\ context' = IF deleting.context THEN "none" ELSE context
    /\ grant' = [a \in App |-> IF a \in deleting.grants THEN "none" ELSE grant[a]]
    /\ deleting' = NoDeleting
    /\ UNCHANGED <<app, nav, reader, source>>

\* deleteTenant fails and rolls back.
deleteTenantFails ==
    /\ deleting.at > 0
    /\ deleting' = NoDeleting
    /\ UNCHANGED <<app, grant, tenancy, context, nav, reader, source>>

-----------------------------------------------------------------------------
(* What the member sees.                                                   *)

\* The membership, the tenant and the grant of the application are active.
Allowed(a) == app[a] = "active" /\ grant[a] = "active" /\ tenancy = "usable"

\* TenantAccessService.Current
Current == {a \in App : Allowed(a)}

\* CurrentContext joins all of it again.
CurrentContext == IF context # "none" /\ Allowed(context) THEN context ELSE "none"

\* SwitchContext locks the row, if there is one, and reads what it wrote by the same query before
\* it commits.
SwitchContext(a) ==
    /\ Allowed(a) /\ ~deleting.context
    /\ context' = a
    /\ UNCHANGED <<app, grant, tenancy, nav, deleting, reader, source>>

-----------------------------------------------------------------------------
(* The navigation tree.                                                    *)

\* The nodes on the way up from n, n included.
Path(tree, n) ==
    LET up[k \in 0..Cardinality(Nav)] ==
          IF k = 0 THEN n
          ELSE IF up[k - 1] \in DOMAIN tree THEN tree[up[k - 1]].up ELSE "root"
    IN  {up[k] : k \in 0..Cardinality(Nav)} \ {"root"}

\* Mutant: a menu may have children.
Build_AnyParent(tree) ==
    \A n \in DOMAIN tree :
       /\ tree[n].up # "root" => tree[n].up \in DOMAIN tree
       /\ \E r \in Path(tree, n) \cap DOMAIN tree : tree[r].up = "root"

\* Build: the parents are directories of the tree, there is no cycle, and no two siblings
\* have the same route (validateRoutePaths).
Build(tree) ==
    \A n \in DOMAIN tree :
       /\ tree[n].up # "root" => tree[n].up \in DOMAIN tree /\ tree[tree[n].up].type = "directory"
       /\ \E r \in Path(tree, n) \cap DOMAIN tree : tree[r].up = "root"
       /\ \A m \in DOMAIN tree \ {n} : tree[m].up = tree[n].up => tree[m].segment # tree[n].segment

\* Tree and CurrentTree answer up to this many nodes.
WithinLimit == Cardinality(LiveNav) <= MaxNavNodes

\* validateTree: the nodes as they are are within the limit, and with the node as it is to be
\* they are a tree.  The node that Create adds is not counted.
validateTree(n, in) ==
    /\ WithinLimit
    /\ Build([x \in LiveNav \cup {n} |->
                IF x = n THEN [up |-> in.up, type |-> in.type, segment |-> in.segment]
                ELSE [up |-> nav[x].up, type |-> nav[x].type, segment |-> nav[x].segment]])

\* The database's trigger gives the row its next version.
Row(n, in) == [state |-> "live", type |-> in.type, up |-> in.up, segment |-> in.segment,
               shown |-> in.shown, version |-> nav[n].version + 1]

\* The application is locked, so that it is not deleted meanwhile.  A deleted node's id is
\* never free again.
CreateNav(n, in) ==
    /\ Writes < MaxWrites
    /\ LiveApp(Home) /\ nav[n].state = "absent"
    /\ validateTree(n, in)
    /\ nav' = [nav EXCEPT ![n] = Row(n, in)]
    /\ UNCHANGED <<app, grant, tenancy, context, deleting, reader, source>>

UpdateNav(n, in) ==
    /\ Writes < MaxWrites
    /\ n \in LiveNav /\ validateTree(n, in)
    /\ nav' = [nav EXCEPT ![n] = Row(n, in)]
    /\ UNCHANGED <<app, grant, tenancy, context, deleting, reader, source>>

DeleteNav(n) ==
    /\ Writes < MaxWrites
    /\ n \in LiveNav /\ \A x \in LiveNav : nav[x].up # n
    /\ nav' = [nav EXCEPT ![n] = [NoNav EXCEPT !.state = "deleted", !.version = nav[n].version + 1]]
    /\ UNCHANGED <<app, grant, tenancy, context, deleting, reader, source>>

\* Mutant: the revision leaves the deleted rows out.
Revision_Live == <<MapThenSumSet(LAMBDA n : nav[n].version, LiveNav), Cardinality(LiveNav)>>

\* The version sum and the count of all rows, deleted ones included.
Revision == <<MapThenSumSet(LAMBDA n : nav[n].version, Nav),
              Cardinality({n \in Nav : nav[n].state # "absent"})>>

\* CurrentTree: the access is checked and the revision read, in one statement.
CurrentTree ==
    /\ ~reader.on /\ Allowed(Home)
    /\ reader' = [on |-> TRUE, key |-> Revision, since |-> Writes]
    /\ UNCHANGED <<app, grant, tenancy, context, nav, deleting, source>>

cachedCurrentRecords == {e \in source : e.key = reader.key}

\* The cache answers.
CacheAnswers ==
    /\ reader.on /\ cachedCurrentRecords # {}
    /\ reader' = NoReader
    /\ UNCHANGED <<app, grant, tenancy, context, nav, deleting, source>>

\* The nodes are selected, and may be cached under the revision read before; beyond the limit
\* they are neither cached nor returned.
SelectNodes(cached) ==
    /\ reader.on
    /\ cached => source = cachedCurrentRecords /\ WithinLimit
    /\ source' = IF cached THEN {[key |-> reader.key, nodes |-> Writes]} ELSE source
    /\ reader' = NoReader
    /\ UNCHANGED <<app, grant, tenancy, context, nav, deleting>>

Expire ==
    /\ source # {}
    /\ source' = {}
    /\ UNCHANGED <<app, grant, tenancy, context, nav, deleting, reader>>

\* The management tree: what matches (K), and its ancestors.
filter(K) == UNION {Path([x \in LiveNav |-> nav[x]], n) : n \in K \cap LiveNav}

\* PruneVisible of the tree below p: shown menus that are allowed, and the directories that
\* lead to one.
PruneVisible(allowed) ==
    LET tree == [n \in LiveNav |-> nav[n]]
        menu(m) == nav[m].type = "menu" /\ m \in allowed
                   /\ \A x \in Path(tree, m) : nav[x].shown
    IN  UNION {Path(tree, n) : n \in {m \in LiveNav : menu(m)}}

Next == \/ \E a \in App :
              \/ \E status \in {"active", "disabled"} : Create(a, status) \/ Update(a, status)
              \/ \E window \in Window : Grant(a, window)
              \/ Delete(a) \/ Revoke(a) \/ WindowMoves(a) \/ SwitchContext(a)
        \/ TenancyChanges \/ deleteTenantRows \/ deleteTenant \/ deleteTenantFails
        \/ \E n \in Nav : DeleteNav(n) \/ \E in \in NavInput : CreateNav(n, in) \/ UpdateNav(n, in)
        \/ CurrentTree \/ CacheAnswers \/ Expire
        \/ \E cached \in BOOLEAN : SelectNodes(cached)

Spec == Init /\ [][Next]_vars

-----------------------------------------------------------------------------
(* Properties.                                                             *)

ParentClosed(N) == \A n \in N : nav[n].up # "root" => nav[n].up \in N

\* The rows of the navigation are always a tree that Build accepts, so Tree and CurrentTree
\* answer while the nodes are within their limit, and validateTree, which counts them before
\* the node that Create adds, lets them exceed it by one at most.  A search keeps the ancestors
\* of what matches, and what a member sees has no directory that leads nowhere and no entry
\* below a hidden one.  Build in CurrentTree fails for the whole application when one row
\* breaks it, and every row is written by itself.
NavigationIsServed ==
    /\ Build([n \in LiveNav |-> nav[n]])
    /\ Cardinality(LiveNav) <= MaxNavNodes + 1
    /\ \A K \in SUBSET Nav : ParentClosed(filter(K)) /\ K \cap LiveNav \subseteq filter(K)
    /\ \A allowed \in SUBSET Nav :
         LET seen == PruneVisible(allowed)
         IN  /\ ParentClosed(seen)
             /\ \A n \in seen : /\ nav[n].shown
                                /\ nav[n].type = "menu" => n \in allowed
                                /\ nav[n].type = "directory" => \E m \in seen : nav[m].up = n

\* The cache of the navigation never answers nodes older than the revision that the request
\* read, although the nodes are read, and cached, after the revision: the key names the
\* revision, and no two states of the rows share one.
NavigationIsFresh ==
    \A e \in source : /\ reader.on /\ e.key = reader.key => e.nodes >= reader.since
                      /\ e.key = Revision => e.nodes = Writes

\* A grant that is not revoked names an application that is there, and so does the navigation:
\* Delete refuses an application that either of them still refers to, the grants of deleted
\* tenants included.  A deleted tenant has no application and no context, although a grant or
\* a context written after the UPDATE of its table survives the deletion.
GrantsAreSound ==
    /\ \A a \in App : Granted(a) => LiveApp(a)
    /\ LiveNav # {} => LiveApp(Home)
    /\ tenancy = "deleted" => Current = {} /\ CurrentContext = "none"
    /\ CurrentContext # "none" => CurrentContext \in Current

\* The three of them.
ApplicationsAreSound == NavigationIsServed /\ NavigationIsFresh /\ GrantsAreSound
=============================================================================
