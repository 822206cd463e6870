------------------------------- MODULE Listing -------------------------------
(***************************************************************************)
(* The listings of the services.  A page is two statements outside a       *)
(* transaction, a count and a SELECT ... ORDER BY ... LIMIT ... OFFSET, so *)
(* a client that walks the pages reads a table that changes under it, and  *)
(* the database may return rows its ORDER BY does not tell apart in any    *)
(* order, a different one for every page.  Trees and other lists that have *)
(* no pages are read with one row more than their limit and refused when   *)
(* it comes.  Reading a page of the operation log writes to that log.      *)
(*                                                                         *)
(* A row is seen as the listings see it: whose it is, and what the columns *)
(* they sort by say.  "key" is a column that is unique among live rows     *)
(* (a code, a key, a version number), "at" one that is shared (a time, a   *)
(* name, a position).                                                      *)
(***************************************************************************)
EXTENDS Integers, Sequences, SequencesExt, FiniteSets

CONSTANTS
    Row,                \* the rows, numbers
    DefaultPageSize,    \* pagination.DefaultPageSize
    MaxPageSize,        \* pagination.MaxPageSize
    MaxRows,            \* the limit of a list that has no pages
    MaxWrites           \* bound on the writes of a behaviour

VARIABLES
    table,      \* the rows
    walk,       \* a client that reads one listing to its end
    written     \* writes so far

vars == <<table, walk, written>>

-----------------------------------------------------------------------------
\* Rows and orders

\* Of the caller's tenant; of another one; of no tenant (global, system); of the
\* caller's tenant, but the joined row is gone, it is disabled, or the data scope excludes it.
Kind == {"own", "other", "shared", "closed"}

Of(kinds) == {r \in Row : table[r].live /\ table[r].kind \in kinds}

ColumnValue(r, column) == CASE column = "at" -> table[r].at [] column = "key" -> -r [] OTHER -> r

Asc(column) == [column |-> column, desc |-> FALSE]

Desc(column) == [column |-> column, desc |-> TRUE]

Before(a, b, by) ==
    \E i \in DOMAIN by :
      /\ \A j \in 1..(i - 1) : ColumnValue(a, by[j].column) = ColumnValue(b, by[j].column)
      /\ IF by[i].desc THEN ColumnValue(a, by[i].column) > ColumnValue(b, by[i].column)
                       ELSE ColumnValue(a, by[i].column) < ColumnValue(b, by[i].column)

\* What the database may answer.
OrderedBy(rows, by) == {s \in SetToSeqs(rows) : \A i, j \in DOMAIN s : i < j => ~Before(s[j], s[i], by)}

Limit(s, from, n) == SubSeq(s, from + 1, IF Len(s) < from + n THEN Len(s) ELSE from + n)

-----------------------------------------------------------------------------
\* The request

Normalize(size) == IF size = 0 THEN DefaultPageSize ELSE size

ValidSize(size) == size >= 0 /\ Normalize(size) <= MaxPageSize

\* Mutant: the first page begins after itself.
Offset_FromOne(page, size) == page * size

Offset(page, size) == (page - 1) * size

Distinct(sorts) == \A i, j \in DOMAIN sorts : i # j => sorts[i].column # sorts[j].column

\* Mutant: an order the client asked for has no tie-break.
ById_NoTie(sorts, default) == IF sorts = <<>> THEN default ELSE sorts

\* The four order functions: the identifier decides where the client's columns do not.
ById(sorts, default) == IF sorts = <<>> THEN default ELSE sorts \o <<Asc("id")>>

definitionOrder(sorts) == ById(sorts, <<Asc("key"), Asc("id")>>)

runOrder(sorts) == ById(sorts, <<Desc("at"), Asc("id")>>)

applicationOrder(sorts) == ById(sorts, <<Asc("at"), Asc("id")>>)

grantOrder(sorts) == ById(sorts, <<Desc("at"), Asc("id")>>)

dictionaryOrder(sorts) == ById(sorts, <<Asc("at"), Asc("id")>>)

-----------------------------------------------------------------------------
\* The listings: who may ask, which rows, in which order

Everybody == {"platform", "tenant"}

Paged(callers, rows, by) == [callers |-> callers, rows |-> rows, by |-> by, paged |-> TRUE]

Whole(callers, rows, by) == [callers |-> callers, rows |-> rows, by |-> by, paged |-> FALSE]

Newest == <<Desc("at"), Asc("id")>>

JobDefinitions(sorts) == Paged(Everybody, Of(Kind), definitionOrder(sorts))

JobRuns(sorts) == Paged(Everybody, Of({"own"}), runOrder(sorts))

Configs == Paged(Everybody, Of(Kind), <<Asc("at"), Asc("key")>>)

PublicConfigs == Whole(Everybody, Of({"own", "other", "shared"}), <<Asc("at"), Asc("key")>>)

ServiceAccounts == Paged(Everybody, Of(Kind), Newest)

UserRows == Of(Kind)

Users == Paged(Everybody, UserRows, Newest)

\* A tenant sees itself, the platform every tenant.
TenantRows(kinds) == Paged({"tenant"}, Of(kinds), Newest)

Tenants == TenantRows({"own"})

AllTenants == [TenantRows(Kind) EXCEPT !.callers = {"platform"}]

AvailablePage == Paged(Everybody, Of({"own"}), <<Asc("at"), Asc("id")>>)

Available == [AvailablePage EXCEPT !.paged = FALSE]

DictionaryDefinitions == Paged(Everybody, Of(Kind), <<Asc("key")>>)

DictionaryItems == Paged(Everybody, Of({"own"}), <<Asc("at"), Asc("key"), Asc("id")>>)

ApplicationPage(sorts) == Paged(Everybody, Of(Kind), applicationOrder(sorts))

ApplicationOptions(sorts) == Paged(Everybody, Of({"own", "other", "shared"}), dictionaryOrder(sorts))

GrantPage(sorts) == Paged({"platform"}, Of({"own"}), grantOrder(sorts))

pageRoles == Paged({"tenant"}, Of({"own"}), Newest)

RoleAssignmentCandidates == [pageRoles EXCEPT !.callers = {"tenant"}]

pageAdministratorCandidates == Paged(Everybody, Of({"own"}), Newest)

PlatformAdministratorCandidates == [pageAdministratorCandidates EXCEPT !.callers = {"platform"}]

TenantAdministratorCandidates == [pageAdministratorCandidates EXCEPT !.callers = {"tenant"}]

TenantGrantablePermissions == Paged({"platform"}, Of({"own", "other"}), <<Asc("key"), Asc("id")>>)

TenantPermissionCeiling == Whole({"platform"}, Of({"own", "closed"}), <<Asc("key"), Asc("id")>>)

PageMembers == Paged({"tenant"}, Of({"own"}), Newest)

\* A filter by contact is resolved first, and refused when it names too many users.
Members == IF Cardinality(UserRows) > MaxRows THEN [PageMembers EXCEPT !.callers = {}] ELSE PageMembers

Departments == Whole({"tenant"}, Of({"own"}), <<Asc("at"), Asc("id")>>)

Permissions == Whole(Everybody, Of(Kind), <<Asc("at"), Asc("id")>>)

Navigations == Whole(Everybody, Of({"own"}), <<Asc("at"), Asc("id")>>)

pageConditions(kinds, by) == Paged(Everybody, Of(kinds), by)

Resources == pageConditions(Kind, <<Asc("key"), Asc("id")>>)

Actions == pageConditions({"own", "other", "shared"}, <<Asc("at"), Asc("key"), Asc("id")>>)

PlatformGrants == Paged(Everybody, Of({"own", "other", "shared"}), <<Desc("at"), Desc("id")>>)

GrantablePermissions == Paged(Everybody, Of({"shared"}), <<Asc("key"), Asc("id")>>)

\* A tenant sees the global policies and its own, the platform the global ones.
visiblePolicies(caller) == Of(IF caller = "tenant" THEN {"own", "shared"} ELSE {"shared"})

Policies(caller) == Paged(Everybody, visiblePolicies(caller), Newest)

Versions(caller) == Paged(Everybody, visiblePolicies(caller), <<Desc("key")>>)

Logs(kinds) == Paged(Everybody, Of(kinds), <<Desc("at"), Desc("id")>>)

OperationLogs == [Logs({"own", "closed"}) EXCEPT !.callers = {"tenant"}]

SystemOperationLogs == [Logs({"shared"}) EXCEPT !.callers = {"platform"}]

SecurityLogs == [Logs({"own", "closed"}) EXCEPT !.callers = {"tenant"}]

SystemSecurityLogs == [Logs({"shared"}) EXCEPT !.callers = {"platform"}]

Files(caller) == Paged(Everybody, Of(IF caller = "tenant" THEN {"own"} ELSE {"shared"}), Newest)

Name == {"jobs", "runs", "configs", "public configs", "accounts", "users", "tenants", "all tenants", "available page",
         "available", "dictionaries", "items", "applications", "options", "grants", "roles", "assignable roles",
         "administrators", "own administrators", "grantable", "ceiling", "members", "departments", "permissions",
         "navigation", "resources", "actions", "platform grants", "platform grantable", "policies", "versions",
         "operation log", "system log", "security log", "system security log", "files"}

\* The listings that let the client choose the order.
Sortable == {"jobs", "runs", "applications", "options", "grants"}

List(name, caller, sorts) ==
    CASE name = "jobs" -> JobDefinitions(sorts) [] name = "runs" -> JobRuns(sorts)
      [] name = "configs" -> Configs [] name = "public configs" -> PublicConfigs
      [] name = "accounts" -> ServiceAccounts [] name = "users" -> Users
      [] name = "tenants" -> Tenants [] name = "all tenants" -> AllTenants
      [] name = "available page" -> AvailablePage [] name = "available" -> Available
      [] name = "dictionaries" -> DictionaryDefinitions [] name = "items" -> DictionaryItems
      [] name = "applications" -> ApplicationPage(sorts) [] name = "options" -> ApplicationOptions(sorts)
      [] name = "grants" -> GrantPage(sorts) [] name = "roles" -> pageRoles
      [] name = "assignable roles" -> RoleAssignmentCandidates
      [] name = "administrators" -> PlatformAdministratorCandidates
      [] name = "own administrators" -> TenantAdministratorCandidates
      [] name = "grantable" -> TenantGrantablePermissions [] name = "ceiling" -> TenantPermissionCeiling
      [] name = "members" -> Members [] name = "departments" -> Departments
      [] name = "permissions" -> Permissions [] name = "navigation" -> Navigations
      [] name = "resources" -> Resources [] name = "actions" -> Actions
      [] name = "platform grants" -> PlatformGrants [] name = "platform grantable" -> GrantablePermissions
      [] name = "policies" -> Policies(caller) [] name = "versions" -> Versions(caller)
      [] name = "operation log" -> OperationLogs [] name = "system log" -> SystemOperationLogs
      [] name = "security log" -> SecurityLogs [] name = "system security log" -> SystemSecurityLogs
      [] name = "files" -> Files(caller)

-----------------------------------------------------------------------------
\* A walk

NoWalk == [pc |-> "idle"]

Init == /\ table \in {[r \in Row |-> [live |-> r # 3, kind |-> kind, at |-> 1]] : kind \in {"own", "shared"}}
        /\ walk = NoWalk /\ written = 0

Current == List(walk.name, walk.caller, walk.sorts)

\* The client asks for the first page; a request that is not valid is refused.
Ask(name, caller, sorts, size) ==
    /\ walk.pc = "idle" /\ (sorts # <<>> => name \in Sortable)
    /\ LET list == List(name, caller, sorts) IN
       walk' = IF caller \notin list.callers \/ ~ValidSize(size) \/ ~Distinct(sorts) THEN [pc |-> "refused"]
               ELSE [pc |-> IF list.paged THEN "asked" ELSE "reading", name |-> name, caller |-> caller, sorts |-> sorts,
                     size |-> Normalize(size), page |-> 1, total |-> 0, seen |-> <<>>,
                     start |-> list.rows, left |-> FALSE, wrote |-> FALSE, torn |-> FALSE]
    /\ UNCHANGED <<table, written>>

\* SELECT count(*).
Count ==
    /\ walk.pc = "asked"
    /\ walk' = [walk EXCEPT !.pc = "counted", !.total = Cardinality(Current.rows), !.torn = FALSE]
    /\ UNCHANGED <<table, written>>

\* SELECT ... LIMIT ? OFFSET ?; a page of the operation log is recorded in the
\* log, where it arrives later.
Select ==
    /\ walk.pc = "counted"
    /\ \E s \in OrderedBy(Current.rows, Current.by) :
         walk' = [walk EXCEPT !.pc = "answered", !.seen = @ \o Limit(s, Offset(walk.page, walk.size), walk.size)]
    /\ UNCHANGED <<table, written>>

\* The client goes on while the total says that there is more.
NextPage ==
    /\ walk.pc = "answered"
    /\ walk' = IF walk.page * walk.size < walk.total THEN [walk EXCEPT !.pc = "asked", !.page = @ + 1]
               ELSE [walk EXCEPT !.pc = "done"]
    /\ UNCHANGED <<table, written>>

\* Mutant: a list that is too long is cut off.
Complete_Cut(s) == <<Limit(s, 0, MaxRows)>>

\* One row more than the limit is read, and refuses the answer.
Complete(s) == IF Len(s) > MaxRows THEN <<>> ELSE <<s>>

ReadWhole ==
    /\ walk.pc = "reading"
    /\ \E s \in OrderedBy(Current.rows, Current.by) :
         LET answer == Complete(Limit(s, 0, MaxRows + 1)) IN
         walk' = IF answer = <<>> THEN [pc |-> "refused"]
                 ELSE [walk EXCEPT !.pc = "done", !.seen = answer[1], !.total = Len(answer[1])]
    /\ UNCHANGED <<table, written>>

-----------------------------------------------------------------------------
\* What others write while the client walks

Walking == walk.pc \in {"asked", "counted", "answered", "reading"}

\* The walk remembers whether a row of its listing went or moved.
Write(r, row, gone) ==
    /\ Walking /\ written < MaxWrites
    /\ table' = [table EXCEPT ![r] = row]
    /\ walk' = [walk EXCEPT !.wrote = TRUE, !.left = @ \/ (gone /\ r \in Current.rows), !.torn = @ \/ walk.pc = "counted"]
    /\ written' = written + 1

Insert(r, kind, at) == ~table[r].live /\ Write(r, [live |-> TRUE, kind |-> kind, at |-> at], FALSE)

Delete(r) == table[r].live /\ Write(r, [table[r] EXCEPT !.live = FALSE], TRUE)

\* An update of the sort column, or of what decides who sees the row.
Change(r, kind, at) == table[r].live /\ Write(r, [live |-> TRUE, kind |-> kind, at |-> at], TRUE)

Next == \/ \E name \in Name, caller \in Everybody, size \in -1..(MaxPageSize + 1),
              sorts \in {<<>>, <<Desc("at")>>, <<Asc("at"), Desc("at")>>} : Ask(name, caller, sorts, size)
        \/ Count \/ Select \/ NextPage \/ ReadWhole
        \/ \E r \in Row : Delete(r) \/ \E kind \in {"own", "closed"}, at \in 1..2 : Insert(r, kind, at) \/ Change(r, kind, at)

Spec == Init /\ [][Next]_vars

-----------------------------------------------------------------------------

\* A client that walks a listing from its first page to its last misses no row
\* that was there all the time, whatever was inserted meanwhile, unless a row
\* left or moved or the last page was counted before an insert and read after
\* it; when nothing was written it sees every row once and the total is right.
\* A list without pages is complete or refused, never cut off.
WalksAreComplete ==
    walk.pc = "done" =>
      /\ ~walk.left /\ ~walk.torn => walk.start \subseteq {walk.seen[i] : i \in DOMAIN walk.seen}
      /\ ~walk.wrote => Len(walk.seen) = Cardinality(walk.start) /\ walk.total = Len(walk.seen)
=============================================================================
