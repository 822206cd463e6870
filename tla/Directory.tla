----------------------------- MODULE Directory -----------------------------
(***************************************************************************)
(* Users (identity/user.go) and tenants (tenant/service.go), and the cache *)
(* in front of both.  A user is cached under its id and under its username,*)
(* a tenant under its id; every operation on the cache may fail unnoticed, *)
(* which stands for an entry that expires too.  A user is read version     *)
(* first, cache second; a tenant cache first, version second.  Both fall   *)
(* back to the row and then write what they loaded, however old it has     *)
(* become by then.                                                         *)
(*                                                                         *)
(* A username stays taken when its user is deleted, and ids are never used *)
(* again, so a name stands for one row for ever.                           *)
(***************************************************************************)
EXTENDS Naturals

CONSTANTS
    Person,         \* users
    Organisation,   \* tenants
    Task,           \* requests under way, on any replica
    Status,         \* the statuses that an update may set
    MaxRowVersion   \* bound of the rows' versions: one row may reach it by an update

VARIABLES
    entity,         \* the rows of users and of tenants
    owner,          \* the user each tenant was created for
    entry,          \* the cache
    task            \* the requests

vars == <<entity, owner, entry, task>>

-----------------------------------------------------------------------------

Subject == Person \cup Organisation

Missing == [version |-> 0, status |-> "missing"]

Miss == [version |-> 0, status |-> "miss"]

Keys(s) == IF s \in Person THEN {<<"id", s>>, <<"username", s>>} ELSE {<<"tenant", s>>}

Key == UNION {Keys(s) : s \in Subject}

NoTask == [pc |-> "idle"]

\* The rows that migrations and earlier runs left: none.
Init == /\ entity = [s \in Subject |-> [live |-> FALSE, row |-> Missing]]
        /\ owner = [o \in {} |-> Missing]
        /\ entry = [k \in Key |-> Miss]
        /\ task = [t \in Task |-> NoTask]

\* What the database tells of a row.
get(s) == IF entity[s].live THEN entity[s].row ELSE Missing

Live(s) == entity[s].live

Free(t) == task[t].pc \in {"idle", "answered"}

Begin(t, s, pc, key, version) ==
    task' = [task EXCEPT ![t] = [pc |-> pc, of |-> s, key |-> key, version |-> version,
                                 got |-> Miss, puts |-> {}, then |-> "answer", was |-> {get(s)}]]

\* A request ends.  A read's answer is fresh when it is what the row was at
\* some moment since the read began.
Answer(t, record) ==
    task' = [task EXCEPT ![t] = CASE @.then = "answer" -> [pc |-> "answered", fresh |-> record \in @.was]
                                  [] @.then = "done" -> NoTask
                                  [] OTHER -> IF record = Missing THEN NoTask
                                              ELSE [pc |-> "insert", of |-> @.of, then |-> @.then,
                                                    fresh |-> record \in @.was]]

\* The row of s changes under every request that is reading it.
Commit(t, s, live, row, step) ==
    /\ entity' = [entity EXCEPT ![s] = [live |-> live, row |-> row]]
    /\ task' = [u \in Task |->
                  IF u = t THEN step
                  ELSE IF "was" \in DOMAIN task[u] /\ task[u].of = s /\ task[u].then # "done"
                       THEN [task[u] EXCEPT !.was = @ \cup {IF live THEN row ELSE Missing}]
                       ELSE task[u]]

-----------------------------------------------------------------------------
\* Reads

\* Service.Get and ResolveUsername: the version comes first.
versionByID(t, p, key) ==
    /\ Free(t) /\ key \in Keys(p) /\ p \in Person
    /\ IF Live(p) THEN Begin(t, p, "lookup", key, entity[p].row.version)
       ELSE task' = [task EXCEPT ![t] = [pc |-> "answered", fresh |-> TRUE]]
    /\ UNCHANGED <<entity, owner, entry>>

\* Mutant: an entry is believed without its version.
Current_Any(record, version) == record # Miss

\* value.Version == version && matches(value)
Current(record, version) == record # Miss /\ record.version = version

\* cached: the entry, unless it is missing, unreadable or of another version.
cached(t) ==
    /\ task[t].pc = "lookup"
    /\ \/ Current(entry[task[t].key], task[t].version) /\ Answer(t, entry[task[t].key])
       \/ task' = [task EXCEPT ![t].pc = "load"]
    /\ UNCHANGED <<entity, owner, entry>>

\* tenant Service.Get: the entry comes first.
TenantGet(t, o) ==
    /\ Free(t) /\ o \in Organisation
    /\ LET hit == entry[<<"tenant", o>>] IN
       \/ hit # Miss /\ task' = [task EXCEPT ![t] =
            [pc |-> "verify", of |-> o, key |-> <<"tenant", o>>, version |-> 0,
             got |-> hit, puts |-> {}, then |-> "answer", was |-> {get(o)}]]
       \/ Begin(t, o, "load", <<"tenant", o>>, 0)
    /\ UNCHANGED <<entity, owner, entry>>

\* ... and CurrentVersion after it.
CurrentVersion(t) ==
    /\ task[t].pc = "verify"
    /\ LET o == task[t].of IN
       IF ~Live(o) THEN Answer(t, Missing)
       ELSE IF Current(task[t].got, entity[o].row.version) THEN Answer(t, task[t].got)
       ELSE task' = [task EXCEPT ![t].pc = "load"]
    /\ UNCHANGED <<entity, owner, entry>>

\* loader, and repository.Get of a tenant.
Load(t) ==
    /\ task[t].pc = "load"
    /\ LET s == task[t].of IN
       IF Live(s) THEN task' = [task EXCEPT ![t].pc = "cache", ![t].got = get(s), ![t].puts = Keys(s)]
       ELSE Answer(t, Missing)
    /\ UNCHANGED <<entity, owner, entry>>

\* cacheUser, and the Set of a tenant: one key after the other, each may fail.
cacheUser(t) ==
    /\ task[t].pc = "cache"
    /\ \/ \E k \in task[t].puts :
            /\ task' = [task EXCEPT ![t].puts = @ \ {k}]
            /\ \/ entry' = [entry EXCEPT ![k] = task[t].got]
               \/ UNCHANGED entry
            /\ UNCHANGED <<entity, owner>>
       \/ task[t].puts = {} /\ Answer(t, task[t].got) /\ UNCHANGED <<entity, owner, entry>>

-----------------------------------------------------------------------------
\* Writes

Wrote(s, row, pc, puts) ==
    [pc |-> pc, of |-> s, key |-> CHOOSE k \in Keys(s) : TRUE, version |-> 0, got |-> row,
     puts |-> puts, then |-> "done", was |-> {}]

Writes(t, s, pc) == task' = [task EXCEPT ![t] = [Wrote(s, Miss, pc, {}) EXCEPT !.version = entity[s].row.version]]

\* Service.Create of a user: the row, then the cache.
CreateUser(t, p) ==
    /\ Free(t) /\ p \in Person /\ entity[p].row.version = 0
    /\ LET row == [version |-> 1, status |-> "active"] IN
       Commit(t, p, TRUE, row, Wrote(p, row, "cache", Keys(p)))
    /\ UNCHANGED <<owner, entry>>

\* tenant Service.Create resolves its owner the way every reader does ...
ResolveOwner(t, o, p) ==
    /\ Free(t) /\ o \in Organisation /\ p \in Person /\ entity[o].row.version = 0 /\ Live(p)
    /\ task' = [task EXCEPT ![t] =
         [pc |-> "lookup", of |-> p, key |-> <<"username", p>>, version |-> entity[p].row.version,
          got |-> Miss, puts |-> {}, then |-> o, was |-> {get(p)}]]
    /\ UNCHANGED <<entity, owner, entry>>

\* ... and inserts the tenant, its owner's membership and administrator; no entry is written.
CreateTenant(t) ==
    /\ task[t].pc = "insert" /\ entity[task[t].then].row.version = 0
    /\ LET o == task[t].then
           row == [version |-> 1, status |-> "active"] IN
       /\ Commit(t, o, TRUE, row, NoTask)
       /\ owner' = [x \in DOMAIN owner \cup {o} |-> IF x = o THEN task[t].of ELSE owner[x]]
    /\ UNCHANGED entry

\* The version a request carries was the row's when its client read it.
UpdateStarts(t, s) ==
    /\ Free(t) /\ Live(s)
    /\ Writes(t, s, "update")
    /\ UNCHANGED <<entity, owner, entry>>

MayUpdate == \A x \in Subject : entity[x].row.version < MaxRowVersion

\* Update, UpdateSelf and AdminUpdate.  The new row is read before the commit.
Update(t, status) ==
    /\ task[t].pc = "update"
    /\ LET s == task[t].of IN
       IF Live(s) /\ entity[s].row.version = task[t].version /\ MayUpdate
       THEN LET row == [version |-> task[t].version + 1, status |-> status] IN
            Commit(t, s, TRUE, row, Wrote(s, row, "invalidate", IF s \in Person THEN Keys(s) ELSE {}))
       ELSE task' = [task EXCEPT ![t] = NoTask] /\ UNCHANGED entity
    /\ UNCHANGED <<owner, entry>>

\* A tenant's owner and the members keep a user; a tenant's rows go with it.
Referenced(s) == \E o \in DOMAIN owner : owner[o] = s /\ Live(o)

\* The first statements of Delete: the references are counted without a lock.
DeleteStarts(t, s) ==
    /\ Free(t) /\ Live(s) /\ ~Referenced(s)
    /\ Writes(t, s, "delete")
    /\ UNCHANGED <<entity, owner, entry>>

Delete(t) ==
    /\ task[t].pc = "delete"
    /\ LET s == task[t].of IN
       IF Live(s) /\ entity[s].row.version = task[t].version
       THEN Commit(t, s, FALSE, [version |-> task[t].version + 1, status |-> "closed"],
                   Wrote(s, Missing, "invalidate", {}))
       ELSE task' = [task EXCEPT ![t] = NoTask] /\ UNCHANGED entity
    /\ UNCHANGED <<owner, entry>>

\* After the commit both keys go in one call, which may fail.
invalidate(t) ==
    /\ task[t].pc = "invalidate"
    /\ task' = [task EXCEPT ![t].pc = "cache"]
    /\ \/ entry' = [k \in Key |-> IF k \in Keys(task[t].of) THEN Miss ELSE entry[k]]
       \/ UNCHANGED entry
    /\ UNCHANGED <<entity, owner>>

\* The process ends or a statement fails: nothing more is done.
Abandon(t) ==
    /\ ~Free(t)
    /\ task' = [task EXCEPT ![t] = NoTask]
    /\ UNCHANGED <<entity, owner, entry>>

Next ==
    \E t \in Task :
      \/ \E p \in Person, k \in Key : versionByID(t, p, k)
      \/ \E o \in Organisation : TenantGet(t, o)
      \/ \E s \in Subject : UpdateStarts(t, s) \/ DeleteStarts(t, s)
      \/ \E p \in Person : CreateUser(t, p)
      \/ \E o \in Organisation, p \in Person : ResolveOwner(t, o, p)
      \/ \E status \in Status : Update(t, status)
      \/ cached(t) \/ CurrentVersion(t) \/ Load(t) \/ cacheUser(t)
      \/ CreateTenant(t) \/ Delete(t) \/ invalidate(t) \/ Abandon(t)

Spec == Init /\ [][Next]_vars

-----------------------------------------------------------------------------
\* Properties

\* A read answers with what the row was at some moment between its beginning
\* and its end, whichever entries late readers, failed invalidations and
\* earlier versions left in the cache: the comment of cached, "deletion and
\* version are authoritative even when Redis invalidation fails".
AnswersAreCurrent == \A t \in Task : task[t].pc \in {"answered", "insert"} => task[t].fresh
=============================================================================
