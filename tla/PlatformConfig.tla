--------------------------- MODULE PlatformConfig ---------------------------
(***************************************************************************)
(* The platform's configuration entries (platformconfig/service.go) and    *)
(* their public view, which is cached under the key, the id and the        *)
(* version.  The id is derived from the key: a deleted entry that is       *)
(* created again is the same row.  An anonymous read looks at the row's    *)
(* visibility, at the cache, and at the value, in that order and apart.    *)
(***************************************************************************)
EXTENDS Naturals, FiniteSets

CONSTANTS
    Value,          \* contents of an entry
    ConfigReader,   \* anonymous reads under way
    MaxWrites       \* bound of the version of the entry

VARIABLES
    config,         \* the row of one key
    cached,         \* the cache: version -> value
    configRead,     \* the reads
    seen            \* what each read could have been told since it began

vars == <<config, cached, configRead, seen>>

-----------------------------------------------------------------------------

NoConfig == [stage |-> "none", version |-> 0]

Nobody == "not_found"

NoRead == [stage |-> "idle"]

Init == /\ config = NoConfig
        /\ cached = [v \in {} |-> Nobody]
        /\ configRead = [r \in ConfigReader |-> NoRead]
        /\ seen = [r \in ConfigReader |-> {}]

\* What an anonymous reader may be told of a row.
Told(row) == IF row.stage = "live" /\ row.public /\ row.status = "active" THEN row.value ELSE Nobody

Visible(row) == Told(row) # Nobody

\* The row changes, and so does what the reads under way may be told.
Put(row) == /\ config' = row
            /\ seen' = [r \in ConfigReader |-> seen[r] \cup {Told(row)}]
            /\ UNCHANGED <<cached, configRead>>

Row(value, public, status, version) ==
    [stage |-> "live", value |-> value, public |-> public, status |-> status, version |-> version]

\* Mutant: an entry that is created again begins with version 1.
CreatedVersion_First == 1

\* The row is inserted, or the deleted one of its id is taken up again.
CreatedVersion == config.version + 1

Create(value, public, status) ==
    /\ config.stage # "live" /\ config.version < MaxWrites
    /\ Put(Row(value, public, status, CreatedVersion))

Update(value, public, status, version) ==
    /\ config.stage = "live" /\ config.version = version /\ version < MaxWrites
    /\ Put(Row(value, public, status, version + 1))

Delete(version) ==
    /\ config.stage = "live" /\ config.version = version /\ version < MaxWrites
    /\ Put([stage |-> "deleted", version |-> version + 1])

-----------------------------------------------------------------------------
(* GetPublic: at most two rounds of visibility, cache and value.           *)

Answer(r, value) == configRead' = [configRead EXCEPT ![r] = [stage |-> "answered", value |-> value]]

GetPublic(r) ==
    /\ configRead[r].stage = "idle"
    /\ configRead' = [configRead EXCEPT ![r] = [stage |-> "begun", round |-> 1]]
    /\ seen' = [seen EXCEPT ![r] = {Told(config)}]
    /\ UNCHANGED <<config, cached>>

\* The authoritative visibility and the version.
ReadVisibility(r) ==
    /\ configRead[r].stage = "begun"
    /\ IF Visible(config)
       THEN configRead' = [configRead EXCEPT ![r] = [stage |-> "visible", round |-> configRead[r].round,
                                                     version |-> config.version]]
       ELSE Answer(r, Nobody)
    /\ UNCHANGED <<config, cached, seen>>

CacheAnswers(r) ==
    /\ configRead[r].stage = "visible" /\ configRead[r].version \in DOMAIN cached
    /\ Answer(r, cached[configRead[r].version])
    /\ UNCHANGED <<config, cached, seen>>

\* The value query names the id, the version and the visibility.
StillThere(r) == Visible(config) /\ config.version = configRead[r].version

\* The cache has missed or failed.  The value is stored (Set may fail) and answered, or the row
\* has changed: a second round, and no third.
ReadValue(r, stored) ==
    /\ configRead[r].stage = "visible"
    /\ IF StillThere(r)
       THEN /\ Answer(r, config.value)
            /\ cached' = IF stored
                         THEN [v \in DOMAIN cached \cup {configRead[r].version} |->
                                 IF v = configRead[r].version THEN config.value ELSE cached[v]]
                         ELSE cached
       ELSE /\ IF configRead[r].round = 1
               THEN configRead' = [configRead EXCEPT ![r] = [stage |-> "begun", round |-> 2]]
               ELSE Answer(r, "changed")
            /\ UNCHANGED cached
    /\ UNCHANGED <<config, seen>>

Leave(r) ==
    /\ configRead[r].stage = "answered"
    /\ configRead' = [configRead EXCEPT ![r] = NoRead]
    /\ seen' = [seen EXCEPT ![r] = {}]
    /\ UNCHANGED <<config, cached>>

\* The TTL of a cached view ends.
Expire(v) ==
    /\ v \in DOMAIN cached
    /\ cached' = [w \in DOMAIN cached \ {v} |-> cached[w]]
    /\ UNCHANGED <<config, configRead, seen>>

Next == \/ \E value \in Value, public \in BOOLEAN, status \in {"active", "disabled"} :
             \/ Create(value, public, status)
             \/ \E v \in 1..MaxWrites : Update(value, public, status, v)
        \/ \E v \in 1..MaxWrites : Delete(v) \/ Expire(v)
        \/ \E r \in ConfigReader : \/ GetPublic(r) \/ ReadVisibility(r) \/ CacheAnswers(r) \/ Leave(r)
                                   \/ \E stored \in BOOLEAN : ReadValue(r, stored)

Spec == Init /\ [][Next]_vars

-----------------------------------------------------------------------------
(* Properties.                                                             *)

\* An anonymous read is told what the entry was at some moment since the read began, or that
\* there is none when there was none then; a value that was withdrawn, disabled or deleted before
\* the read began is not told, cached or not.  A read that lost two rounds is told of none: the
\* entry has been written twice since.
PublicReadsAreCurrent ==
    \A r \in ConfigReader : configRead[r].stage = "answered" =>
       configRead[r].value \in seen[r] \cup {"changed"}

\* The cache agrees with the row under the row's version.
CacheAgrees == config.version \in DOMAIN cached /\ Visible(config) => cached[config.version] = config.value

\* Both of them.
ConfigIsSound == PublicReadsAreCurrent /\ CacheAgrees
=============================================================================
