----------------------------- MODULE Dictionary -----------------------------
(***************************************************************************)
(* A data dictionary (internal/dictionary): its definition, its items,     *)
(* which form a tree or a flat list, and the public query with its cache.  *)
(*                                                                         *)
(* Every change of an item locks the definition and increments its         *)
(* version.  UpdateItem reads the item before it has that lock: where the  *)
(* database gives a transaction one snapshot (MySQL), all its plain reads  *)
(* are of that moment; where every statement reads anew (PostgreSQL), they *)
(* are of the moment of the lock.  A query reads the definition, the cache *)
(* and the items one after the other, in no transaction.                   *)
(***************************************************************************)
EXTENDS Naturals, FiniteSets

CONSTANTS
    Item,            \* ids that CreateItem may use
    Value,           \* values of items: ids may be among them, "" stands for none
    MaxTreeNodes,    \* dictionary.max_tree_nodes
    MaxDepth,        \* maxDictionaryTreeDepth
    ItemBytes,       \* of each value, the length of an item that has it, encoded
    MaxItemsBytes,   \* maxDictionaryItemsBytes
    MaxVersion,      \* bound of the definition's version
    SnapshotReads    \* the plain reads of a transaction are of its first read

VARIABLES
    definition,      \* dictionary_definitions, of one dictionary
    item,            \* dictionary_items
    revision,        \* how often the items have changed
    mover,           \* an UpdateItem that has read its item and waits for the definition
    query,           \* a Query in progress
    stored           \* a dictionary:query entry of the cache, under its version; of several
                     \* entries, which never meet, one is followed

vars == <<definition, item, revision, mover, query, stored>>

-----------------------------------------------------------------------------

NoItem == [state |-> "absent", up |-> "root", value |-> "", disabled |-> FALSE]

Input == [state : {"live"}, up : Item \cup {"root"}, value : Value, disabled : BOOLEAN]

NoMover == [id |-> "none", seen |-> <<>>]

NoQuery == [on |-> FALSE, version |-> 0, since |-> 0, total |-> 0]

Init == /\ definition = [state |-> "absent", kind |-> "tree", source |-> "static", version |-> 0]
        /\ item = [i \in Item |-> NoItem]
        /\ revision = 0
        /\ mover = NoMover
        /\ query = NoQuery
        /\ stored = {}

Kept == definition.state \in {"active", "disabled"}

Live(rows) == {i \in Item : rows[i].state = "live"}

\* The items met on the way up from i, i included, until the root, a missing row, or an
\* item met before.
Path(rows, i) ==
    LET up[n \in 0..Cardinality(Item)] ==
          IF n = 0 THEN i
          ELSE IF up[n - 1] \in Live(rows) THEN rows[up[n - 1]].up ELSE "root"
    IN  {up[n] : n \in 0..Cardinality(Item)} \ {"root"}

\* The way up ends at a root item, over live items only.
Rooted(rows, i) == /\ Path(rows, i) \subseteq Live(rows)
                   /\ \E r \in Path(rows, i) : rows[r].up = "root"

\* COALESCE(NULLIF(value,''),id)
Selectable(rows, i) == IF rows[i].value = "" THEN i ELSE rows[i].value

-----------------------------------------------------------------------------
(* Definitions.                                                            *)

\* A provider-backed definition needs a registered provider.
CreateDefinition(kind, source, status) ==
    /\ definition.state = "absent"
    /\ definition' = [state |-> status, kind |-> kind, source |-> source, version |-> 1]
    /\ UNCHANGED <<item, revision, mover, query, stored>>

\* Its kind and source cannot change.
UpdateDefinition(status) ==
    /\ Kept /\ definition.version < MaxVersion
    /\ definition' = [definition EXCEPT !.state = status, !.version = @ + 1]
    /\ UNCHANGED <<item, revision, mover, query, stored>>

DeleteDefinition ==
    /\ Kept /\ Live(item) = {} /\ definition.version < MaxVersion
    /\ definition' = [definition EXCEPT !.state = "deleted", !.version = @ + 1]
    /\ UNCHANGED <<item, revision, mover, query, stored>>

-----------------------------------------------------------------------------
(* Items.                                                                  *)

ensureSelectableValueAvailable(i, in) ==
    LET value == IF in.value = "" THEN i ELSE in.value
    IN  \A j \in Live(item) \ {i} : Selectable(item, j) # value

\* Every live item is reached from the roots, within the depth limit.
validateStoredTreeDepth(rows) ==
    \A i \in Live(rows) : Rooted(rows, i) /\ Cardinality(Path(rows, i)) <= MaxDepth

\* Mutant: only the parent itself is compared with the item.
validateItemParentChain_Parent(rows, i, p) == p \in Live(rows) /\ p # i

\* The chain from the new parent ends at a root, and does not pass the item.
validateItemParentChain(rows, i, p) ==
    /\ p \in Live(rows) /\ Rooted(rows, p) /\ i \notin Path(rows, p)
    /\ Cardinality(Path(rows, p)) <= MaxDepth

\* UPDATE dictionary_definitions: the trigger increments the version.
Touched == [definition EXCEPT !.version = @ + 1]

\* Mutant: the definition keeps its version when an item is deleted.
TouchedByDelete_Not == definition

TouchedByDelete == Touched

\* A flat dictionary has no parents, a tree no more than MaxTreeNodes items.
Fits(in) == IF definition.kind = "enum" THEN in.up = "root"
            ELSE Cardinality(Live(item)) < MaxTreeNodes

CreateItem(i, in) ==
    /\ item[i].state = "absent" /\ definition.version < MaxVersion
    /\ Kept /\ definition.source = "static"
    /\ Fits(in)
    /\ in.up = "root" \/ in.up \in Live(item)
    /\ ensureSelectableValueAvailable(i, in)
    /\ item' = [item EXCEPT ![i] = in]
    /\ definition.kind = "tree" => validateStoredTreeDepth(item')
    /\ definition' = Touched
    /\ revision' = revision + 1
    /\ UNCHANGED <<mover, query, stored>>

\* UpdateItem, up to the lock on the definition.
UpdateItemReads(i) ==
    /\ mover = NoMover /\ i \in Live(item)
    /\ mover' = [id |-> i, seen |-> IF SnapshotReads THEN item ELSE <<>>]
    /\ UNCHANGED <<definition, item, revision, query, stored>>

\* The plain reads of the rest of UpdateItem.
Seen == IF SnapshotReads THEN mover.seen ELSE item

\* The rest of it; what it wrote itself it also reads.
UpdateItem(in) ==
    LET i == mover.id
    IN  /\ i \in Live(item) /\ definition.version < MaxVersion
        /\ Kept /\ definition.source = "static"
        /\ in.up # i /\ (in.up = "root" \/ definition.kind = "tree")
        /\ in.up # "root" => validateItemParentChain(Seen, i, in.up)
        /\ ensureSelectableValueAvailable(i, in)
        /\ definition.kind = "tree" => validateStoredTreeDepth([Seen EXCEPT ![i] = in])
        /\ item' = [item EXCEPT ![i] = in]
        /\ definition' = Touched
        /\ revision' = revision + 1
        /\ mover' = NoMover
        /\ UNCHANGED <<query, stored>>

\* UpdateItem is refused: the item is gone or has another version, or the move is invalid.
UpdateItemFails ==
    /\ mover # NoMover
    /\ mover' = NoMover
    /\ UNCHANGED <<definition, item, revision, query, stored>>

\* The children are read under the lock, whatever the isolation.
DeleteItem(i) ==
    /\ i \in Live(item) /\ definition.version < MaxVersion
    /\ Kept
    /\ \A j \in Live(item) : item[j].up # i
    /\ item' = [item EXCEPT ![i] = [NoItem EXCEPT !.state = "deleted"]]
    /\ definition' = TouchedByDelete
    /\ revision' = revision + 1
    /\ UNCHANGED <<mover, query, stored>>

-----------------------------------------------------------------------------
(* Queries.                                                                *)

\* Query reads the active definition; what follows uses the version it read.
Query ==
    /\ ~query.on /\ definition.state = "active" /\ definition.source = "static"
    /\ query' = [NoQuery EXCEPT !.on = TRUE, !.version = definition.version, !.since = revision]
    /\ UNCHANGED <<definition, item, revision, mover, stored>>

Hit == {e \in stored : e.version = query.version}

CacheAnswers ==
    /\ query.on /\ query.total = 0 /\ Hit # {}
    /\ query' = NoQuery
    /\ UNCHANGED <<definition, item, revision, mover, stored>>

\* queryStatic of a flat dictionary counts before it selects.  The revision read is kept,
\* one up, so that zero says that nothing was read.
CountRows ==
    /\ query.on /\ query.total = 0
    /\ query' = [query EXCEPT !.total = revision + 1]
    /\ UNCHANGED <<definition, item, revision, mover, stored>>

\* The rows of a query, of which disabled ones only on request.
selectQueryItems(all) == {i \in Live(item) : all \/ ~item[i].disabled}

\* The rows have more bytes than a result may; each byte counts with its row and its place.  No
\* write of an item counts them.
TooLarge(rows) ==
    Cardinality({b \in rows \X (1..MaxItemsBytes + 1) : b[2] <= ItemBytes[item[b[1]].value]})
      > MaxItemsBytes

\* queryStatic selects and answers; the answer may be cached under the version read.  A tree is
\* selected whole, whatever is searched for, and refused when it is too large; of a flat
\* dictionary, one page is.
queryStatic(all, cached) ==
    /\ query.on /\ (query.total # 0) = (definition.kind = "enum")
    /\ cached => stored = Hit /\ (definition.kind = "tree" => ~TooLarge(selectQueryItems(all)))
    /\ stored' = IF cached
                 THEN {[version |-> query.version, items |-> revision,
                        total |-> IF query.total = 0 THEN revision ELSE query.total - 1]}
                 ELSE stored
    /\ query' = NoQuery
    /\ UNCHANGED <<definition, item, revision, mover>>

\* CacheTTL passes.
Expire(e) ==
    /\ e \in stored
    /\ stored' = stored \ {e}
    /\ UNCHANGED <<definition, item, revision, mover, query>>

\* Mutant: an ancestor that the query does not select is no reason to drop a branch.
filterTreeItems_Orphans(all, K) ==
    LET rows == selectQueryItems(all)
        path(k) == Path([i \in Item |-> IF i \in rows THEN item[i] ELSE NoItem], k)
    IN  rows \cap UNION {path(k) : k \in K \cap rows}

\* Of those, the ones that match (K) and have a whole path of selected rows, and the paths.
filterTreeItems(all, K) ==
    LET rows == selectQueryItems(all)
        table == [i \in Item |-> IF i \in rows THEN item[i] ELSE NoItem]
    IN  UNION {Path(table, k) : k \in {x \in K \cap rows : Rooted(table, x)}}

\* platformtree.Build accepts the rows: parents among them, no cycle, not too deep.
buildItemForest(S) ==
    /\ \A i \in S : item[i].up # "root" => item[i].up \in S
    /\ \A i \in S : Rooted(item, i) /\ Cardinality(Path(item, i)) <= MaxDepth

\* What a cached tree, or one of a provider, must satisfy to be returned.
validProviderResult(S, all, K) ==
    /\ Cardinality(S) <= MaxTreeNodes /\ ~TooLarge(S)
    /\ \A i \in S : all \/ ~item[i].disabled
    /\ \A i, j \in S : Selectable(item, i) = Selectable(item, j) => i = j
    /\ \A i \in S : i \in K \/ \E j \in S : item[j].up = i

\* PageItems with exclude_subtree_id: the rows that a form offers as parents of i.
OfferedParents(i) == {p \in Live(item) : i \notin Path(item, p)}

Next == \/ \E kind \in {"enum", "tree"}, source \in {"static", "provider"},
              status \in {"active", "disabled"} : CreateDefinition(kind, source, status)
        \/ \E status \in {"active", "disabled"} : UpdateDefinition(status)
        \/ DeleteDefinition
        \/ \E i \in Item : UpdateItemReads(i) \/ DeleteItem(i)
        \/ \E in \in Input : UpdateItem(in) \/ \E i \in Item : CreateItem(i, in)
        \/ UpdateItemFails
        \/ Query \/ CacheAnswers \/ CountRows
        \/ \E all, cached \in BOOLEAN : queryStatic(all, cached)
        \/ \E e \in stored : Expire(e)

Spec == Init /\ [][Next]_vars

-----------------------------------------------------------------------------
(* Properties.                                                             *)

(* No item of a tree is ever lost: while what a query selects is not too large for a      *)
(* result, the full query returns every item, a filtered one exactly the matches whose    *)
(* ancestors it may show, in a form that it can build and that a cached answer is         *)
(* accepted in, whatever was moved, disabled or deleted.                                  *)
EveryItemIsServed ==
    definition.kind = "tree" =>
       \A all \in BOOLEAN, K \in SUBSET Item :
          ~TooLarge(selectQueryItems(all)) =>
             LET found == filterTreeItems(all, K)
             IN  /\ all /\ K = Item => found = Live(item)
                 /\ buildItemForest(found)
                 /\ validProviderResult(found, all, K)
                 /\ \A k \in K \cap Live(item) :
                       k \in found <=> \A a \in Path(item, k) : all \/ ~item[a].disabled

(* What PageItems offers as the parent of an item is what UpdateItem accepts.            *)
OffersValidParents ==
    definition.kind = "tree" =>
       \A i \in Live(item) : OfferedParents(i) = {p \in Item : validateItemParentChain(item, i, p)}

(* A cached answer is never older than the query that gets it: whatever entry a query    *)
(* may find under the version that it read was selected after this query began, or from  *)
(* the same items ("Definition/item changes increment the definition version",           *)
(* docs/data-dictionary-design.md:12).                                                   *)
AnswersAreFresh ==
    /\ query.on => \A e \in Hit : e.items >= query.since /\ e.total >= query.since
    /\ \A e \in stored : e.version = definition.version => e.items = revision /\ e.total = revision

DictionaryIsSound == EveryItemIsServed /\ OffersValidParents /\ AnswersAreFresh
=============================================================================
