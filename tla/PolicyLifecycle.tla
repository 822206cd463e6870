-------------------------- MODULE PolicyLifecycle ---------------------------
(***************************************************************************)
(* The rows of data permission policies and of their versions: creation,   *)
(* drafts, publication and status (datapermission/lifecycle.go), what of   *)
(* them is loaded into the engine (loadAllPublished), and the simulation of*)
(* a version (simulator.go).                                               *)
(*                                                                         *)
(* Every write locks the policy's row first, so it is one step.  A manager *)
(* reads a policy, simulates a version of it and publishes that version    *)
(* with the row version it read, with the steps of others in between.      *)
(***************************************************************************)
EXTENDS Naturals, FiniteSets, Sequences

LOCAL INSTANCE FiniteSetsExt

CONSTANTS
    Id,            \* ids of policies
    Code,
    Tenant,
    Body,          \* the rest of a document
    DocumentSize,  \* the bytes of a document, by its body
    MaxPublishedRows, MaxPublishedBytes,   \* maxPublishedPolicyRows, maxPublishedPolicyDocumentBytes
    MaxVersions,   \* bound of the versions of a policy
    MaxWrites      \* bound of the version of a policy's row

VARIABLES
    policyRow,     \* data_permission_policies
    versionRow,    \* data_permission_policy_versions
    tenantActive,  \* the tenants that are active
    review         \* what a manager has read of a policy

vars == <<policyRow, versionRow, tenantActive, review>>

-----------------------------------------------------------------------------

Scope == Tenant \cup {"global"}

\* compiles: Policy.Compile accepts it (PolicyEvaluation).
Document == [code : Code, scope : Scope, body : Body, compiles : BOOLEAN]

NoRow == [live |-> FALSE]

NoReview == [on |-> FALSE]

Init == /\ policyRow = [i \in Id |-> NoRow]
        /\ versionRow = [i \in Id |-> <<>>]
        /\ tenantActive = Tenant
        /\ review = NoReview

\* The actor is of a tenant, or of the platform ("global"); it manages only its own scope.
authorizeBoundary(actor, scope) == actor = scope

\* A tenant's actor sees its own policies and the global ones.
visiblePolicy(actor, scope) == scope \in {"global", actor}

Conflicts(d) == \E i \in Id : policyRow[i].live /\ policyRow[i].code = d.code /\ policyRow[i].scope = d.scope

Create(actor, i, d) ==
    /\ ~policyRow[i].live
    /\ d.compiles /\ authorizeBoundary(actor, d.scope)
    /\ d.scope \in tenantActive \cup {"global"}
    /\ ~Conflicts(d)
    /\ policyRow' = [policyRow EXCEPT ![i] = [live |-> TRUE, code |-> d.code, scope |-> d.scope,
                                              published |-> 0, status |-> "active", version |-> 1]]
    /\ versionRow' = [versionRow EXCEPT ![i] = <<[document |-> d, status |-> "draft"]>>]
    /\ UNCHANGED <<tenantActive, review>>

\* lockPolicy: the row with the version that the caller names.
lockPolicy(actor, i, version) ==
    /\ policyRow[i].live /\ visiblePolicy(actor, policyRow[i].scope)
    /\ policyRow[i].version = version /\ version < MaxWrites

Written(i, row) == [policyRow EXCEPT ![i] = [row EXCEPT !.version = @ + 1]]

Drafted(i, d) == [versionRow EXCEPT ![i] = Append(@, [document |-> d, status |-> "draft"])]

\* Mutant: the document may be about another policy.
CreateVersion_AnyIdentity(actor, i, version, d) ==
    /\ d.compiles /\ authorizeBoundary(actor, d.scope)
    /\ lockPolicy(actor, i, version) /\ Len(versionRow[i]) < MaxVersions
    /\ versionRow' = Drafted(i, d)
    /\ policyRow' = Written(i, policyRow[i])
    /\ UNCHANGED <<tenantActive, review>>

CreateVersion(actor, i, version, d) ==
    /\ d.compiles /\ authorizeBoundary(actor, d.scope)
    /\ lockPolicy(actor, i, version) /\ Len(versionRow[i]) < MaxVersions
    /\ d.code = policyRow[i].code /\ d.scope = policyRow[i].scope
    /\ versionRow' = Drafted(i, d)
    /\ policyRow' = Written(i, policyRow[i])
    /\ UNCHANGED <<tenantActive, review>>

\* The versions once n is published: the one that was, is archived.
Publication(i, n) ==
    [m \in DOMAIN versionRow[i] |->
       IF m = n THEN [versionRow[i][m] EXCEPT !.status = "published"]
       ELSE [versionRow[i][m] EXCEPT !.status = IF @ = "published" THEN "archived" ELSE @]]

Publish(actor, i, n, version) ==
    /\ lockPolicy(actor, i, version) /\ n \in DOMAIN versionRow[i]
    /\ versionRow[i][n].status = "draft"
    /\ versionRow[i][n].document.compiles
    /\ authorizeBoundary(actor, versionRow[i][n].document.scope)
    /\ versionRow' = [versionRow EXCEPT ![i] = Publication(i, n)]
    /\ policyRow' = Written(i, [policyRow[i] EXCEPT !.published = n])
    /\ UNCHANGED <<tenantActive, review>>

SetStatus(actor, i, version, status) ==
    /\ lockPolicy(actor, i, version) /\ authorizeBoundary(actor, policyRow[i].scope)
    /\ policyRow' = Written(i, [policyRow[i] EXCEPT !.status = status])
    /\ UNCHANGED <<versionRow, tenantActive, review>>

\* A tenant is disabled, or enabled again.
SetTenant(t) ==
    /\ tenantActive' = IF t \in tenantActive THEN tenantActive \ {t} ELSE tenantActive \cup {t}
    /\ UNCHANGED <<policyRow, versionRow, review>>

-----------------------------------------------------------------------------
(* What is loaded, and what a simulation shows.                            *)

\* The rows that the query of loadAllPublished joins.
Loaded(rows, versions) ==
    {i \in Id : /\ rows[i].live /\ rows[i].status = "active"
                /\ rows[i].scope \in tenantActive \cup {"global"}
                /\ rows[i].published \in DOMAIN versions[i]
                /\ versions[i][rows[i].published].status = "published"}

\* The document that a row publishes.
DocumentOf(i, rows, versions) == versions[i][rows[i].published].document

\* ErrPolicySnapshotTooLarge: more rows, or more bytes of documents, than one load takes.  Neither
\* Create nor Publish looks at these limits.
TooLarge(rows, versions) ==
    LET loaded == Loaded(rows, versions)
        size(i) == DocumentSize[DocumentOf(i, rows, versions).body]
    IN  \/ Cardinality(loaded) > MaxPublishedRows
        \/ MapThenSumSet(size, loaded) > MaxPublishedBytes

\* ParsePolicy, the identity of the row, and the compilation in Engine.Replace.
Accepted(row, d) == d.compiles /\ d.code = row.code /\ d.scope = row.scope

NoSnapshot == [loads |-> FALSE]

\* loadAllPublished and Engine.Replace: all of the documents, or an error and none of them.
Snapshot(rows, versions) ==
    IF /\ ~TooLarge(rows, versions)
       /\ \A i \in Loaded(rows, versions) : Accepted(rows[i], DocumentOf(i, rows, versions))
    THEN [loads |-> TRUE, documents |-> {DocumentOf(i, rows, versions) : i \in Loaded(rows, versions)}]
    ELSE NoSnapshot

\* Mutant: a tenant's policy replaces the global one of its code.
replacePolicy_ByCode(documents, d) == {x \in documents : x.code # d.code} \cup {d}

\* The candidate takes the place of the policy with its scope and code.
replacePolicy(documents, d) == {x \in documents : x.code # d.code \/ x.scope # d.scope} \cup {d}

\* SimulateVersion: the documents of the candidate engine, made of those of the snapshot in memory.
SimulateVersion(i, n) == replacePolicy(Snapshot(policyRow, versionRow).documents, versionRow[i][n].document)

\* A manager reads a policy and simulates a version of it.
Review(actor, i, n) ==
    /\ ~review.on
    /\ policyRow[i].live /\ n \in DOMAIN versionRow[i]
    /\ visiblePolicy(actor, policyRow[i].scope) /\ versionRow[i][n].document.scope = actor
    /\ review' = [on |-> TRUE, actor |-> actor, id |-> i, number |-> n, row |-> policyRow[i],
                  document |-> versionRow[i][n].document]
    /\ UNCHANGED <<policyRow, versionRow, tenantActive>>

\* Mutant: whatever has happened since.
PublishReviewed_AnyVersion ==
    /\ review.on
    /\ Publish(review.actor, review.id, review.number, policyRow[review.id].version)

\* The manager publishes what was reviewed.
PublishReviewed ==
    /\ review.on
    /\ Publish(review.actor, review.id, review.number, review.row.version)

GiveUp == review.on /\ review' = NoReview /\ UNCHANGED <<policyRow, versionRow, tenantActive>>

Next == \/ \E actor \in Scope, i \in Id :
              \/ \E d \in Document : Create(actor, i, d)
                                     \/ \E v \in 1..MaxWrites : CreateVersion(actor, i, v, d)
              \/ \E v \in 1..MaxWrites :
                   \/ \E n \in 1..MaxVersions : Publish(actor, i, n, v)
                   \/ \E status \in {"active", "disabled"} : SetStatus(actor, i, v, status)
              \/ \E n \in 1..MaxVersions : Review(actor, i, n)
        \/ \E t \in Tenant : SetTenant(t)
        \/ PublishReviewed \/ GiveUp

Spec == Init /\ [][Next]_vars

-----------------------------------------------------------------------------
(* Properties.                                                             *)

\* The limits are the only reason for which what is published does not load: loadAllPublished and
\* Engine.Replace fail as a whole for one document that does not compile or names another scope or
\* code than its row, and every data decision of the system fails with them.  One version of a
\* policy is published, the one its row names.
SnapshotLoads ==
    /\ \A i \in Id : policyRow[i].live =>
         \A n \in DOMAIN versionRow[i] :
            versionRow[i][n].status = "published" <=> n = policyRow[i].published
    /\ Snapshot(policyRow, versionRow).loads \/ TooLarge(policyRow, versionRow)

\* The publication of a draft of an active policy loads what its simulation showed, if nothing
\* else is written in between and it does not take the published documents over a limit.
SimulationPredicts ==
    \A i \in Id : \A n \in DOMAIN versionRow[i] :
       LET rows == Written(i, [policyRow[i] EXCEPT !.published = n])
           versions == [versionRow EXCEPT ![i] = Publication(i, n)]
       IN  /\ policyRow[i].status = "active" /\ policyRow[i].scope \in tenantActive \cup {"global"}
           /\ versionRow[i][n].status = "draft"
           /\ Snapshot(policyRow, versionRow).loads /\ ~TooLarge(rows, versions)
           => Snapshot(rows, versions) = [loads |-> TRUE, documents |-> SimulateVersion(i, n)]

\* Both of them.
LifecycleIsSound == SnapshotLoads /\ SimulationPredicts

\* A manager who publishes after a review replaces the version that was published, with the
\* status that the policy had, when the policy was read: a publication by another fails this one.
PublishesWhatWasReviewed ==
    [][PublishReviewed => /\ policyRow[review.id].published = review.row.published
                          /\ policyRow[review.id].status = review.row.status
                          /\ versionRow'[review.id][review.number].document = review.document]_vars
=============================================================================
