----------------------------- MODULE PolicySync -----------------------------
(***************************************************************************)
(* The in-process snapshot of published data policies                      *)
(* (internal/policysync, internal/datapermission): every replica serves    *)
(* decisions from an immutable snapshot which it replaces after its own    *)
(* mutations, on lossy Redis hints and on revision polls, and drops when   *)
(* it cannot be reloaded.                                                  *)
(*                                                                         *)
(* A revision stands for the committed policies it identifies.  A request  *)
(* thread mutates policies and then refreshes; the Runner of a replica is  *)
(* its Sync.Run goroutine.  Both refresh under the replica's mutex.        *)
(***************************************************************************)
EXTENDS Naturals

CONSTANTS
    Nodes,     \* replicas
    Threads,   \* request goroutines of a replica
    Runner,    \* the Sync.Run goroutine
    Nobody,      \* nobody, no snapshot
    MaxRev,    \* committed changes: bound of the model
    Broken     \* revisions with a policy that this release cannot compile

ASSUME SyncAssumption == /\ Runner \notin Threads /\ Nobody \notin Threads \cup {Runner}
                         /\ MaxRev \in Nat /\ Nobody \notin Nat
                         /\ Broken \subseteq 1 .. MaxRev

Revs == 0 .. MaxRev
SyncActors == Threads \cup {Runner}

VARIABLES
    db,         \* the revision of the authoritative tables
    snapshot,   \* Engine.snapshot: the revision it was built from, or Nobody
    last,       \* Sync.lastRevision
    invalid,    \* Sync.invalidated
    mutex,      \* holder of Sync.mu
    job,        \* what each actor does; own: the change it committed or the revision
                \* it polled; loaded: the revision its refresh read
    hints,      \* replicas with an unread Redis message
    answered    \* the newest change a request on this replica was answered for

syncVars == <<db, snapshot, last, invalid, mutex, job, hints, answered>>

Idle == [pc |-> "idle", own |-> 0, loaded |-> 0]

SyncInit == /\ db = 0
            /\ snapshot = [n \in Nodes |-> 0]
            /\ last = [n \in Nodes |-> 0]
            /\ invalid = [n \in Nodes |-> FALSE]
            /\ mutex = [n \in Nodes |-> Nobody]
            /\ job = [n \in Nodes |-> [a \in SyncActors |-> Idle]]
            /\ hints = {}
            /\ answered = [n \in Nodes |-> 0]

Moves(n, a, pc) == job' = [job EXCEPT ![n][a].pc = pc]

-----------------------------------------------------------------------------
(* A request changes policies or a tenant, then calls Changed.             *)

Mutate(n, t) ==
    /\ job[n][t].pc = "idle" /\ db < MaxRev
    /\ db' = db + 1
    /\ job' = [job EXCEPT ![n][t] = [pc |-> "refresh", own |-> db + 1, loaded |-> 0]]
    /\ UNCHANGED <<snapshot, last, invalid, mutex, hints, answered>>

Larger(x, y) == IF x > y THEN x ELSE y

\* The hint reaches any of the replicas; then the request is answered, whether or not
\* its refresh succeeded.
PublishHint(n, t, reached) ==
    /\ job[n][t].pc = "refreshed"
    /\ hints' = hints \cup reached
    /\ answered' = [answered EXCEPT ![n] = Larger(@, job[n][t].own)]
    /\ job' = [job EXCEPT ![n][t] = Idle]
    /\ UNCHANGED <<db, snapshot, last, invalid, mutex>>

\* A process outside Nodes commits a change, and its hint reaches some replicas.
ChangeElsewhere(reached) ==
    /\ db < MaxRev
    /\ db' = db + 1
    /\ hints' = hints \cup reached
    /\ UNCHANGED <<snapshot, last, invalid, mutex, job, answered>>

-----------------------------------------------------------------------------
(* The Run loop: hints and polls.                                          *)

Notified(n) ==
    /\ n \in hints /\ job[n][Runner].pc = "idle"
    /\ hints' = hints \ {n}
    /\ Moves(n, Runner, "refresh")
    /\ UNCHANGED <<db, snapshot, last, invalid, mutex, answered>>

\* Repository.Revision, before the mutex is taken.
ReadRevision(n, ok) ==
    /\ job[n][Runner].pc = "idle"
    /\ job' = [job EXCEPT ![n][Runner] =
                 [pc |-> IF ok THEN "polled" ELSE "pollFailed", own |-> db, loaded |-> 0]]
    /\ UNCHANGED <<db, snapshot, last, invalid, mutex, hints, answered>>

\* Mutant: a dropped snapshot does not count as a change.
Changed_RevisionOnly(n) == job[n][Runner].own # last[n]

Changed(n) == job[n][Runner].own # last[n] \/ invalid[n]

Compare(n) ==
    /\ job[n][Runner].pc = "polled" /\ mutex[n] = Nobody
    /\ IF Changed(n) THEN Moves(n, Runner, "refresh") ELSE job' = [job EXCEPT ![n][Runner] = Idle]
    /\ UNCHANGED <<db, snapshot, last, invalid, mutex, hints, answered>>

\* invalidateLocked: the snapshot is dropped, decisions fail closed.
Invalidated(n) == /\ invalid' = [invalid EXCEPT ![n] = TRUE]
                  /\ snapshot' = [snapshot EXCEPT ![n] = Nobody]
                  /\ UNCHANGED last

PollFailed(n) ==
    /\ job[n][Runner].pc = "pollFailed" /\ mutex[n] = Nobody
    /\ Invalidated(n)
    /\ job' = [job EXCEPT ![n][Runner] = Idle]
    /\ UNCHANGED <<db, mutex, hints, answered>>

-----------------------------------------------------------------------------
(* refreshWithPolicy, by either.                                           *)

\* Mutant: the refresh does not take the mutex before it reads.
MayRefresh_Unlocked(n) == TRUE

MayRefresh(n) == mutex[n] = Nobody

\* The mutex, and one repeatable-read view of policies and revision.
Load(n, a) ==
    /\ job[n][a].pc = "refresh" /\ MayRefresh(n)
    /\ mutex' = [mutex EXCEPT ![n] = a]
    /\ job' = [job EXCEPT ![n][a].pc = "loaded", ![n][a].loaded = db]
    /\ UNCHANGED <<db, snapshot, last, invalid, hints, answered>>

Unlock(n, a) ==
    /\ mutex' = [mutex EXCEPT ![n] = Nobody]
    /\ IF a = Runner THEN job' = [job EXCEPT ![n][a] = Idle] ELSE Moves(n, a, "refreshed")

\* Mutant: policies first, the revision with a statement of its own.
Observed_Separately(r) == db

Observed(r) == r

\* Engine.Replace compiles everything and stores the snapshot; the revision follows.
Install(n, a) ==
    LET r == job[n][a].loaded IN
    /\ job[n][a].pc = "loaded" /\ r \notin Broken
    /\ snapshot' = [snapshot EXCEPT ![n] = r]
    /\ last' = [last EXCEPT ![n] = Observed(r)]
    /\ invalid' = [invalid EXCEPT ![n] = FALSE]
    /\ Unlock(n, a)
    /\ UNCHANGED <<db, hints, answered>>

\* A policy that does not compile, a timeout or a database error.
RefreshFails(n, a) ==
    /\ job[n][a].pc = "loaded"
    /\ Invalidated(n)
    /\ Unlock(n, a)
    /\ UNCHANGED <<db, hints, answered>>

-----------------------------------------------------------------------------
\* The replica dies and starts again; it only starts with a complete snapshot.
Restart(n) ==
    /\ db \notin Broken
    /\ snapshot' = [snapshot EXCEPT ![n] = db]
    /\ last' = [last EXCEPT ![n] = db]
    /\ invalid' = [invalid EXCEPT ![n] = FALSE]
    /\ mutex' = [mutex EXCEPT ![n] = Nobody]
    /\ job' = [job EXCEPT ![n] = [a \in SyncActors |-> Idle]]
    /\ hints' = hints \ {n}
    /\ UNCHANGED <<db, answered>>

NodeStep(n) ==
    \/ \E t \in Threads : Mutate(n, t) \/ \E reached \in SUBSET Nodes : PublishHint(n, t, reached)
    \/ Notified(n) \/ Compare(n) \/ PollFailed(n) \/ Restart(n)
    \/ \E ok \in BOOLEAN : ReadRevision(n, ok)
    \/ \E a \in SyncActors : Load(n, a) \/ Install(n, a) \/ RefreshFails(n, a)

SyncNext == \/ \E n \in Nodes : NodeStep(n)
            \/ \E reached \in SUBSET Nodes : ChangeElsewhere(reached)

SyncSpec == SyncInit /\ [][SyncNext]_syncVars

\* The ticker never stops, so a replica polls again and again, and a database that
\* answers again and again is read; mutexes are released.  No hint need arrive.
SyncFairness ==
    \A n \in Nodes :
       /\ SF_syncVars(ReadRevision(n, TRUE)) /\ SF_syncVars(Compare(n)) /\ WF_syncVars(PollFailed(n))
       /\ \A a \in SyncActors : /\ SF_syncVars(Load(n, a)) /\ SF_syncVars(Install(n, a))
                            /\ WF_syncVars(RefreshFails(n, a))

SyncFairSpec == SyncSpec /\ SyncFairness

-----------------------------------------------------------------------------
(* Properties.                                                             *)

\* Snapshots, revisions and jobs have their types.
SyncTypeOK ==
    /\ db \in Revs /\ hints \subseteq Nodes
    /\ snapshot \in [Nodes -> Revs \cup {Nobody}]
    /\ last \in [Nodes -> Revs] /\ answered \in [Nodes -> Revs]
    /\ invalid \in [Nodes -> BOOLEAN]
    /\ mutex \in [Nodes -> SyncActors \cup {Nobody}]
    /\ job \in [Nodes -> [SyncActors ->
         [pc : {"idle", "polled", "pollFailed", "refresh", "loaded", "refreshed"},
          own : Revs, loaded : Revs]]]

\* The revision a replica reports is the one its snapshot was built from, and it has no
\* snapshot exactly when it is marked invalid: a poll that finds the revision unchanged
\* rightly does nothing (RefreshSnapshot, poll).
RevisionNamesSnapshot ==
    \A n \in Nodes : IF invalid[n] THEN snapshot[n] = Nobody ELSE snapshot[n] = last[n]

\* Once a change is answered, its replica never decides by policies older than it, even
\* if polls that began earlier end later: it has them, or fails closed.
OwnChangesAreServed ==
    \A n \in Nodes : snapshot[n] # Nobody => snapshot[n] >= answered[n]

\* Both: what a replica decides by is named by its revision and no older than its answers.
SnapshotIsSound == RevisionNamesSnapshot /\ OwnChangesAreServed

\* A replica never goes back to older policies, not even after it dropped its snapshot.
SnapshotNeverRegresses ==
    [][\A n \in Nodes : /\ last'[n] >= last[n]
                        /\ snapshot'[n] # Nobody => snapshot'[n] >= last[n]]_syncVars

\* When changes stop, every replica serves the last one, or nothing while that cannot be
\* compiled, with or without hints.
Converges ==
    \A n \in Nodes, r \in Revs :
       <>[](db = r) => []<>(snapshot[n] = IF r \in Broken THEN Nobody ELSE r)
=============================================================================
