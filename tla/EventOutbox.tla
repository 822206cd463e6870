---------------------------- MODULE EventOutbox ----------------------------
(***************************************************************************)
(* The transactional outbox of internal/eventbus: rows of event_outbox are *)
(* written in the caller's transaction, claimed under a lease by one       *)
(* sequential dispatcher per process, published to JetStream, and marked,  *)
(* released or dead-lettered.  Operators repair dead rows                  *)
(* (internal/eventbus/repair.go) and the data lifecycle job retires        *)
(* settled ones (internal/datalifecycle/manager.go).                       *)
(*                                                                         *)
(* Every database transaction is one step.  Between two transactions a     *)
(* dispatcher owns nothing but its in-memory outboxRecord, which the       *)
(* passage of time, other dispatchers, operators and retention can make    *)
(* stale.  An event is the number of its rank in (created_at, id).         *)
(***************************************************************************)
EXTENDS Naturals, FiniteSets

CONSTANTS
    Events,      \* ids of outbox rows, ranked by (created_at, id)
    Corrupt,     \* rows whose stored bytes do not decode (an older release)
    Workers,     \* processes that run a dispatcher
    Operators,   \* system principals that use the repair service
    NoWorker,    \* locked_by = ''
    Gone,        \* locked_by of a process that no longer exists
    MaxDeliver,  \* cfg.ConsumerMaxDeliver
    AttemptCap,  \* attempts saturates here: bound of the model
    MaxCopies,   \* copies of an event the stream stores: bound of the model
    PurgeBatch   \* cfg.PurgeBatchSize

ASSUME EventsAssumption == Events \subseteq Nat \ {0} /\ Corrupt \subseteq Events
ASSUME WorkersAssumption == NoWorker \notin Workers /\ Gone \notin Workers
                            /\ NoWorker # Gone
ASSUME BoundsAssumption == /\ MaxDeliver \in Nat \ {0}
                           /\ AttemptCap \in Nat /\ AttemptCap >= MaxDeliver
                           /\ MaxCopies \in Nat \ {0}
                           /\ PurgeBatch \in Nat

VARIABLES
    row,     \* event_outbox, by id
    worker,  \* the outboxRecord each dispatcher holds, and what became of it
    view,    \* the DeadRecord each operator last listed
    stream,  \* messages JetStream stored
    window   \* event ids inside the stream's DuplicateWindow

vars == <<row, worker, view, stream, window>>

NoEvent == 0

\* What an envelope column decodes to: nothing, the envelope the application
\* stored, or the one an operator put in its place.
Undecodable == 0
Original == 1
Replacement == 2
Bodies == {Undecodable, Original, Replacement}

Row == [stored: BOOLEAN, published: BOOLEAN, dead: BOOLEAN, deleted: BOOLEAN,
        attempts: 0 .. AttemptCap, lockedBy: Workers \cup {NoWorker, Gone},
        leased: BOOLEAN,  \* locked_until is in the future
        due: BOOLEAN,     \* available_at is in the past
        body: Bodies]

outboxRecord == [pc: {"idle", "claimed", "acked", "failed"},
                 id: Events \cup {NoEvent}, attempts: 0 .. AttemptCap, body: Bodies]

\* A listed dead row.  The version column grows with every update (a trigger
\* owns it), and a replay that names an old version is refused, so a listing is
\* as good as none once its row has been updated.
DeadRecord == [id: Events \cup {NoEvent}, attempts: 0 .. AttemptCap]

Message == [id: Events, body: Bodies, copy: 1 .. MaxCopies]

Absent == [stored |-> FALSE, published |-> FALSE, dead |-> FALSE, deleted |-> FALSE,
           attempts |-> 0, lockedBy |-> NoWorker, leased |-> FALSE, due |-> FALSE,
           body |-> Undecodable]

Idle == [pc |-> "idle", id |-> NoEvent, attempts |-> 0, body |-> Undecodable]

NoView == [id |-> NoEvent, attempts |-> 0]

\* Mutant: the claim query forgets published_at IS NULL.
Live_Published(r) == r.stored /\ ~r.dead /\ ~r.deleted

Live(r) == r.stored /\ ~r.published /\ ~r.dead /\ ~r.deleted

Increment(n) == IF n < AttemptCap THEN n + 1 ELSE n

Copies(e) == {m \in stream : m.id = e}

Init == /\ row = [e \in Events |-> Absent]
        /\ worker = [w \in Workers |-> Idle]
        /\ view = [o \in Operators |-> NoView]
        /\ stream = {}
        /\ window = {}

-----------------------------------------------------------------------------
(* Rows enter the table.                                                   *)

Inserted(body) == [Absent EXCEPT !.stored = TRUE, !.due = TRUE, !.body = body]

\* Outbox.Store commits with the domain write of the caller's transaction;
\* it validates the envelope, so what it stores decodes.
Store(e) ==
    /\ e \notin Corrupt
    /\ ~row[e].stored
    /\ row' = [row EXCEPT ![e] = Inserted(Original)]
    /\ UNCHANGED <<worker, view, stream, window>>

\* A row an older release left behind: this release cannot decode it, or that
\* one could not and dead-lettered it.
StoredByOlderRelease(e) ==
    /\ e \in Corrupt
    /\ ~row[e].stored
    /\ row' = [row EXCEPT ![e] = Inserted(Undecodable)]
       \/ row' = [row EXCEPT ![e] = [Inserted(Original) EXCEPT
                                       !.dead = TRUE, !.attempts = MaxDeliver]]
    /\ UNCHANGED <<worker, view, stream, window>>

-----------------------------------------------------------------------------
(* Every UPDATE of a row makes the version an operator listed stale.       *)

Outdated(S) == [o \in Operators |-> IF view[o].id \in S THEN NoView ELSE view[o]]

\* Mutant: updates leave the version column alone.
UpdateRow_SameVersion(e, r) == row' = [row EXCEPT ![e] = r] /\ view' = view

UpdateRow(e, r) == /\ row' = [row EXCEPT ![e] = r]
                   /\ view' = Outdated({e})

-----------------------------------------------------------------------------
(* The dispatcher.                                                         *)

\* Mutant: only rows with an empty locked_by, so a dead process keeps its claims.
Claimable_NoTakeover == {e \in Events : Live(row[e]) /\ row[e].due /\ row[e].lockedBy = NoWorker}

Claimable == {e \in Events : Live(row[e]) /\ row[e].due /\ ~row[e].leased}

\* SELECT ... ORDER BY created_at, id LIMIT 1 FOR UPDATE SKIP LOCKED, then the
\* lease: skip is the set of rows that other transactions hold locked, at most
\* one for each of the other dispatchers.
claim(w, skip) ==
    /\ worker[w].pc = "idle"
    /\ skip \subseteq Claimable
    /\ Cardinality(skip) < Cardinality(Workers)
    /\ \E e \in Claimable \ skip :
         /\ \A f \in Claimable \ skip : e <= f
         /\ UpdateRow(e, [row[e] EXCEPT !.lockedBy = w, !.leased = TRUE])
         /\ worker' = [worker EXCEPT ![w] = [pc |-> "claimed", id |-> e,
                           attempts |-> row[e].attempts, body |-> row[e].body]]
    /\ UNCHANGED <<stream, window>>

\* Mutant: messages carry no id, so the broker cannot recognise a duplicate.
Accept_NoMessageID(e, body) ==
    /\ stream' = stream \cup {[id |-> e, body |-> body, copy |-> Cardinality(Copies(e)) + 1]}
    /\ window' = window \cup {e}

\* JetStream drops a message whose id it stored within the duplicate window.
Accept(e, body) ==
    IF e \in window
    THEN UNCHANGED <<stream, window>>
    ELSE /\ stream' = stream \cup {[id |-> e, body |-> body,
                                    copy |-> Cardinality(Copies(e)) + 1]}
         /\ window' = window \cup {e}

\* Mutant: fire and forget, success without an acknowledgement.
PublishAcked_Unconfirmed(w) ==
    /\ worker[w].pc = "claimed" /\ worker[w].body # Undecodable
    /\ worker' = [worker EXCEPT ![w].pc = "acked"]
    /\ UNCHANGED <<row, view, stream, window>>

\* The broker stored the message (or recognised it) and its ack came back.
PublishAcked(w) ==
    /\ worker[w].pc = "claimed" /\ worker[w].body # Undecodable
    /\ Accept(worker[w].id, worker[w].body)
    /\ worker' = [worker EXCEPT ![w].pc = "acked"]
    /\ UNCHANGED <<row, view>>

\* Publish returned an error: the broker was away, or only its ack was lost.
PublishFailed(w) ==
    /\ worker[w].pc = "claimed" /\ worker[w].body # Undecodable
    /\ Accept(worker[w].id, worker[w].body) \/ UNCHANGED <<stream, window>>
    /\ worker' = [worker EXCEPT ![w].pc = "failed"]
    /\ UNCHANGED <<row, view>>

\* Mutant: the update does not ask who holds the row.
OwnsClaim_AnyHolder(w, r) == ~r.published /\ ~r.deleted

\* WHERE id=? AND locked_by=? AND published_at IS NULL AND deleted_at IS NULL
OwnsClaim(w, r) == r.lockedBy = w /\ ~r.published /\ ~r.deleted

\* updateClaim: one guarded UPDATE; zero rows means the lease was lost.
updateClaim(w, r) ==
    LET e == worker[w].id IN
    /\ IF OwnsClaim(w, row[e]) THEN UpdateRow(e, r) ELSE UNCHANGED <<row, view>>
    /\ worker' = [worker EXCEPT ![w] = Idle]
    /\ UNCHANGED <<stream, window>>

Unlocked(r) == [r EXCEPT !.lockedBy = NoWorker, !.leased = FALSE]

markPublished(w) ==
    /\ worker[w].pc = "acked"
    /\ updateClaim(w, [Unlocked(row[worker[w].id]) EXCEPT !.published = TRUE])

Released(r) == [Unlocked(r) EXCEPT !.attempts = Increment(@), !.due = FALSE]

\* Mutant: failed publishes are dead-lettered too once attempts are used up.
releaseUnpublished_DeadLetters(w) ==
    /\ worker[w].pc = "failed"
    /\ LET r == row[worker[w].id] IN
       updateClaim(w, IF worker[w].attempts + 1 >= MaxDeliver
                      THEN [Unlocked(r) EXCEPT !.attempts = Increment(@), !.dead = TRUE]
                      ELSE Released(r))

\* A failed publish is always retried: attempts only stretches the backoff.
releaseUnpublished(w) ==
    /\ worker[w].pc = "failed"
    /\ updateClaim(w, Released(row[worker[w].id]))

\* An envelope that does not decode is dead-lettered once the attempts the
\* dispatcher read when it claimed the row are used up.
releaseUndecodable(w) ==
    /\ worker[w].pc = "claimed" /\ worker[w].body = Undecodable
    /\ LET r == row[worker[w].id] IN
       updateClaim(w, IF worker[w].attempts + 1 >= MaxDeliver
                      THEN [Unlocked(r) EXCEPT !.attempts = Increment(@), !.dead = TRUE]
                      ELSE Released(r))

\* A persistence error or a recovered panic ends the batch; the row keeps the
\* claim until its lease runs out.
Abandon(w) ==
    /\ worker[w].pc # "idle"
    /\ worker' = [worker EXCEPT ![w] = Idle]
    /\ UNCHANGED <<row, view, stream, window>>

\* The process dies and another starts: workerID is a new uuid, so the rows the
\* old one had locked name a process that does not exist any more.
Crash(w) ==
    /\ worker[w].pc # "idle" \/ \E e \in Events : row[e].lockedBy = w
    /\ worker' = [worker EXCEPT ![w] = Idle]
    /\ row' = [e \in Events |-> IF row[e].lockedBy = w
                                THEN [row[e] EXCEPT !.lockedBy = Gone] ELSE row[e]]
    /\ UNCHANGED <<view, stream, window>>

-----------------------------------------------------------------------------
(* Repair and retention.                                                   *)

Dead(o, e) ==
    /\ row[e].dead /\ ~row[e].published /\ ~row[e].deleted
    /\ view' = [view EXCEPT ![o] = [id |-> e, attempts |-> row[e].attempts]]
    /\ UNCHANGED <<row, worker, stream, window>>

\* The SELECT ... FOR UPDATE of a replay: the listed version, still dead.
Replayable(o) == /\ view[o].id # NoEvent
                 /\ LET r == row[view[o].id] IN r.dead /\ ~r.published /\ ~r.deleted

Revived(r, body) == [Unlocked(r) EXCEPT !.attempts = 0, !.due = TRUE,
                                        !.dead = FALSE, !.body = body]

\* Replay accepts only bytes that decode; replacing supplies such bytes.
Replay(o) ==
    /\ Replayable(o)
    /\ row[view[o].id].body # Undecodable
    /\ UpdateRow(view[o].id, Revived(row[view[o].id], row[view[o].id].body))
    /\ UNCHANGED <<worker, stream, window>>

ReplaceAndReplay(o) ==
    /\ Replayable(o)
    /\ UpdateRow(view[o].id, Revived(row[view[o].id], Replacement))
    /\ UNCHANGED <<worker, stream, window>>

\* Mutant: retention goes by age alone.
cleanupOutbox_AnyRow(S) ==
    /\ S # {} /\ Cardinality(S) <= PurgeBatch
    /\ \A e \in S : ~row[e].deleted /\ row[e].stored
    /\ row' = [e \in Events |-> IF e \in S
                 THEN [row[e] EXCEPT !.deleted = TRUE, !.body = Undecodable]
                 ELSE row[e]]
    /\ view' = Outdated(S)
    /\ UNCHANGED <<worker, stream, window>>

\* One batch of rows published or dead for longer than their retention: the
\* envelope is erased and the row soft-deleted.
cleanupOutbox(S) ==
    /\ S # {} /\ Cardinality(S) <= PurgeBatch
    /\ \A e \in S : ~row[e].deleted /\ (row[e].published \/ row[e].dead)
    /\ row' = [e \in Events |-> IF e \in S
                 THEN [row[e] EXCEPT !.deleted = TRUE, !.body = Undecodable]
                 ELSE row[e]]
    /\ view' = Outdated(S)
    /\ UNCHANGED <<worker, stream, window>>

-----------------------------------------------------------------------------
(* Time, and the broker's duplicate window.                                *)

LeaseExpires(e) ==
    /\ row[e].leased
    /\ row' = [row EXCEPT ![e].leased = FALSE]
    /\ UNCHANGED <<worker, view, stream, window>>

RetryDue(e) ==
    /\ Live(row[e]) /\ ~row[e].due
    /\ row' = [row EXCEPT ![e].due = TRUE]
    /\ UNCHANGED <<worker, view, stream, window>>

WindowCloses(e) ==
    /\ e \in window
    /\ Cardinality(Copies(e)) < MaxCopies
    /\ window' = window \ {e}
    /\ UNCHANGED <<row, worker, view, stream>>

-----------------------------------------------------------------------------
WorkerStep(w) == \/ \E skip \in SUBSET Claimable : claim(w, skip)
                 \/ PublishAcked(w) \/ PublishFailed(w)
                 \/ markPublished(w) \/ releaseUnpublished(w) \/ releaseUndecodable(w)
                 \/ Abandon(w) \/ Crash(w)

OperatorStep(o) == \/ \E e \in Events : Dead(o, e)
                   \/ Replay(o) \/ ReplaceAndReplay(o)

EventStep(e) == Store(e) \/ StoredByOlderRelease(e)
                \/ LeaseExpires(e) \/ RetryDue(e) \/ WindowCloses(e)

Next == \/ \E w \in Workers : WorkerStep(w)
        \/ \E o \in Operators : OperatorStep(o)
        \/ \E e \in Events : EventStep(e)
        \/ \E S \in SUBSET Events : cleanupOutbox(S)

Spec == Init /\ [][Next]_vars

\* What the schedule of the code guarantees: the ticker keeps every dispatcher
\* polling, a lease is longer than the publish timeout (config.Validate), so a
\* dispatcher that is given the chance again and again finishes a record while it
\* still owns it, a broker that comes back again and again acknowledges, and
\* leases and backoffs run out.
Fairness ==
    /\ \A w \in Workers :
         /\ WF_vars(claim(w, {}))
         /\ SF_vars(PublishAcked(w) /\ OwnsClaim(w, row[worker[w].id]))
         /\ SF_vars(markPublished(w) /\ OwnsClaim(w, row[worker[w].id]))
         /\ SF_vars(releaseUndecodable(w) /\ OwnsClaim(w, row[worker[w].id]))
         /\ WF_vars(releaseUnpublished(w))
    /\ \A e \in Events : WF_vars(LeaseExpires(e)) /\ WF_vars(RetryDue(e))

FairSpec == Spec /\ Fairness

-----------------------------------------------------------------------------
(* Properties.                                                             *)

\* Every row, claim, listing and message has its type; the stream never holds
\* more copies of an event than the duplicate window let through.
TypeOK == /\ row \in [Events -> Row]
          /\ worker \in [Workers -> outboxRecord]
          /\ view \in [Operators -> DeadRecord]
          /\ stream \subseteq Message
          /\ window \subseteq Events

\* The record a dispatcher works on is the row's content for as long as locked_by
\* names that dispatcher, however long ago its lease ran out: the decision to
\* dead-letter and the bytes it publishes are then never stale (outbox.go claim,
\* dispatchRecord).
ClaimFencing ==
    \A w \in Workers :
       LET c == worker[w] IN
       c.pc # "idle" /\ row[c.id].lockedBy = w =>
          Live(row[c.id]) /\ row[c.id].attempts = c.attempts /\ row[c.id].body = c.body

\* published_at is only ever set for an event JetStream has stored
\* (dispatchRecord marks after the acknowledgement, never before).
PublishedWasAccepted ==
    \A e \in Events : row[e].published => Copies(e) # {}

\* A dead row was never accepted by the broker, not even by a publish whose
\* acknowledgement was lost, so repairing it cannot send it a second time.
DeadNeverAccepted ==
    \A e \in Events : row[e].dead => Copies(e) = {}

\* All copies the stream ever holds of an event id carry the same envelope, in
\* spite of repairs that replace it: consumers may deduplicate by id.
OneContentPerEvent ==
    \A m, n \in stream : m.id = n.id => m.body = n.body

\* The version an operator listed stands for the row as listed: while it is the
\* row's version, the row is still dead with the same attempts, whoever else writes
\* it (repair.go replay).
ListedVersionIsCurrent ==
    \A o \in Operators :
       view[o].id # NoEvent => /\ row[view[o].id].dead /\ ~row[view[o].id].published
                               /\ ~row[view[o].id].deleted
                               /\ row[view[o].id].attempts = view[o].attempts

\* A published row is settled: no dispatcher, operator or lease touches it again,
\* only retention erases it, once.
PublishedIsFinal ==
    [][\A e \in Events : row[e].published =>
          \/ row'[e] = row[e]
          \/ ~row[e].deleted /\ row'[e] = [row[e] EXCEPT !.deleted = TRUE,
                                                       !.body = Undecodable]]_vars

\* Every committed row is published or, if it does not decode, dead-lettered, in
\* spite of crashes, lost leases and a broker that is away for a while.
RowsSettle == \A e \in Events : row[e].stored ~> row[e].published \/ row[e].dead

\* The abstract view of a row and of the stream.
StatusOf(r) == IF ~r.stored THEN "absent" ELSE IF r.published THEN "settled"
               ELSE IF r.dead THEN "parked" ELSE "pending"

Contract == INSTANCE EventContract WITH
               Contents <- {Original, Replacement},
               status <- [e \in Events |-> StatusOf(row[e])],
               delivered <- [e \in Events |-> {m.body : m \in Copies(e)}]

\* The outbox implements its contract: leases, takeovers, duplicate publishes,
\* repairs and retention are invisible to whoever relies on it.
ImplementsContract == Contract!ContractSpec

\* README: the dispatcher "retries with bounded delivery attempts".
AttemptsBounded == \A e \in Events : row[e].attempts <= MaxDeliver
=============================================================================
