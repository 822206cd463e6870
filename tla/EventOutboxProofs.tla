------------------------- MODULE EventOutboxProofs -------------------------
(***************************************************************************)
(* Proofs about EventOutbox, for any number of events, dispatchers and     *)
(* operators.  The inductive invariant adds to the properties what makes   *)
(* them inductive: what a dispatcher may still do with a claim that has    *)
(* gone stale, and what the stream can already hold of a row.  With it,    *)
(* every step has one of a few shapes, from which PublishedIsFinal and the *)
(* refinement of EventContract follow.                                     *)
(***************************************************************************)
EXTENDS EventOutbox, FiniteSetTheorems, TLAPS

\* Settled rows carry no claim, and only settled rows are retired.
RowsConsistent ==
    \A e \in Events :
       /\ row[e].published \/ row[e].dead => row[e].stored /\ row[e].lockedBy = NoWorker
       /\ row[e].deleted => row[e].published \/ row[e].dead
       /\ row[e].leased => row[e].stored

\* A dispatcher holds a claim on a stored row; it only publishes what decodes.  An
\* operator's listing is of some row.
ClaimsConsistent ==
    /\ \A w \in Workers : worker[w].pc # "idle" =>
         /\ worker[w].id \in Events /\ row[worker[w].id].stored
         /\ worker[w].pc \in {"acked", "failed"} => worker[w].body # Undecodable
         /\ worker[w].pc = "acked" => \E m \in stream : m.id = worker[w].id
    /\ \A o \in Operators : view[o].id # NoEvent => view[o].id \in Events

\* Bytes that decode, once in the hands of a dispatcher, are the row's bytes until
\* retention erases them, whoever owns the row by then.
ClaimedBodies ==
    \A w \in Workers :
       worker[w].pc # "idle" /\ worker[w].body # Undecodable =>
          LET r == row[worker[w].id] IN ~r.dead /\ (r.deleted \/ r.body = worker[w].body)

\* So are the bytes of every stored message.
StreamedBodies ==
    \A m \in stream :
       /\ m.body # Undecodable
       /\ LET r == row[m.id] IN r.stored /\ ~r.dead /\ (r.deleted \/ r.body = m.body)

\* Dispatchers that hold decodable bytes of one row, and the stream, agree on them.
ClaimsAgree ==
    \A w, v \in Workers :
       /\ worker[w].pc # "idle" /\ worker[w].body # Undecodable
       /\ worker[v].pc # "idle" /\ worker[v].body # Undecodable
       /\ worker[w].id = worker[v].id
       => worker[w].body = worker[v].body

StreamAgrees ==
    \A w \in Workers : \A m \in stream :
       /\ worker[w].pc # "idle" /\ worker[w].body # Undecodable
       /\ worker[w].id = m.id
       => worker[w].body = m.body

\* Outside the duplicate window there is room for another copy.
WindowRoom ==
    /\ IsFiniteSet(stream)
    /\ \A e \in Events : /\ Cardinality(Copies(e)) \in 0 .. MaxCopies
                         /\ e \notin window => Cardinality(Copies(e)) < MaxCopies
                         /\ e \in window => \E m \in stream : m.id = e

PublishedStreamed == \A e \in Events : row[e].published => \E m \in stream : m.id = e

IndInv == /\ TypeOK /\ RowsConsistent /\ ClaimsConsistent /\ ClaimFencing
          /\ ClaimedBodies /\ StreamedBodies /\ ClaimsAgree /\ StreamAgrees
          /\ OneContentPerEvent /\ PublishedStreamed /\ ListedVersionIsCurrent
          /\ WindowRoom

-----------------------------------------------------------------------------
\* Storing a message keeps the count of copies within its bound, and adds at most
\* one message: the one published (Accept, JetStream's duplicate window).
LEMMA AcceptKeepsRoom ==
    ASSUME TypeOK, WindowRoom, NEW e \in Events, NEW b \in Bodies, Accept(e, b)
    PROVE  /\ stream' \subseteq Message /\ window' \subseteq Events
           /\ WindowRoom'
           /\ \E m \in stream' : m.id = e
           /\ stream \subseteq stream'
           /\ \A m \in stream' : m \in stream \/ (m.id = e /\ m.body = b)
<1>1. CASE e \in window
  BY <1>1 DEF Accept, TypeOK, WindowRoom, Copies
<1>2. CASE e \notin window
  <2> DEFINE n == Cardinality(Copies(e)) + 1
             m == [id |-> e, body |-> b, copy |-> n]
  <2>1. stream' = stream \cup {m} /\ window' = window \cup {e}
    BY <1>2 DEF Accept
  <2>2. n \in 1 .. MaxCopies
    BY <1>2, BoundsAssumption DEF WindowRoom
  <2>3. m \in Message
    BY <2>2 DEF Message
  <2>4. IsFiniteSet(Copies(e)) /\ IsFiniteSet(stream')
    BY <2>1, FS_Subset, FS_AddElement DEF WindowRoom, Copies
  <2>5. Copies(e)' = Copies(e) \cup {m}
    BY <2>1 DEF Copies
  <2>6. Cardinality(Copies(e) \cup {m}) \in {n - 1, n}
    <3>1. Cardinality(Copies(e)) \in Nat
      BY <2>4, FS_CardinalityType
    <3>2. Cardinality(Copies(e) \cup {m}) = IF m \in Copies(e) THEN Cardinality(Copies(e))
                                            ELSE Cardinality(Copies(e)) + 1
      BY <2>4, FS_AddElement
    <3> QED BY <3>1, <3>2
  <2>7. \A f \in Events : f # e => Copies(f)' = Copies(f)
    BY <2>1 DEF Copies
  <2>8. ASSUME NEW f \in Events
        PROVE  /\ Cardinality(Copies(f)') \in 0 .. MaxCopies
               /\ f \notin window' => Cardinality(Copies(f)') < MaxCopies
               /\ f \in window' => \E k \in stream' : k.id = f
    <3>1. CASE f = e
      <4>1. e \in window' /\ m \in stream' /\ m.id = e
        BY <2>1
      <4>2. Cardinality(Copies(e)') \in {n - 1, n}
        BY <2>5, <2>6
      <4> HIDE DEF n, m
      <4>3. Cardinality(Copies(e)') \in 0 .. MaxCopies
        BY <4>2, <2>2, BoundsAssumption
      <4> QED BY <3>1, <4>1, <4>3
    <3>2. CASE f # e
      BY <3>2, <2>1, <2>7 DEF WindowRoom
    <3> QED BY <3>1, <3>2
  <2>9. WindowRoom'
    BY <2>4, <2>8 DEF WindowRoom
  <2> QED BY <2>1, <2>3, <2>9 DEF TypeOK
<1> QED BY <1>1, <1>2

\* What the rows that Store, release and replay write look like.
LEMMA InsertedRow ==
    ASSUME NEW b \in Bodies
    PROVE  /\ Inserted(b) \in Row
           /\ Inserted(b).stored /\ ~Inserted(b).published /\ ~Inserted(b).dead
           /\ ~Inserted(b).deleted /\ Inserted(b).lockedBy = NoWorker /\ Inserted(b).body = b
<1>1. Absent \in Row
  BY BoundsAssumption DEF Absent, Row, Bodies, Undecodable
<1>2. /\ ~Absent.published /\ ~Absent.dead /\ ~Absent.deleted /\ Absent.lockedBy = NoWorker
  BY DEF Absent
<1> HIDE DEF Absent
<1> QED BY <1>1, <1>2 DEF Inserted, Row

\* Dropping a claim changes locked_by and the lease alone (updateClaim).
LEMMA UnlockedRow ==
    ASSUME NEW r \in Row
    PROVE  /\ Unlocked(r) \in Row
           /\ Unlocked(r).lockedBy = NoWorker
           /\ Unlocked(r).stored = r.stored /\ Unlocked(r).published = r.published
           /\ Unlocked(r).dead = r.dead /\ Unlocked(r).deleted = r.deleted
           /\ Unlocked(r).attempts = r.attempts /\ Unlocked(r).body = r.body
  BY DEF Unlocked, Row

\* The attempts counter stays under its cap (Increment).
LEMMA IncrementType == \A n \in 0 .. AttemptCap : Increment(n) \in 0 .. AttemptCap
  BY BoundsAssumption DEF Increment

\* A release drops the claim, counts the attempt and backs off (release).
LEMMA ReleasedRow ==
    ASSUME NEW r \in Row
    PROVE  /\ Released(r) \in Row
           /\ Released(r).lockedBy = NoWorker
           /\ Released(r).stored = r.stored /\ Released(r).published = r.published
           /\ Released(r).dead = r.dead /\ Released(r).deleted = r.deleted
           /\ Released(r).body = r.body
<1> DEFINE u == Unlocked(r)
<1>1. u \in Row /\ u.lockedBy = NoWorker /\ u.stored = r.stored /\ u.published = r.published
      /\ u.dead = r.dead /\ u.deleted = r.deleted /\ u.body = r.body
  BY UnlockedRow
<1>2. Increment(u.attempts) \in 0 .. AttemptCap
  BY <1>1, IncrementType DEF Row
<1>3. Released(r) = [u EXCEPT !.attempts = Increment(u.attempts), !.due = FALSE]
  BY DEF Released
<1> HIDE DEF u
<1> QED BY <1>1, <1>2, <1>3 DEF Row

\* A replay revives the row with the body the operator chose (replay of repair.go).
LEMMA RevivedRow ==
    ASSUME NEW r \in Row, NEW b \in Bodies
    PROVE  /\ Revived(r, b) \in Row
           /\ Revived(r, b).lockedBy = NoWorker /\ ~Revived(r, b).dead
           /\ Revived(r, b).stored = r.stored /\ Revived(r, b).published = r.published
           /\ Revived(r, b).deleted = r.deleted /\ Revived(r, b).body = b
<1> DEFINE u == Unlocked(r)
<1>1. u \in Row /\ u.lockedBy = NoWorker /\ u.stored = r.stored /\ u.published = r.published
      /\ u.deleted = r.deleted
  BY UnlockedRow
<1>2. Revived(r, b) = [u EXCEPT !.attempts = 0, !.due = TRUE, !.dead = FALSE, !.body = b]
  BY DEF Revived
<1>3. 0 \in 0 .. AttemptCap
  BY BoundsAssumption
<1> HIDE DEF u
<1>4. Revived(r, b) \in Row
  BY <1>1, <1>2, <1>3 DEF Row
<1> QED BY <1>1, <1>2, <1>3, <1>4 DEF Row

\* A claim writes a dispatcher and a running lease into a row (claim).
LEMMA ClaimedRow ==
    ASSUME NEW r \in Row, NEW w \in Workers
    PROVE  [r EXCEPT !.lockedBy = w, !.leased = TRUE] \in Row
  BY DEF Row

\* An update of the rows in S clears the listings of them and no others.
LEMMA OutdatedViews ==
    ASSUME TypeOK, NEW S
    PROVE  /\ Outdated(S) \in [Operators -> DeadRecord]
           /\ \A o \in Operators :
                Outdated(S)[o].id # NoEvent => Outdated(S)[o] = view[o] /\ view[o].id \notin S
  BY BoundsAssumption DEF TypeOK, Outdated, DeadRecord, NoView

\* A new row is claimed by nobody, listed by nobody and unknown to the stream.
LEMMA StoreKeeps ==
    ASSUME IndInv, NEW e \in Events, Store(e) \/ StoredByOlderRelease(e)
    PROVE  IndInv'
<1> USE WorkersAssumption DEF Live, Undecodable, Original, Replacement, Bodies, NoEvent
<1>1. PICK r \in Row :
        /\ row' = [row EXCEPT ![e] = r]
        /\ r.stored /\ ~r.published /\ ~r.deleted /\ r.lockedBy = NoWorker
  <2>1. CASE row' = [row EXCEPT ![e] = Inserted(Original)]
    BY <2>1, InsertedRow
  <2>2. CASE row' = [row EXCEPT ![e] = Inserted(Undecodable)]
    BY <2>2, InsertedRow
  <2>3. CASE row' = [row EXCEPT ![e] = [Inserted(Original) EXCEPT
                                          !.dead = TRUE, !.attempts = MaxDeliver]]
    <3>1. PICK i \in Row : /\ i = Inserted(Original) /\ i.stored /\ ~i.published
                           /\ ~i.deleted /\ i.lockedBy = NoWorker
      BY InsertedRow
    <3>2. MaxDeliver \in 0 .. AttemptCap
      BY BoundsAssumption
    <3>3. [i EXCEPT !.dead = TRUE, !.attempts = MaxDeliver] \in Row
      BY <3>2 DEF Row
    <3> QED BY <2>3, <3>1, <3>3 DEF Row
  <2> QED BY <2>1, <2>2, <2>3 DEF Store, StoredByOlderRelease
<1>2. ~row[e].stored /\ UNCHANGED <<worker, view, stream, window>>
  BY DEF Store, StoredByOlderRelease
<1>3. TypeOK'
  BY <1>1, <1>2 DEF IndInv, TypeOK
<1>4. RowsConsistent'
  BY <1>1, <1>2 DEF IndInv, TypeOK, RowsConsistent
<1>5. ClaimsConsistent'
  BY <1>1, <1>2 DEF IndInv, TypeOK, ClaimsConsistent
<1>6. ClaimFencing'
  BY <1>1, <1>2 DEF IndInv, TypeOK, RowsConsistent, ClaimsConsistent, ClaimFencing
<1>7. ClaimedBodies'
  BY <1>1, <1>2 DEF IndInv, TypeOK, RowsConsistent, ClaimsConsistent, ClaimFencing, ClaimedBodies
<1>8. StreamedBodies'
  BY <1>1, <1>2 DEF IndInv, TypeOK, RowsConsistent, StreamedBodies
<1>9. ClaimsAgree'
  BY <1>1, <1>2 DEF IndInv, TypeOK, ClaimsConsistent, ClaimedBodies, ClaimsAgree, StreamedBodies
<1>10. StreamAgrees'
  BY <1>1, <1>2 DEF IndInv, TypeOK, StreamedBodies, StreamAgrees
<1>11. OneContentPerEvent'
  BY <1>1, <1>2 DEF IndInv, TypeOK, OneContentPerEvent
<1>12. PublishedStreamed'
  BY <1>1, <1>2 DEF IndInv, TypeOK, PublishedStreamed
<1>13. ListedVersionIsCurrent'
  BY <1>1, <1>2 DEF IndInv, TypeOK, RowsConsistent, ClaimsConsistent, ListedVersionIsCurrent
<1>14. WindowRoom'
  BY <1>1, <1>2 DEF IndInv, WindowRoom, Copies
<1> QED BY <1>3, <1>4, <1>5, <1>6, <1>7, <1>8, <1>9, <1>10, <1>11, <1>12, <1>13, <1>14 DEF IndInv

\* A claim takes over the bytes of a live row, which every stale holder shares.
LEMMA ClaimKeeps ==
    ASSUME IndInv, NEW w \in Workers, NEW skip, claim(w, skip)
    PROVE  IndInv'
<1> USE WorkersAssumption DEF Live, Undecodable, Original, Replacement, Bodies, NoEvent
<1>1. PICK e \in Events :
        /\ Live(row[e])
        /\ row' = [row EXCEPT ![e] = [row[e] EXCEPT !.lockedBy = w, !.leased = TRUE]]
        /\ view' = Outdated({e})
        /\ worker' = [worker EXCEPT ![w] = [pc |-> "claimed", id |-> e,
                           attempts |-> row[e].attempts, body |-> row[e].body]]
        /\ UNCHANGED <<stream, window>>
  BY DEF claim, Claimable, UpdateRow
<1>2. row' \in [Events -> Row] /\ worker' \in [Workers -> outboxRecord]
  <2>1. [row[e] EXCEPT !.lockedBy = w, !.leased = TRUE] \in Row
    BY ClaimedRow DEF IndInv, TypeOK
  <2>2. [pc |-> "claimed", id |-> e, attempts |-> row[e].attempts,
         body |-> row[e].body] \in outboxRecord
    BY DEF IndInv, TypeOK, Row, outboxRecord
  <2> QED BY <1>1, <2>1, <2>2 DEF IndInv, TypeOK
<1>3. /\ view' \in [Operators -> DeadRecord]
      /\ \A o \in Operators : view'[o].id # NoEvent => view'[o] = view[o] /\ view[o].id # e
  BY <1>1, OutdatedViews DEF IndInv
<1>4. \A f \in Events : f # e => row'[f] = row[f]
  BY <1>1 DEF IndInv, TypeOK
<1>5. row'[e].stored
  BY <1>1 DEF IndInv, TypeOK, Row
<1>6. TypeOK'
  BY <1>1, <1>2, <1>3, <1>4, <1>5 DEF IndInv, TypeOK
<1>7. RowsConsistent'
  BY <1>1, <1>2, <1>3, <1>4, <1>5 DEF IndInv, TypeOK, RowsConsistent
<1>8. ClaimsConsistent'
  <2>1. \A o \in Operators : view'[o].id # NoEvent => view'[o].id \in Events
    BY <1>3 DEF IndInv, ClaimsConsistent
  <2>2. \A v \in Workers : v # w => worker'[v] = worker[v]
    BY <1>1 DEF IndInv, TypeOK
  <2>3. worker'[w].pc = "claimed" /\ worker'[w].id = e
    BY <1>1 DEF IndInv, TypeOK
  <2>4. stream' = stream
    BY <1>1
  <2> QED BY <1>4, <1>5, <2>1, <2>2, <2>3, <2>4 DEF IndInv, ClaimsConsistent
<1>9. ClaimFencing'
  BY <1>1, <1>2, <1>3, <1>4, <1>5 DEF IndInv, TypeOK, RowsConsistent, ClaimsConsistent, ClaimFencing
<1>10. ClaimedBodies'
  BY <1>1, <1>2, <1>3, <1>4, <1>5 DEF IndInv, TypeOK, RowsConsistent, ClaimsConsistent, ClaimFencing, ClaimedBodies
<1>11. StreamedBodies'
  BY <1>1, <1>2, <1>3, <1>4, <1>5 DEF IndInv, TypeOK, RowsConsistent, StreamedBodies
<1>12. ClaimsAgree'
  BY <1>1, <1>2, <1>3, <1>4, <1>5 DEF IndInv, TypeOK, ClaimsConsistent, ClaimedBodies, ClaimsAgree
<1>13. StreamAgrees'
  BY <1>1, <1>2, <1>3, <1>4, <1>5 DEF IndInv, TypeOK, StreamedBodies, StreamAgrees
<1>14. OneContentPerEvent'
  BY <1>1, <1>2, <1>3, <1>4, <1>5 DEF IndInv, TypeOK, OneContentPerEvent
<1>15. PublishedStreamed'
  BY <1>1, <1>2, <1>3, <1>4, <1>5 DEF IndInv, TypeOK, PublishedStreamed
<1>16. ListedVersionIsCurrent'
  <2> SUFFICES ASSUME NEW o \in Operators, view'[o].id # NoEvent
               PROVE  /\ row'[view'[o].id].dead /\ ~row'[view'[o].id].published
                      /\ ~row'[view'[o].id].deleted
                      /\ row'[view'[o].id].attempts = view'[o].attempts
    BY DEF ListedVersionIsCurrent
  <2>1. view[o].id # NoEvent /\ view[o].id \in Events /\ view[o].id # e
    BY <1>3 DEF IndInv, ClaimsConsistent
  <2>2. row'[view'[o].id] = row[view[o].id] /\ view'[o].attempts = view[o].attempts
    BY <2>1, <1>3, <1>4
  <2> QED BY <2>1, <2>2 DEF IndInv, ListedVersionIsCurrent
<1>17. WindowRoom'
  BY <1>1, <1>2, <1>3, <1>4, <1>5 DEF IndInv, WindowRoom, Copies
<1> QED BY <1>6, <1>7, <1>8, <1>9, <1>10, <1>11, <1>12, <1>13, <1>14, <1>15, <1>16, <1>17 DEF IndInv

\* One row is rewritten while claims are at most dropped: the new row r may set the
\* event's bytes or its death only while nobody holds decodable bytes of it and the
\* stream has none.
Rewrites(e, r) ==
    /\ row' = [row EXCEPT ![e] = r]
    /\ stream' = stream /\ window' = window
    /\ worker' \in [Workers -> outboxRecord]
    /\ \A v \in Workers : worker'[v] = worker[v] \/ worker'[v].pc = "idle"
    /\ view' \in [Operators -> DeadRecord]
    /\ \A o \in Operators : view'[o].id # NoEvent => view'[o] = view[o]

Sound(e, r) ==
    /\ r.stored
    /\ r.published \/ r.dead => r.lockedBy = NoWorker
    /\ r.deleted => r.published \/ r.dead
    /\ r.published => \E m \in stream : m.id = e
    /\ \A v \in Workers :
         worker'[v].pc # "idle" /\ worker[v].id = e /\ r.lockedBy = v =>
            Live(r) /\ r.attempts = worker[v].attempts /\ r.body = worker[v].body
    /\ \A o \in Operators :
         view'[o].id # NoEvent /\ view[o].id = e =>
            r.dead /\ ~r.published /\ ~r.deleted /\ r.attempts = view[o].attempts

BytesOut(e) ==
    \/ \E v \in Workers : worker[v].pc # "idle" /\ worker[v].id = e
                           /\ worker[v].body # Undecodable
    \/ \E m \in stream : m.id = e

KeepsBytes(e, r) ==
    BytesOut(e) => /\ ~r.dead
                   /\ r.deleted \/ (~row[e].deleted /\ r.body = row[e].body)

\* Such a rewrite keeps the invariant (the shape of every UPDATE of one row).
LEMMA RewriteKeeps ==
    ASSUME IndInv, NEW e \in Events, NEW r \in Row,
           Rewrites(e, r), Sound(e, r), KeepsBytes(e, r)
    PROVE  IndInv'
<1>1. /\ row'[e] = r
      /\ \A f \in Events : f # e => row'[f] = row[f]
  BY DEF IndInv, TypeOK, Rewrites
<1>2. stream' = stream /\ window' = window
  BY DEF Rewrites
<1>3. \A v \in Workers : worker'[v] = worker[v] \/ worker'[v].pc = "idle"
  BY DEF Rewrites
<1>4. TypeOK'
  BY DEF IndInv, TypeOK, Rewrites
<1>5. RowsConsistent'
  BY <1>1 DEF IndInv, RowsConsistent, Sound
<1>6. ClaimsConsistent'
  <2>1. \A o \in Operators : view'[o].id # NoEvent => view'[o].id \in Events
    BY DEF IndInv, ClaimsConsistent, Rewrites
  <2> QED BY <1>1, <1>2, <1>3, <2>1 DEF IndInv, ClaimsConsistent, Sound
<1>7. ClaimFencing'
  BY <1>1, <1>3 DEF IndInv, ClaimsConsistent, ClaimFencing, Sound, Live
<1>8. ClaimedBodies'
  BY <1>1, <1>3 DEF IndInv, ClaimsConsistent, ClaimedBodies, KeepsBytes, BytesOut
<1>9. StreamedBodies'
  BY <1>1, <1>2 DEF IndInv, TypeOK, Message, StreamedBodies, Sound, KeepsBytes, BytesOut
<1>10. ClaimsAgree'
  BY <1>3 DEF IndInv, ClaimsAgree
<1>11. StreamAgrees'
  BY <1>2, <1>3 DEF IndInv, StreamAgrees
<1>12. OneContentPerEvent'
  BY <1>2 DEF IndInv, OneContentPerEvent
<1>13. PublishedStreamed'
  BY <1>1, <1>2 DEF IndInv, PublishedStreamed, Sound
<1>14. ListedVersionIsCurrent'
  <2> SUFFICES ASSUME NEW o \in Operators, view'[o].id # NoEvent
               PROVE  /\ row'[view'[o].id].dead /\ ~row'[view'[o].id].published
                      /\ ~row'[view'[o].id].deleted
                      /\ row'[view'[o].id].attempts = view'[o].attempts
    BY DEF ListedVersionIsCurrent
  <2>1. /\ view[o].id # NoEvent /\ view[o].id \in Events
        /\ view'[o].id = view[o].id /\ view'[o].attempts = view[o].attempts
    BY DEF IndInv, ClaimsConsistent, Rewrites
  <2>2. CASE view[o].id = e
    BY <2>1, <2>2, <1>1 DEF Sound
  <2>3. CASE view[o].id # e
    BY <2>1, <2>3, <1>1 DEF IndInv, ListedVersionIsCurrent
  <2> QED BY <2>2, <2>3
<1>15. WindowRoom'
  BY <1>2 DEF IndInv, WindowRoom, Copies
<1> QED BY <1>4, <1>5, <1>6, <1>7, <1>8, <1>9, <1>10, <1>11, <1>12, <1>13, <1>14, <1>15
        DEF IndInv

\* Rows with a claim or an alarm clock changed, everything else kept.
LEMMA DueRow ==
    ASSUME NEW r \in Row
    PROVE  \A q \in {[r EXCEPT !.due = TRUE], [r EXCEPT !.leased = FALSE]} :
              /\ q \in Row
              /\ q.stored = r.stored /\ q.published = r.published
              /\ q.dead = r.dead /\ q.deleted = r.deleted
              /\ q.attempts = r.attempts /\ q.body = r.body /\ q.lockedBy = r.lockedBy
  BY DEF Row

\* Marking a row published keeps its claim and its body (markPublished).
LEMMA PublishedRow ==
    ASSUME NEW u \in Row, u.stored, ~u.dead, ~u.deleted
    PROVE  LET r == [u EXCEPT !.published = TRUE] IN
           /\ r \in Row /\ r.lockedBy = u.lockedBy /\ r.body = u.body
           /\ r.stored /\ r.published /\ ~r.dead /\ ~r.deleted
  BY DEF Row

\* Dead-lettering counts the attempt and keeps the row unpublished (dispatchRecord).
LEMMA DeadRow ==
    ASSUME NEW u \in Row, u.stored, ~u.published, ~u.deleted
    PROVE  LET r == [u EXCEPT !.attempts = Increment(u.attempts), !.dead = TRUE] IN
           /\ r \in Row /\ r.lockedBy = u.lockedBy
           /\ r.stored /\ ~r.published /\ r.dead /\ ~r.deleted
<1>1. Increment(u.attempts) \in 0 .. AttemptCap
  BY IncrementType DEF Row
<1> QED BY <1>1 DEF Row

\* markPublished, both releases and the dead-lettering: a dispatcher whose name is
\* still on the row holds its current content.
LEMMA UpdateClaimKeeps ==
    ASSUME IndInv, NEW w \in Workers,
           markPublished(w) \/ releaseUnpublished(w) \/ releaseUndecodable(w)
    PROVE  IndInv'
<1> DEFINE e == worker[w].id
           u == Unlocked(row[e])
<1>1. e \in Events /\ row[e] \in Row /\ worker[w].pc # "idle"
  BY DEF IndInv, TypeOK, ClaimsConsistent, markPublished, releaseUnpublished,
         releaseUndecodable
<1>2. /\ worker' = [worker EXCEPT ![w] = Idle] /\ stream' = stream /\ window' = window
      /\ IF OwnsClaim(w, row[e])
         THEN view' = Outdated({e}) ELSE row' = row /\ view' = view
  BY DEF markPublished, releaseUnpublished, releaseUndecodable, updateClaim, UpdateRow
<1>3. /\ worker' \in [Workers -> outboxRecord] /\ worker'[w].pc = "idle"
      /\ \A v \in Workers : v # w => worker'[v] = worker[v]
  <2>1. Idle \in outboxRecord /\ Idle.pc = "idle"
    BY BoundsAssumption DEF Idle, outboxRecord, Bodies
  <2> QED BY <1>2, <2>1 DEF IndInv, TypeOK
<1>4. ASSUME Live(row[e])
     PROVE  /\ u \in Row /\ u.lockedBy = NoWorker /\ u.body = row[e].body
            /\ u.stored /\ ~u.published /\ ~u.dead /\ ~u.deleted
  BY <1>1, <1>4, UnlockedRow DEF Live
<1>5. CASE ~OwnsClaim(w, row[e])
  <2>1. row[e].stored /\ row' = [row EXCEPT ![e] = row[e]]
    BY <1>1, <1>2, <1>5 DEF IndInv, TypeOK, ClaimsConsistent
  <2>2. Rewrites(e, row[e])
    BY <1>2, <1>3, <1>5, <2>1 DEF Rewrites, IndInv, TypeOK
  <2>3. Sound(e, row[e])
    BY <1>1, <1>2, <1>3, <1>5, <2>1 DEF Sound, IndInv, RowsConsistent, PublishedStreamed,
       ClaimFencing, ListedVersionIsCurrent
  <2>4. KeepsBytes(e, row[e])
    BY <1>1 DEF KeepsBytes, BytesOut, IndInv, TypeOK, ClaimedBodies, StreamedBodies
  <2> QED BY <1>1, <2>2, <2>3, <2>4, RewriteKeeps
<1>6. CASE OwnsClaim(w, row[e])
  <2>1. Live(row[e]) /\ row[e].attempts = worker[w].attempts /\ row[e].body = worker[w].body
    BY <1>1, <1>6 DEF OwnsClaim, IndInv, ClaimFencing
  <2>2. /\ view' \in [Operators -> DeadRecord]
        /\ \A o \in Operators : view'[o].id # NoEvent => view'[o] = view[o] /\ view[o].id # e
    BY <1>2, <1>6, OutdatedViews DEF IndInv
  <2>3. ASSUME NEW r \in Row, row' = [row EXCEPT ![e] = r],
               r.stored, ~r.deleted, r.lockedBy = NoWorker,
               r.published => \E m \in stream : m.id = e,
               KeepsBytes(e, r)
        PROVE  IndInv'
    <3>1. Rewrites(e, r)
      BY <1>2, <1>3, <2>2, <2>3 DEF Rewrites
    <3>2. Sound(e, r)
      BY <2>2, <2>3, WorkersAssumption DEF Sound
    <3> QED BY <1>1, <2>3, <3>1, <3>2, RewriteKeeps
  <2>4. CASE markPublished(w)
    <3>1. row' = [row EXCEPT ![e] = [u EXCEPT !.published = TRUE]]
      BY <1>6, <2>4 DEF markPublished, updateClaim, UpdateRow
    <3>2. \E m \in stream : m.id = e
      BY <1>1, <2>4 DEF markPublished, IndInv, ClaimsConsistent
    <3>3. PICK r \in Row : /\ r = [u EXCEPT !.published = TRUE]
                           /\ r.stored /\ ~r.dead /\ ~r.deleted /\ r.lockedBy = NoWorker
                           /\ r.body = row[e].body
      BY <1>4, <2>1, PublishedRow
    <3>4. KeepsBytes(e, r)
      BY <2>1, <3>3 DEF KeepsBytes, Live
    <3> QED BY <2>3, <3>1, <3>2, <3>3, <3>4
  <2>5. CASE releaseUnpublished(w) \/ row' = [row EXCEPT ![e] = Released(row[e])]
    <3>1. row' = [row EXCEPT ![e] = Released(row[e])]
      BY <1>6, <2>5 DEF releaseUnpublished, updateClaim, UpdateRow
    <3>2. PICK r \in Row : /\ r = Released(row[e])
                           /\ r.stored /\ ~r.published /\ ~r.dead /\ ~r.deleted
                           /\ r.lockedBy = NoWorker /\ r.body = row[e].body
      BY <1>1, <2>1, ReleasedRow DEF Live
    <3>3. KeepsBytes(e, r)
      BY <2>1, <3>2 DEF KeepsBytes, Live
    <3> QED BY <2>3, <3>1, <3>2, <3>3
  <2>6. CASE /\ releaseUndecodable(w)
             /\ row' = [row EXCEPT ![e] = [u EXCEPT !.attempts = Increment(u.attempts),
                                                    !.dead = TRUE]]
    <3>2. PICK r \in Row : /\ r = [u EXCEPT !.attempts = Increment(u.attempts), !.dead = TRUE]
                           /\ r.stored /\ ~r.published /\ ~r.deleted /\ r.lockedBy = NoWorker
      <4>1. /\ u \in Row /\ u.stored /\ ~u.published /\ ~u.deleted
            /\ u.lockedBy = NoWorker
        BY <1>4, <2>1
      <4> HIDE DEF u
      <4>2. LET d == [u EXCEPT !.attempts = Increment(u.attempts), !.dead = TRUE] IN
            /\ d \in Row /\ d.lockedBy = u.lockedBy
            /\ d.stored /\ ~d.published /\ d.dead /\ ~d.deleted
        BY <4>1, DeadRow
      <4> QED BY <4>1, <4>2, Zenon
    <3>3. row[e].body = Undecodable /\ ~row[e].deleted
      BY <2>1, <2>6 DEF releaseUndecodable, Live
    <3>4. ~BytesOut(e)
      BY <3>3 DEF BytesOut, IndInv, ClaimedBodies, StreamedBodies
    <3>5. KeepsBytes(e, r)
      BY <3>4 DEF KeepsBytes
    <3> QED BY <2>3, <2>6, <3>2, <3>5
  <2>7. CASE releaseUndecodable(w)
    <3>1. \/ row' = [row EXCEPT ![e] = Released(row[e])]
          \/ row' = [row EXCEPT ![e] = [u EXCEPT !.attempts = Increment(u.attempts),
                                                 !.dead = TRUE]]
      BY <1>6, <2>7 DEF releaseUndecodable, updateClaim, UpdateRow
    <3> QED BY <2>5, <2>6, <2>7, <3>1
  <2> QED BY <2>4, <2>5, <2>7
<1> QED BY <1>5, <1>6

\* A publish, acknowledged or not, adds at most the bytes the dispatcher holds.
LEMMA PublishKeeps ==
    ASSUME IndInv, NEW w \in Workers, PublishAcked(w) \/ PublishFailed(w)
    PROVE  IndInv'
<1> DEFINE e == worker[w].id
           b == worker[w].body
<1>1. e \in Events /\ b \in Bodies /\ b # Undecodable /\ worker[w].pc = "claimed"
     /\ row' = row /\ view' = view /\ row[e].stored
  BY DEF IndInv, TypeOK, ClaimsConsistent, outboxRecord, PublishAcked, PublishFailed
<1>2. PICK pc \in {"acked", "failed"} :
        /\ worker' = [worker EXCEPT ![w].pc = pc]
        /\ \/ Accept(e, b)
           \/ pc = "failed" /\ stream' = stream /\ window' = window
  BY DEF PublishAcked, PublishFailed
<1>3. /\ stream' \subseteq Message /\ window' \subseteq Events /\ WindowRoom'
      /\ stream \subseteq stream'
      /\ \A m \in stream' : m \in stream \/ (m.id = e /\ m.body = b)
      /\ pc = "acked" => \E m \in stream' : m.id = e
  <2>1. CASE Accept(e, b)
    BY <1>1, <2>1, AcceptKeepsRoom DEF IndInv
  <2>2. CASE pc = "failed" /\ stream' = stream /\ window' = window
    BY <2>2 DEF IndInv, TypeOK, WindowRoom, Copies
  <2> QED BY <1>2, <2>1, <2>2
<1>4. /\ worker' \in [Workers -> outboxRecord]
      /\ worker'[w].pc = pc /\ worker'[w].id = e /\ worker'[w].body = b
      /\ worker'[w].attempts = worker[w].attempts
      /\ \A v \in Workers : v # w => worker'[v] = worker[v]
  BY <1>2 DEF IndInv, TypeOK, outboxRecord
<1>a. \A m \in stream' : m \in stream \/ (m.id = e /\ m.body = b)
  BY <1>3
<1>b. pc = "acked" => \E m \in stream' : m.id = e
  BY <1>3
<1> HIDE DEF e, b
<1>5. TypeOK'
  BY <1>1, <1>3, <1>4 DEF IndInv, TypeOK
<1>6. RowsConsistent' /\ ListedVersionIsCurrent'
  BY <1>1 DEF IndInv, RowsConsistent, ListedVersionIsCurrent
<1>7. ClaimsConsistent'
  <2>1. \A o \in Operators : view'[o].id # NoEvent => view'[o].id \in Events
    BY <1>1 DEF IndInv, ClaimsConsistent
  <2>2. ASSUME NEW v \in Workers, v # w, worker'[v].pc # "idle"
        PROVE  /\ worker'[v].id \in Events /\ row'[worker'[v].id].stored
               /\ worker'[v].pc \in {"acked", "failed"} => worker'[v].body # Undecodable
               /\ worker'[v].pc = "acked" => \E m \in stream' : m.id = worker'[v].id
    <3>1. worker'[v] = worker[v]
      BY <1>4, <2>2
    <3> QED BY <1>1, <1>3, <2>2, <3>1 DEF IndInv, ClaimsConsistent
  <2>3. /\ worker'[w].id \in Events /\ row'[worker'[w].id].stored
        /\ worker'[w].pc \in {"acked", "failed"} => worker'[w].body # Undecodable
        /\ worker'[w].pc = "acked" => \E m \in stream' : m.id = worker'[w].id
    BY <1>1, <1>b, <1>4
  <2> QED BY <2>1, <2>2, <2>3 DEF ClaimsConsistent
<1>8. ClaimFencing'
  BY <1>1, <1>4 DEF IndInv, ClaimFencing, Live, e, b
<1>9. ClaimedBodies'
  BY <1>1, <1>4 DEF IndInv, ClaimedBodies, e, b
<1>10. StreamedBodies'
  <2>1. row[e].stored /\ ~row[e].dead /\ (row[e].deleted \/ row[e].body = b)
    BY <1>1 DEF IndInv, ClaimedBodies, e, b
  <2>2. ASSUME NEW m \in stream'
        PROVE  m.body # Undecodable /\ row[m.id].stored /\ ~row[m.id].dead
               /\ (row[m.id].deleted \/ row[m.id].body = m.body)
    <3>1. CASE m \in stream
      BY <3>1 DEF IndInv, StreamedBodies
    <3>2. CASE m.id = e /\ m.body = b
      BY <1>1, <2>1, <3>2
    <3> QED BY <1>a, <3>1, <3>2
  <2> QED BY <1>1, <2>2 DEF StreamedBodies
<1>11. ClaimsAgree'
  BY <1>1, <1>4 DEF IndInv, ClaimsAgree, e, b
<1>12. \A m \in stream : m.id = e => m.body = b
  BY <1>1 DEF IndInv, StreamAgrees, e, b
<1>13. StreamAgrees' /\ OneContentPerEvent'
  <2>1. \A v \in Workers : /\ worker[v].pc # "idle" /\ worker[v].body # Undecodable
                           /\ worker[v].id = e
                           => worker[v].body = b
    BY <1>1 DEF IndInv, ClaimsAgree, e, b
  <2>2. ASSUME NEW v \in Workers, NEW m \in stream', worker'[v].pc # "idle",
               worker'[v].body # Undecodable, worker'[v].id = m.id
        PROVE  worker'[v].body = m.body
    <3>1. CASE v = w
      BY <1>a, <1>4, <1>12, <2>2, <3>1
    <3>2. CASE v # w /\ m \in stream
      BY <1>4, <2>2, <3>2 DEF IndInv, StreamAgrees
    <3>3. CASE v # w /\ m.id = e /\ m.body = b
      BY <1>4, <2>1, <2>2, <3>3
    <3> QED BY <1>a, <3>1, <3>2, <3>3
  <2>3. ASSUME NEW m \in stream', NEW n \in stream', m.id = n.id
        PROVE  m.body = n.body
    <3>1. CASE m \in stream /\ n \in stream
      BY <2>3, <3>1 DEF IndInv, OneContentPerEvent
    <3> QED BY <1>a, <1>12, <2>3, <3>1
  <2> QED BY <2>2, <2>3 DEF StreamAgrees, OneContentPerEvent
<1>14. PublishedStreamed'
  BY <1>1, <1>3 DEF IndInv, PublishedStreamed
<1> QED BY <1>3, <1>5, <1>6, <1>7, <1>8, <1>9, <1>10, <1>11, <1>12, <1>13, <1>14 DEF IndInv

\* Giving up a record, and dying with it: the claim stays on the row, under a name
\* that no dispatcher has while it does.
LEMMA CrashKeeps ==
    ASSUME IndInv, NEW w \in Workers, Abandon(w) \/ Crash(w)
    PROVE  IndInv'
<1>1. /\ worker' \in [Workers -> outboxRecord] /\ worker'[w].pc = "idle"
      /\ \A v \in Workers : v # w => worker'[v] = worker[v]
  <2>1. Idle \in outboxRecord /\ Idle.pc = "idle"
    BY BoundsAssumption DEF Idle, outboxRecord, Bodies
  <2> QED BY <2>1 DEF IndInv, TypeOK, Abandon, Crash
<1>2. view' = view /\ stream' = stream /\ window' = window
  BY DEF Abandon, Crash
<1>3. \A r \in Row : [r EXCEPT !.lockedBy = Gone] \in Row
  BY DEF Row
<1>4. row' \in [Events -> Row]
  BY <1>3 DEF IndInv, TypeOK, Abandon, Crash
<1>5. ASSUME NEW e \in Events
     PROVE  \/ row'[e] = row[e]
            \/ row[e].lockedBy = w /\ row'[e] = [row[e] EXCEPT !.lockedBy = Gone]
  BY DEF IndInv, TypeOK, Abandon, Crash
<1>6. ASSUME NEW e \in Events
     PROVE  /\ row'[e].stored <=> row[e].stored
            /\ row'[e].published <=> row[e].published
            /\ row'[e].dead <=> row[e].dead
            /\ row'[e].deleted <=> row[e].deleted
            /\ row'[e].leased <=> row[e].leased
            /\ row'[e].attempts = row[e].attempts
            /\ row'[e].body = row[e].body
            /\ row'[e].lockedBy = row[e].lockedBy
               \/ (row[e].lockedBy = w /\ row'[e].lockedBy = Gone)
  <2>1. row[e] \in Row
    BY DEF IndInv, TypeOK
  <2>2. CASE row'[e] = [row[e] EXCEPT !.lockedBy = Gone] /\ row[e].lockedBy = w
    BY <2>1, <2>2 DEF Row
  <2> QED BY <1>5, <2>2
<1>7. TypeOK'
  BY <1>1, <1>2, <1>4 DEF IndInv, TypeOK
<1>8. RowsConsistent'
  BY <1>6, WorkersAssumption DEF IndInv, RowsConsistent
<1>9. ClaimsConsistent'
  BY <1>1, <1>2, <1>6 DEF IndInv, ClaimsConsistent
<1>10. ClaimFencing'
  BY <1>1, <1>6, WorkersAssumption DEF IndInv, ClaimsConsistent, ClaimFencing, Live
<1>11. ClaimedBodies'
  BY <1>1, <1>6 DEF IndInv, ClaimsConsistent, ClaimedBodies
<1>12. StreamedBodies'
  BY <1>2, <1>6 DEF IndInv, TypeOK, Message, StreamedBodies
<1>13. ClaimsAgree' /\ StreamAgrees' /\ OneContentPerEvent'
  BY <1>1, <1>2 DEF IndInv, ClaimsAgree, StreamAgrees, OneContentPerEvent
<1>14. PublishedStreamed'
  BY <1>2, <1>6 DEF IndInv, PublishedStreamed
<1>15. ListedVersionIsCurrent'
  BY <1>2, <1>6 DEF IndInv, ClaimsConsistent, ListedVersionIsCurrent
<1>16. WindowRoom'
  BY <1>2 DEF IndInv, WindowRoom, Copies
<1> QED BY <1>7, <1>8, <1>9, <1>10, <1>11, <1>12, <1>13, <1>14, <1>15, <1>16 DEF IndInv

\* Leases and backoffs that run out touch nothing the invariant speaks of.
LEMMA TimeKeeps ==
    ASSUME IndInv, NEW e \in Events, LeaseExpires(e) \/ RetryDue(e)
    PROVE  IndInv'
<1>1. row[e] \in Row /\ row[e].stored
  BY DEF IndInv, TypeOK, RowsConsistent, LeaseExpires, RetryDue, Live
<1>2. PICK r \in Row :
        /\ row' = [row EXCEPT ![e] = r]
        /\ r.stored = row[e].stored /\ r.published = row[e].published
        /\ r.dead = row[e].dead /\ r.deleted = row[e].deleted
        /\ r.attempts = row[e].attempts /\ r.body = row[e].body
        /\ r.lockedBy = row[e].lockedBy
  <2>1. CASE LeaseExpires(e)
    BY <1>1, <2>1, DueRow DEF LeaseExpires
  <2>2. CASE RetryDue(e)
    BY <1>1, <2>2, DueRow DEF RetryDue
  <2> QED BY <2>1, <2>2
<1>3. worker' = worker /\ view' = view /\ stream' = stream /\ window' = window
  BY DEF LeaseExpires, RetryDue
<1>4. Rewrites(e, r)
  BY <1>2, <1>3 DEF Rewrites, IndInv, TypeOK
<1>5. Sound(e, r)
  BY <1>1, <1>2, <1>3 DEF Sound, IndInv, RowsConsistent, PublishedStreamed, ClaimFencing,
     ListedVersionIsCurrent, Live
<1>6. KeepsBytes(e, r)
  BY <1>2 DEF KeepsBytes, BytesOut, IndInv, ClaimedBodies, StreamedBodies
<1> QED BY <1>2, <1>4, <1>5, <1>6, RewriteKeeps

\* A repair finds a row that nobody can publish, and may choose its bytes.
LEMMA RepairKeeps ==
    ASSUME IndInv, NEW o \in Operators, Replay(o) \/ ReplaceAndReplay(o)
    PROVE  IndInv'
<1> DEFINE e == view[o].id
<1>1. e \in Events /\ row[e] \in Row /\ row[e].dead /\ ~row[e].published /\ ~row[e].deleted
  BY DEF IndInv, TypeOK, ClaimsConsistent, Replay, ReplaceAndReplay, Replayable
<1>2. PICK b \in Bodies : row' = [row EXCEPT ![e] = Revived(row[e], b)]
  BY <1>1 DEF Replay, ReplaceAndReplay, UpdateRow, Bodies, Row
<1>3. worker' = worker /\ view' = Outdated({e}) /\ stream' = stream /\ window' = window
  BY DEF Replay, ReplaceAndReplay, UpdateRow
<1>4. PICK r \in Row : /\ r = Revived(row[e], b)
                       /\ r.stored /\ ~r.published /\ ~r.dead /\ ~r.deleted
                       /\ r.lockedBy = NoWorker
  BY <1>1, RevivedRow DEF IndInv, RowsConsistent
<1>5. /\ view' \in [Operators -> DeadRecord]
      /\ \A p \in Operators : view'[p].id # NoEvent => view'[p] = view[p] /\ view[p].id # e
  BY <1>3, OutdatedViews DEF IndInv
<1>6. ~BytesOut(e)
  BY <1>1 DEF BytesOut, IndInv, ClaimedBodies, StreamedBodies
<1>7. Rewrites(e, r)
  BY <1>2, <1>3, <1>4, <1>5 DEF Rewrites, IndInv, TypeOK
<1>8. Sound(e, r)
  BY <1>4, <1>5, WorkersAssumption DEF Sound
<1>9. KeepsBytes(e, r)
  BY <1>6 DEF KeepsBytes
<1> QED BY <1>1, <1>4, <1>7, <1>8, <1>9, RewriteKeeps

\* Listing a dead row records it as it is.
LEMMA ListKeeps ==
    ASSUME IndInv, NEW o \in Operators, NEW e \in Events, Dead(o, e)
    PROVE  IndInv'
<1> DEFINE d == [id |-> e, attempts |-> row[e].attempts]
<1>1. d \in DeadRecord
  BY DEF IndInv, TypeOK, Row, DeadRecord
<1>2. /\ row[e].dead /\ ~row[e].published /\ ~row[e].deleted
      /\ view' = [view EXCEPT ![o] = d]
      /\ row' = row /\ worker' = worker /\ stream' = stream /\ window' = window
  BY DEF Dead
<1>3. TypeOK'
  BY <1>1, <1>2 DEF IndInv, TypeOK
<1>4. RowsConsistent' /\ ClaimFencing' /\ PublishedStreamed'
  BY <1>2 DEF IndInv, RowsConsistent, ClaimFencing, PublishedStreamed, Live
<1>5. ClaimedBodies' /\ StreamedBodies' /\ ClaimsAgree' /\ StreamAgrees' /\ OneContentPerEvent'
  BY <1>2 DEF IndInv, ClaimedBodies, StreamedBodies, ClaimsAgree, StreamAgrees,
     OneContentPerEvent
<1>6. /\ view'[o].id = e /\ view'[o].attempts = row[e].attempts
      /\ \A p \in Operators : p # o => view'[p] = view[p]
  BY <1>2 DEF IndInv, TypeOK
<1>7. ClaimsConsistent'
  BY <1>2, <1>6 DEF IndInv, ClaimsConsistent
<1>8. ListedVersionIsCurrent'
  BY <1>2, <1>6 DEF IndInv, ListedVersionIsCurrent
<1>9. WindowRoom'
  BY <1>2 DEF IndInv, WindowRoom, Copies
<1> QED BY <1>3, <1>4, <1>5, <1>7, <1>8, <1>9 DEF IndInv

\* Retention erases settled rows, which no claim names any more.
LEMMA CleanupKeeps ==
    ASSUME IndInv, NEW S \in SUBSET Events, cleanupOutbox(S)
    PROVE  IndInv'
<1>1. worker' = worker /\ stream' = stream /\ window' = window /\ view' = Outdated(S)
  BY DEF cleanupOutbox
<1>2. \A r \in Row : [r EXCEPT !.deleted = TRUE, !.body = Undecodable] \in Row
  BY DEF Row, Bodies
<1>3. row' \in [Events -> Row]
  BY <1>2 DEF IndInv, TypeOK, cleanupOutbox
<1>4. ASSUME NEW e \in Events
      PROVE  /\ row'[e].stored <=> row[e].stored
             /\ row'[e].published <=> row[e].published
             /\ row'[e].dead <=> row[e].dead
             /\ row'[e].leased <=> row[e].leased
             /\ row'[e].attempts = row[e].attempts
             /\ row'[e].lockedBy = row[e].lockedBy
             /\ e \in S => row'[e].deleted /\ (row[e].published \/ row[e].dead)
             /\ e \notin S => row'[e] = row[e]
  <2>1. row[e] \in Row
    BY DEF IndInv, TypeOK
  <2>2. CASE e \in S
    <3>1. row'[e] = [row[e] EXCEPT !.deleted = TRUE, !.body = Undecodable]
      BY <2>2 DEF cleanupOutbox
    <3>2. row[e].published \/ row[e].dead
      BY <2>2 DEF cleanupOutbox
    <3> QED BY <2>1, <2>2, <3>1, <3>2 DEF Row
  <2>3. CASE e \notin S
    BY <2>3 DEF cleanupOutbox
  <2> QED BY <2>2, <2>3
<1>5. /\ view' \in [Operators -> DeadRecord]
      /\ \A p \in Operators : view'[p].id # NoEvent => view'[p] = view[p] /\ view[p].id \notin S
  BY <1>1, OutdatedViews DEF IndInv
<1>6. TypeOK'
  BY <1>1, <1>3, <1>5 DEF IndInv, TypeOK
<1>7. RowsConsistent'
  BY <1>4 DEF IndInv, RowsConsistent
<1>8. ClaimsConsistent'
  BY <1>1, <1>4, <1>5 DEF IndInv, ClaimsConsistent
<1>9. ClaimFencing'
  BY <1>1, <1>4, WorkersAssumption DEF IndInv, RowsConsistent, ClaimsConsistent,
     ClaimFencing, Live
<1>10. ClaimedBodies'
  BY <1>1, <1>4 DEF IndInv, ClaimsConsistent, ClaimedBodies
<1>11. StreamedBodies'
  BY <1>1, <1>4 DEF IndInv, TypeOK, Message, StreamedBodies
<1>12. ClaimsAgree' /\ StreamAgrees' /\ OneContentPerEvent'
  BY <1>1 DEF IndInv, ClaimsAgree, StreamAgrees, OneContentPerEvent
<1>13. PublishedStreamed'
  BY <1>1, <1>4 DEF IndInv, PublishedStreamed
<1>14. ListedVersionIsCurrent'
  <2> SUFFICES ASSUME NEW o \in Operators, view'[o].id # NoEvent
               PROVE  /\ row'[view'[o].id].dead /\ ~row'[view'[o].id].published
                      /\ ~row'[view'[o].id].deleted
                      /\ row'[view'[o].id].attempts = view'[o].attempts
    BY DEF ListedVersionIsCurrent
  <2>1. /\ view[o].id # NoEvent /\ view[o].id \in Events /\ view[o].id \notin S
        /\ view'[o].id = view[o].id /\ view'[o].attempts = view[o].attempts
    BY <1>5 DEF IndInv, ClaimsConsistent
  <2>2. row'[view[o].id] = row[view[o].id]
    BY <1>4, <2>1
  <2> QED BY <2>1, <2>2 DEF IndInv, ListedVersionIsCurrent
<1>15. WindowRoom'
  BY <1>1 DEF IndInv, WindowRoom, Copies
<1> QED BY <1>6, <1>7, <1>8, <1>9, <1>10, <1>11, <1>12, <1>13, <1>14, <1>15 DEF IndInv

\* The duplicate window closes on an event that has room for another copy.
LEMMA WindowKeeps ==
    ASSUME IndInv, NEW e \in Events, WindowCloses(e)
    PROVE  IndInv'
<1>1. /\ row' = row /\ worker' = worker /\ view' = view /\ stream' = stream
      /\ window' = window \ {e} /\ Cardinality(Copies(e)) < MaxCopies
  BY DEF WindowCloses
<1>2. TypeOK'
  BY <1>1 DEF IndInv, TypeOK
<1>3. RowsConsistent' /\ ClaimFencing' /\ PublishedStreamed' /\ ClaimsConsistent'
      /\ ListedVersionIsCurrent'
  BY <1>1 DEF IndInv, RowsConsistent, ClaimFencing, PublishedStreamed, ClaimsConsistent,
     ListedVersionIsCurrent, Live
<1>4. ClaimedBodies' /\ StreamedBodies' /\ ClaimsAgree' /\ StreamAgrees' /\ OneContentPerEvent'
  BY <1>1 DEF IndInv, ClaimedBodies, StreamedBodies, ClaimsAgree, StreamAgrees,
     OneContentPerEvent
<1>5. WindowRoom'
  BY <1>1 DEF IndInv, WindowRoom, Copies
<1> QED BY <1>2, <1>3, <1>4, <1>5 DEF IndInv

\* The empty table satisfies the invariant.
LEMMA InitHolds == Init => IndInv
<1> SUFFICES ASSUME Init PROVE IndInv
  OBVIOUS
<1>1. Absent \in Row /\ ~Absent.published /\ ~Absent.dead /\ ~Absent.deleted
      /\ ~Absent.leased /\ Absent.lockedBy = NoWorker
  BY BoundsAssumption DEF Absent, Row, Bodies
<1>2. Idle \in outboxRecord /\ Idle.pc = "idle"
  BY BoundsAssumption DEF Idle, outboxRecord, Bodies
<1>3. NoView \in DeadRecord /\ NoView.id = NoEvent
  BY BoundsAssumption DEF NoView, DeadRecord
<1>4. TypeOK
  BY <1>1, <1>2, <1>3 DEF Init, TypeOK
<1>5. RowsConsistent /\ PublishedStreamed
  BY <1>1 DEF Init, RowsConsistent, PublishedStreamed
<1>6. ClaimsConsistent
  BY <1>2, <1>3 DEF Init, ClaimsConsistent
<1>7. ClaimFencing /\ ClaimedBodies /\ ClaimsAgree /\ StreamAgrees
  BY <1>2 DEF Init, ClaimFencing, ClaimedBodies, ClaimsAgree, StreamAgrees
<1>8. StreamedBodies /\ OneContentPerEvent
  BY DEF Init, StreamedBodies, OneContentPerEvent
<1>9. ListedVersionIsCurrent
  BY <1>3 DEF Init, ListedVersionIsCurrent
<1>10. WindowRoom
  <2>1. \A e \in Events : Copies(e) = {}
    BY DEF Init, Copies
  <2> QED BY <2>1, FS_EmptySet, BoundsAssumption DEF Init, WindowRoom
<1> QED BY <1>4, <1>5, <1>6, <1>7, <1>8, <1>9, <1>10 DEF IndInv

\* Every step of the system keeps the invariant.
LEMMA NextKeeps == IndInv /\ [Next]_vars => IndInv'
<1> SUFFICES ASSUME IndInv, [Next]_vars PROVE IndInv'
  OBVIOUS
<1>1. ASSUME NEW w \in Workers, WorkerStep(w) PROVE IndInv'
  BY <1>1, ClaimKeeps, PublishKeeps, UpdateClaimKeeps, CrashKeeps DEF WorkerStep
<1>2. ASSUME NEW o \in Operators, OperatorStep(o) PROVE IndInv'
  BY <1>2, ListKeeps, RepairKeeps DEF OperatorStep
<1>3. ASSUME NEW e \in Events, EventStep(e) PROVE IndInv'
  BY <1>3, StoreKeeps, TimeKeeps, WindowKeeps DEF EventStep
<1>4. ASSUME NEW S \in SUBSET Events, cleanupOutbox(S) PROVE IndInv'
  BY <1>4, CleanupKeeps
<1>5. CASE UNCHANGED vars
  <2>1. row' = row /\ worker' = worker /\ view' = view /\ stream' = stream /\ window' = window
    BY <1>5 DEF vars
  <2>2. TypeOK' /\ RowsConsistent' /\ ClaimFencing' /\ PublishedStreamed'
    BY <2>1 DEF IndInv, TypeOK, RowsConsistent, ClaimFencing, PublishedStreamed, Live
  <2>3. ClaimsConsistent' /\ ListedVersionIsCurrent'
    BY <2>1 DEF IndInv, ClaimsConsistent, ListedVersionIsCurrent
  <2>4. ClaimedBodies' /\ StreamedBodies' /\ ClaimsAgree' /\ StreamAgrees'
        /\ OneContentPerEvent'
    BY <2>1 DEF IndInv, ClaimedBodies, StreamedBodies, ClaimsAgree, StreamAgrees,
       OneContentPerEvent
  <2>5. WindowRoom'
    BY <2>1 DEF IndInv, WindowRoom, Copies
  <2> QED BY <2>2, <2>3, <2>4, <2>5 DEF IndInv
<1> QED BY <1>1, <1>2, <1>3, <1>4, <1>5 DEF Next

\* The invariant holds of every reachable state, whatever the sets of events,
\* dispatchers and operators.
THEOREM Invariance == Spec => []IndInv
<1>1. Init => IndInv
  BY InitHolds
<1>2. IndInv /\ [Next]_vars => IndInv'
  BY NextKeeps
<1> QED BY <1>1, <1>2, PTL DEF Spec

-----------------------------------------------------------------------------
\* Rows, claims, listings and messages always have their types; in particular the
\* stream never stores more copies than the duplicate window admits.
THEOREM TypeCorrect == Spec => []TypeOK
<1>1. IndInv => TypeOK
  BY DEF IndInv
<1> QED BY <1>1, Invariance, PTL

\* A dispatcher whose name is on a row works on the row's current content (claim
\* and updateClaim of outbox.go), however stale its lease.
THEOREM FencingHolds == Spec => []ClaimFencing
<1>1. IndInv => ClaimFencing
  BY DEF IndInv
<1> QED BY <1>1, Invariance, PTL

\* published_at is never set on an event the broker has not stored.
THEOREM PublishedHolds == Spec => []PublishedWasAccepted
<1>1. IndInv => PublishedWasAccepted
  BY DEF IndInv, PublishedStreamed, PublishedWasAccepted, Copies
<1> QED BY <1>1, Invariance, PTL

\* The broker holds nothing of a dead row, so a repair cannot send it twice.
THEOREM DeadHolds == Spec => []DeadNeverAccepted
<1>1. IndInv => DeadNeverAccepted
  BY DEF IndInv, StreamedBodies, DeadNeverAccepted, Copies
<1> QED BY <1>1, Invariance, PTL

\* All copies of an event carry one envelope, repairs notwithstanding.
THEOREM ContentHolds == Spec => []OneContentPerEvent
<1>1. IndInv => OneContentPerEvent
  BY DEF IndInv
<1> QED BY <1>1, Invariance, PTL

\* The version an operator listed names the row as listed (repair.go replay).
THEOREM ListingHolds == Spec => []ListedVersionIsCurrent
<1>1. IndInv => ListedVersionIsCurrent
  BY DEF IndInv
<1> QED BY <1>1, Invariance, PTL

-----------------------------------------------------------------------------
(* What a step makes of a row and of the stream: the shapes that           *)
(* PublishedIsFinal and the refinement of EventContract need.              *)

\* Retention erases a row, once.
Retired(r, s) == s = r \/ (~r.deleted /\ s = [r EXCEPT !.deleted = TRUE, !.body = Undecodable])

\* The row stays as settled, dead or pending as it was.
Kept(r, s) == /\ (s.stored <=> r.stored) /\ (s.published <=> r.published) /\ (s.dead <=> r.dead)
              /\ r.published => Retired(r, s)

\* The row enters the table, is published, is dead-lettered or is repaired.
Entered(r, s) == ~r.stored /\ s.stored /\ ~s.published
Published(r, s) == r.stored /\ ~r.published /\ ~r.dead /\ s.stored /\ s.published /\ ~s.leased
DeadLettered(r, s) == r.stored /\ ~r.published /\ ~r.dead /\ s.stored /\ ~s.published /\ s.dead
Repaired(r, s) == r.stored /\ ~r.published /\ r.dead /\ s.stored /\ ~s.published /\ ~s.dead

\* Row e alone turns into something else.
Turns(e) ==
    /\ \A f \in Events : f # e => row'[f] = row[f]
    /\ \/ Entered(row[e], row'[e]) \/ Repaired(row[e], row'[e])
       \/ Published(row[e], row'[e]) /\ \E m \in stream : m.id = e
       \/ DeadLettered(row[e], row'[e]) /\ \A m \in stream : m.id # e

\* A message of event e enters the stream, or none.
Streams(e, b) ==
    /\ stream \subseteq stream'
    /\ \A m \in stream' : m \in stream \/ (m.id = e /\ m.body = b)

\* The lease of a published row was given back, so no lease of it can run out.
SettledUnleased == \A e \in Events : row[e].published => ~row[e].leased

FinalInv == IndInv /\ SettledUnleased

\* The shapes of a step.
Shape == \/ (\A f \in Events : Kept(row[f], row'[f])) /\ stream' = stream
         \/ (\E e \in Events : Turns(e)) /\ stream' = stream
         \/ row' = row /\ \E w \in Workers : /\ worker[w].pc # "idle" /\ worker[w].body # Undecodable
                                            /\ Streams(worker[w].id, worker[w].body)

\* A row in a reachable state.
LEMMA RowFacts ==
    ASSUME IndInv, NEW e \in Events
    PROVE  /\ row[e] \in Row
           /\ row[e].published \/ row[e].dead => row[e].stored /\ row[e].lockedBy = NoWorker
           /\ row[e].leased => row[e].stored
  BY DEF IndInv, TypeOK, RowsConsistent

\* One row is replaced.
LEMMA OneRow ==
    ASSUME IndInv, NEW e \in Events, NEW s, row' = [row EXCEPT ![e] = s]
    PROVE  row'[e] = s /\ \A f \in Events : f # e => row'[f] = row[f]
  BY DEF IndInv, TypeOK

\* A row that is not published and stays so has only to stay stored and as dead as it was.
LEMMA KeptOne ==
    ASSUME IndInv, NEW e \in Events, NEW s, row' = [row EXCEPT ![e] = s], ~row[e].published,
           s.stored <=> row[e].stored, ~s.published, s.dead <=> row[e].dead, stream' = stream
    PROVE  Shape
<1>1. row'[e] = s /\ \A f \in Events : f # e => row'[f] = row[f]
  BY OneRow
<1> QED
  BY <1>1 DEF Shape, Kept, Retired

\* Store and StoredByOlderRelease.
LEMMA StoreShape ==
    ASSUME IndInv, NEW e \in Events, Store(e) \/ StoredByOlderRelease(e)
    PROVE  Shape
<1> DEFINE d == [Inserted(Original) EXCEPT !.dead = TRUE, !.attempts = MaxDeliver]
<1>1. ~row[e].stored /\ stream' = stream
  BY DEF Store, StoredByOlderRelease
<1>2. \/ \E b \in Bodies : row' = [row EXCEPT ![e] = Inserted(b)]
      \/ row' = [row EXCEPT ![e] = d]
  BY DEF Store, StoredByOlderRelease, Bodies
<1>3. \A b \in Bodies : Inserted(b) \in Row /\ Inserted(b).stored /\ ~Inserted(b).published
  BY InsertedRow
<1>4. d.stored /\ ~d.published
  <2>1. Inserted(Original) \in Row /\ Inserted(Original).stored /\ ~Inserted(Original).published
    BY <1>3 DEF Bodies
  <2> QED
    BY <2>1 DEF Row
<1> HIDE DEF d
<1>5. Entered(row[e], row'[e]) /\ \A f \in Events : f # e => row'[f] = row[f]
  BY <1>1, <1>2, <1>3, <1>4, OneRow DEF Entered
<1> QED
  BY <1>1, <1>5 DEF Shape, Turns

\* A claim, and a backoff that ends, concern a live row.
LEMMA ClaimShape ==
    ASSUME IndInv, NEW w \in Workers, NEW skip \in SUBSET Claimable, claim(w, skip)
    PROVE  Shape
<1>1. PICK e \in Claimable : row' = [row EXCEPT ![e] = [row[e] EXCEPT !.lockedBy = w, !.leased = TRUE]]
  BY DEF claim, UpdateRow
<1> DEFINE s == [row[e] EXCEPT !.lockedBy = w, !.leased = TRUE]
<1>2. e \in Events /\ row[e] \in Row /\ Live(row[e])
  BY <1>1, RowFacts DEF Claimable
<1>3. s.stored /\ ~s.published /\ ~s.dead
  BY <1>2 DEF Row, Live
<1> HIDE DEF s
<1>4. row' = [row EXCEPT ![e] = s] /\ stream' = stream
  BY <1>1 DEF s, claim
<1> QED
  BY <1>2, <1>3, <1>4, KeptOne DEF Live

\* Leases and backoffs run out.
LEMMA TimeShape ==
    ASSUME IndInv, SettledUnleased, NEW e \in Events, LeaseExpires(e) \/ RetryDue(e)
    PROVE  Shape
<1>1. ~row[e].published /\ stream' = stream /\ row[e] \in Row
  BY RowFacts DEF SettledUnleased, LeaseExpires, RetryDue, Live
<1>2. PICK s \in Row : /\ row' = [row EXCEPT ![e] = s]
                       /\ s.stored = row[e].stored /\ s.published = row[e].published
                       /\ s.dead = row[e].dead
  <2>1. CASE LeaseExpires(e)
    BY <1>1, <2>1, DueRow DEF LeaseExpires
  <2>2. CASE RetryDue(e)
    BY <1>1, <2>2, DueRow DEF RetryDue
  <2> QED
    BY <2>1, <2>2
<1> QED
  BY <1>1, <1>2, KeptOne

\* Giving up a record, and dying with it: a published row names no dispatcher.
LEMMA CrashShape ==
    ASSUME IndInv, NEW w \in Workers, Abandon(w) \/ Crash(w)
    PROVE  Shape
<1>1. ASSUME NEW e \in Events PROVE Kept(row[e], row'[e])
  <2>1. \/ row'[e] = row[e]
        \/ row[e].lockedBy = w /\ row'[e] = [row[e] EXCEPT !.lockedBy = Gone]
    BY DEF IndInv, TypeOK, Abandon, Crash
  <2>2. row[e] \in Row /\ (row[e].published => row[e].lockedBy = NoWorker)
    BY RowFacts
  <2>3. CASE row[e].lockedBy = w /\ row'[e] = [row[e] EXCEPT !.lockedBy = Gone]
    <3>1. ~row[e].published
      BY <2>2, <2>3, WorkersAssumption
    <3>2. /\ row'[e].stored <=> row[e].stored
          /\ row'[e].published <=> row[e].published
          /\ row'[e].dead <=> row[e].dead
      BY <2>2, <2>3 DEF Row
    <3> QED
      BY <3>1, <3>2 DEF Kept
  <2> QED
    BY <2>1, <2>3 DEF Kept, Retired
<1> QED
  BY <1>1 DEF Shape, Abandon, Crash

\* Retention erases settled rows that it has not erased before.
LEMMA CleanupShape ==
    ASSUME IndInv, NEW S \in SUBSET Events, cleanupOutbox(S)
    PROVE  Shape
<1>1. ASSUME NEW e \in Events PROVE Kept(row[e], row'[e])
  <2>1. row[e] \in Row
    BY RowFacts
  <2>2. CASE e \in S
    <3>1. row'[e] = [row[e] EXCEPT !.deleted = TRUE, !.body = Undecodable] /\ ~row[e].deleted
      BY <2>2 DEF cleanupOutbox
    <3>2. /\ row'[e].stored <=> row[e].stored
          /\ row'[e].published <=> row[e].published
          /\ row'[e].dead <=> row[e].dead
      BY <2>1, <3>1 DEF Row
    <3> QED
      BY <3>1, <3>2 DEF Kept, Retired
  <2>3. CASE e \notin S
    BY <2>3 DEF cleanupOutbox, Kept, Retired
  <2> QED
    BY <2>2, <2>3
<1> QED
  BY <1>1 DEF Shape, cleanupOutbox

\* markPublished and release: the row is published by a dispatcher whose message the stream has,
\* or dead-lettered while the stream has none of its bytes; a lost claim changes nothing.
LEMMA UpdateClaimShape ==
    ASSUME IndInv, NEW w \in Workers,
           markPublished(w) \/ releaseUnpublished(w) \/ releaseUndecodable(w)
    PROVE  Shape
<1> DEFINE e == worker[w].id
           u == Unlocked(row[e])
<1>1. e \in Events /\ row[e] \in Row /\ worker[w].pc # "idle"
  BY DEF IndInv, TypeOK, ClaimsConsistent, markPublished, releaseUnpublished, releaseUndecodable
<1>2. stream' = stream
  BY DEF markPublished, releaseUnpublished, releaseUndecodable, updateClaim
<1>3. CASE ~OwnsClaim(w, row[e])
  <2>1. row' = row
    BY <1>3 DEF markPublished, releaseUnpublished, releaseUndecodable, updateClaim
  <2> QED
    BY <1>2, <2>1 DEF Shape, Kept, Retired
<1>4. CASE OwnsClaim(w, row[e])
  <2>1. Live(row[e]) /\ row[e].attempts = worker[w].attempts /\ row[e].body = worker[w].body
    BY <1>1, <1>4 DEF OwnsClaim, IndInv, ClaimFencing
  <2>2. u \in Row /\ u.stored /\ ~u.published /\ ~u.dead
    BY <1>1, <2>1, UnlockedRow DEF Live
  <2>3. ~u.leased
    BY <1>1 DEF Unlocked, Row
  <2>4. CASE markPublished(w)
    <3> DEFINE s == [u EXCEPT !.published = TRUE]
    <3>1. row' = [row EXCEPT ![e] = s]
      BY <1>4, <2>4 DEF markPublished, updateClaim, UpdateRow
    <3>2. \E m \in stream : m.id = e
      BY <1>1, <2>4 DEF markPublished, IndInv, ClaimsConsistent
    <3>3. s.stored /\ s.published /\ ~s.leased
      <4> HIDE DEF u
      <4> QED BY <2>2, <2>3 DEF Row
    <3> HIDE DEF s, u
    <3>4. row'[e] = s /\ \A f \in Events : f # e => row'[f] = row[f]
      BY <1>1, <3>1, OneRow
    <3>5. Published(row[e], row'[e])
      BY <2>1, <3>3, <3>4 DEF Published, Live
    <3> QED
      BY <1>1, <1>2, <3>2, <3>4, <3>5 DEF Shape, Turns
  <2>5. CASE row' = [row EXCEPT ![e] = Released(row[e])]
    <3>1. Released(row[e]).stored /\ ~Released(row[e]).published /\ ~Released(row[e]).dead
      BY <1>1, <2>1, ReleasedRow DEF Live
    <3> QED
      BY <1>1, <1>2, <2>1, <2>5, <3>1, KeptOne DEF Live
  <2>6. CASE /\ releaseUndecodable(w)
             /\ row' = [row EXCEPT ![e] = [u EXCEPT !.attempts = Increment(u.attempts),
                                                    !.dead = TRUE]]
    <3> DEFINE s == [u EXCEPT !.attempts = Increment(u.attempts), !.dead = TRUE]
    <3>1. s.stored /\ ~s.published /\ s.dead
      <4> HIDE DEF u
      <4> QED BY <2>2 DEF Row
    <3> HIDE DEF s, u
    <3>2. row' = [row EXCEPT ![e] = s]
      BY <2>6 DEF s
    <3>3. row[e].body = Undecodable /\ ~row[e].deleted
      BY <2>1, <2>6 DEF releaseUndecodable, Live
    <3>4. \A m \in stream : m.id # e
      BY <3>3 DEF IndInv, StreamedBodies
    <3>5. row'[e] = s /\ \A f \in Events : f # e => row'[f] = row[f]
      BY <1>1, <3>2, OneRow
    <3>6. DeadLettered(row[e], row'[e])
      BY <2>1, <3>1, <3>5 DEF DeadLettered, Live
    <3> QED
      BY <1>1, <1>2, <3>4, <3>5, <3>6 DEF Shape, Turns
  <2>7. CASE releaseUndecodable(w)
    <3>1. \/ row' = [row EXCEPT ![e] = Released(row[e])]
          \/ row' = [row EXCEPT ![e] = [u EXCEPT !.attempts = Increment(u.attempts),
                                                 !.dead = TRUE]]
      BY <1>4, <2>7 DEF releaseUndecodable, updateClaim, UpdateRow
    <3> QED
      BY <2>5, <2>6, <2>7, <3>1
  <2>8. CASE releaseUnpublished(w)
    <3>1. row' = [row EXCEPT ![e] = Released(row[e])]
      BY <1>4, <2>8 DEF releaseUnpublished, updateClaim, UpdateRow
    <3> QED
      BY <2>5, <3>1
  <2> QED
    BY <2>4, <2>7, <2>8
<1> QED
  BY <1>3, <1>4

\* A publish, acknowledged or not.
LEMMA PublishShape ==
    ASSUME IndInv, NEW w \in Workers, PublishAcked(w) \/ PublishFailed(w)
    PROVE  Shape
<1> DEFINE e == worker[w].id
           b == worker[w].body
<1>1. e \in Events /\ b \in Bodies /\ b # Undecodable /\ worker[w].pc # "idle" /\ row' = row
  BY DEF IndInv, TypeOK, ClaimsConsistent, outboxRecord, PublishAcked, PublishFailed
<1>2. Accept(e, b) \/ stream' = stream
  BY DEF PublishAcked, PublishFailed
<1>3. CASE Accept(e, b)
  <2>1. Streams(e, b)
    BY <1>1, <1>3, AcceptKeepsRoom DEF IndInv, Streams
  <2> QED
    BY <1>1, <2>1 DEF Shape
<1>4. CASE stream' = stream
  BY <1>1, <1>4 DEF Shape, Kept, Retired
<1> QED
  BY <1>2, <1>3, <1>4

\* A repair turns a dead row into a pending one.
LEMMA RepairShape ==
    ASSUME IndInv, NEW o \in Operators, Replay(o) \/ ReplaceAndReplay(o)
    PROVE  Shape
<1> DEFINE e == view[o].id
<1>1. e \in Events /\ row[e] \in Row /\ row[e].dead /\ ~row[e].published /\ row[e].stored
  <2>1. e \in Events /\ row[e].dead /\ ~row[e].published
    BY DEF IndInv, ClaimsConsistent, Replay, ReplaceAndReplay, Replayable
  <2> QED
    BY <2>1, RowFacts
<1>2. PICK b \in Bodies : row' = [row EXCEPT ![e] = Revived(row[e], b)]
  BY <1>1 DEF Replay, ReplaceAndReplay, UpdateRow, Bodies, Row
<1>3. Revived(row[e], b).stored /\ ~Revived(row[e], b).published /\ ~Revived(row[e], b).dead
  BY <1>1, RevivedRow
<1>4. row'[e] = Revived(row[e], b) /\ \A f \in Events : f # e => row'[f] = row[f]
  BY <1>1, <1>2, OneRow
<1>5. Repaired(row[e], row'[e])
  BY <1>1, <1>3, <1>4 DEF Repaired
<1> QED
  BY <1>1, <1>4, <1>5 DEF Shape, Turns, Replay, ReplaceAndReplay

\* Every step has one of the shapes.
LEMMA StepShape ==
    ASSUME IndInv, SettledUnleased, Next
    PROVE  Shape
<1>1. ASSUME NEW w \in Workers, WorkerStep(w) PROVE Shape
  BY <1>1, ClaimShape, PublishShape, UpdateClaimShape, CrashShape DEF WorkerStep
<1>2. ASSUME row' = row, stream' = stream PROVE Shape
  BY <1>2 DEF Shape, Kept, Retired
<1>3. ASSUME NEW o \in Operators, OperatorStep(o) PROVE Shape
  BY <1>2, <1>3, RepairShape DEF OperatorStep, Dead
<1>4. ASSUME NEW e \in Events, EventStep(e) PROVE Shape
  BY <1>2, <1>4, StoreShape, TimeShape DEF EventStep, WindowCloses
<1> QED
  BY <1>1, <1>3, <1>4, CleanupShape DEF Next

\* A published row changes in no other way than by retention, and nobody leases it again.
LEMMA ShapeIsFinal ==
    ASSUME IndInv, SettledUnleased, Shape, NEW e \in Events
    PROVE  /\ row[e].published => Retired(row[e], row'[e])
           /\ row'[e].published => ~row'[e].leased
<1>1. row[e] \in Row /\ (row[e].published => row[e].stored /\ ~row[e].leased)
  BY RowFacts DEF SettledUnleased
<1>2. ASSUME row'[e] = row[e] PROVE Retired(row[e], row'[e]) /\ (row'[e].published => ~row'[e].leased)
  BY <1>1, <1>2 DEF Retired
<1>3. CASE \A f \in Events : Kept(row[f], row'[f])
  <2>1. Kept(row[e], row'[e])
    BY <1>3
  <2>2. CASE row[e].published
    <3>1. CASE row'[e] = [row[e] EXCEPT !.deleted = TRUE, !.body = Undecodable]
      <4>1. ~row'[e].leased
        BY <1>1, <2>2, <3>1 DEF Row
      <4> QED
        BY <2>1, <2>2, <4>1 DEF Kept
    <3> QED
      BY <1>2, <2>1, <2>2, <3>1 DEF Kept, Retired
  <2>3. CASE ~row[e].published
    BY <2>1, <2>3 DEF Kept
  <2> QED
    BY <2>2, <2>3
<1>4. ASSUME NEW f \in Events, Turns(f)
      PROVE  /\ row[e].published => Retired(row[e], row'[e])
             /\ row'[e].published => ~row'[e].leased
  <2>1. CASE e = f
    BY <1>1, <1>4, <2>1 DEF Turns, Entered, Repaired, Published, DeadLettered
  <2>2. CASE e # f
    BY <1>2, <1>4, <2>2 DEF Turns
  <2> QED
    BY <2>1, <2>2
<1> QED
  BY <1>2, <1>3, <1>4 DEF Shape

\* The invariant, with the leases of published rows.
LEMMA FinalInvariance == Spec => []FinalInv
<1>1. Init => FinalInv
  <2>1. ~Absent.published
    BY DEF Absent
  <2> QED
    BY <2>1, InitHolds DEF Init, FinalInv, SettledUnleased
<1>2. FinalInv /\ [Next]_vars => FinalInv'
  <2> SUFFICES ASSUME FinalInv, [Next]_vars PROVE FinalInv'
    OBVIOUS
  <2>1. IndInv'
    BY NextKeeps DEF FinalInv
  <2>2. CASE Next
    <3>1. \A e \in Events : row'[e].published => ~row'[e].leased
      BY <2>2, StepShape, ShapeIsFinal DEF FinalInv
    <3> QED
      BY <2>1, <3>1 DEF FinalInv, SettledUnleased
  <2>3. CASE UNCHANGED vars
    BY <2>1, <2>3 DEF FinalInv, SettledUnleased, vars
  <2> QED
    BY <2>2, <2>3
<1> QED BY <1>1, <1>2, PTL DEF Spec

\* A published row is settled: no dispatcher, operator or lease touches it again, only retention
\* erases it, once (OwnsClaim, Live, cleanupOutbox).
THEOREM PublishedStays == Spec => PublishedIsFinal
<1>1. FinalInv /\ [Next]_vars =>
        [\A e \in Events : row[e].published =>
           \/ row'[e] = row[e]
           \/ ~row[e].deleted /\ row'[e] = [row[e] EXCEPT !.deleted = TRUE,
                                                        !.body = Undecodable]]_vars
  BY StepShape, ShapeIsFinal DEF FinalInv, Retired
<1> QED BY <1>1, FinalInvariance, PTL DEF Spec, PublishedIsFinal

-----------------------------------------------------------------------------
(* The outbox implements its contract.                                     *)

\* The abstract state.
StatusMap == [e \in Events |-> StatusOf(row[e])]
DeliveredMap == [e \in Events |-> {m.body : m \in Copies(e)}]

\* A step that keeps every row and the stream is a stutter of the contract.
LEMMA KeptMaps ==
    ASSUME \A f \in Events : Kept(row[f], row'[f])
    PROVE  StatusMap' = StatusMap
<1>1. \A f \in Events : StatusOf(row'[f]) = StatusOf(row[f])
  BY DEF Kept, StatusOf
<1> QED
  BY <1>1 DEF StatusMap

\* A row that turns moves its event, and no other, as the contract says.
LEMMA TurnMaps ==
    ASSUME NEW e \in Events, Turns(e)
    PROVE  /\ StatusMap' = [StatusMap EXCEPT ![e] = StatusOf(row'[e])]
           /\ StatusMap[e] = StatusOf(row[e])
<1>1. \A f \in Events : f # e => StatusOf(row'[f]) = StatusOf(row[f])
  BY DEF Turns
<1> QED
  BY <1>1 DEF StatusMap

\* The bodies of the copies of an event are delivered.
LEMMA DeliveredIs ==
    ASSUME NEW e \in Events
    PROVE  /\ DeliveredMap[e] = {m.body : m \in Copies(e)}
           /\ (DeliveredMap[e] = {}) <=> \A m \in stream : m.id # e
           /\ \A c : c \in DeliveredMap[e] <=> \E m \in stream : m.id = e /\ m.body = c
  BY DEF DeliveredMap, Copies

\* What a publish adds to the stream is the event's first copy, of a pending row, or has the
\* content of the copies before it.
LEMMA StreamMaps ==
    ASSUME IndInv, NEW w \in Workers, worker[w].pc # "idle", worker[w].body # Undecodable,
           NEW e, e = worker[w].id, NEW b, b = worker[w].body, Streams(e, b), row' = row
    PROVE  /\ e \in Events /\ StatusMap' = StatusMap
           /\ \/ DeliveredMap' = DeliveredMap
              \/ /\ StatusMap[e] = "pending" /\ DeliveredMap[e] = {} /\ b \in {Original, Replacement}
                 /\ DeliveredMap' = [DeliveredMap EXCEPT ![e] = {b}]
<1>1. e \in Events /\ b \in {Original, Replacement}
  BY DEF IndInv, TypeOK, ClaimsConsistent, outboxRecord, Bodies
<1>2. row[e].stored /\ ~row[e].dead /\ (row[e].published => \E m \in stream : m.id = e)
  BY <1>1 DEF IndInv, ClaimsConsistent, ClaimedBodies, PublishedStreamed
<1>3. \A m \in stream : m.id = e => m.body = b
  BY DEF IndInv, StreamAgrees
<1>4. stream \subseteq stream' /\ \A m \in stream' : m \in stream \/ (m.id = e /\ m.body = b)
  BY DEF Streams
<1>5. StatusMap' = StatusMap
  BY DEF StatusMap
<1>6. \A f \in Events : f # e => {m.body : m \in Copies(f)'} = {m.body : m \in Copies(f)}
  BY <1>4 DEF Copies
<1>a. /\ DeliveredMap = [f \in Events |-> DeliveredMap[f]]
      /\ DeliveredMap' = [f \in Events |-> DeliveredMap'[f]]
      /\ \A f \in Events : f # e => DeliveredMap'[f] = DeliveredMap[f]
      /\ DeliveredMap[e] = {m.body : m \in Copies(e)} /\ DeliveredMap'[e] = {m.body : m \in Copies(e)'}
  BY <1>1, <1>6 DEF DeliveredMap
<1>7. CASE \E m \in stream : m.id = e
  <2>1. {m.body : m \in Copies(e)'} = {m.body : m \in Copies(e)}
    BY <1>3, <1>4, <1>7 DEF Copies
  <2>2. DeliveredMap' = DeliveredMap
    BY <1>a, <2>1
  <2> QED
    BY <1>1, <1>5, <2>2
<1>8. CASE \A m \in stream : m.id # e
  <2>1. {m.body : m \in Copies(e)'} = {} \/ {m.body : m \in Copies(e)'} = {b}
    BY <1>4, <1>8 DEF Copies
  <2>2. {m.body : m \in Copies(e)} = {} /\ DeliveredMap[e] = {}
    BY <1>1, <1>8, DeliveredIs DEF Copies
  <2>3. StatusMap[e] = "pending"
    BY <1>1, <1>2, <1>8 DEF StatusMap, StatusOf
  <2>4. DeliveredMap' = DeliveredMap \/ DeliveredMap' = [DeliveredMap EXCEPT ![e] = {b}]
    <3>1. CASE DeliveredMap'[e] = {}
      <4>1. \A f \in Events : DeliveredMap'[f] = DeliveredMap[f]
        BY <1>a, <2>2, <3>1
      <4>2. DeliveredMap' = DeliveredMap
        BY <1>a, <4>1
      <4> QED
        BY <4>2
    <3>2. CASE DeliveredMap'[e] = {b}
      BY <1>1, <1>a, <3>2
    <3> QED
      BY <1>a, <2>1, <3>1, <3>2
  <2> QED
    BY <1>1, <1>5, <2>2, <2>3, <2>4
<1> QED
  BY <1>7, <1>8

\* The moves of the contract but Deliver, in terms of the abstract state.
LEMMA ContractMoves ==
    ASSUME NEW e \in Events
    PROVE  /\ /\ DeliveredMap' = DeliveredMap /\ StatusMap[e] = "absent"
              /\ \/ StatusMap' = [StatusMap EXCEPT ![e] = "pending"]
                 \/ StatusMap' = [StatusMap EXCEPT ![e] = "parked"]
              => Contract!Submit(e)
           /\ /\ DeliveredMap' = DeliveredMap /\ DeliveredMap[e] # {}
              /\ StatusMap[e] = "pending" /\ StatusMap' = [StatusMap EXCEPT ![e] = "settled"]
              => Contract!Settle(e)
           /\ /\ DeliveredMap' = DeliveredMap /\ DeliveredMap[e] = {}
              /\ StatusMap[e] = "pending" /\ StatusMap' = [StatusMap EXCEPT ![e] = "parked"]
              => Contract!Park(e)
           /\ /\ DeliveredMap' = DeliveredMap
              /\ StatusMap[e] = "parked" /\ StatusMap' = [StatusMap EXCEPT ![e] = "pending"]
              => Contract!Repair(e)
  BY DEF StatusMap, DeliveredMap, Contract!Submit, Contract!Settle, Contract!Park,
     Contract!Repair, Contract!Move

\* Every step is a step of the contract or a stutter.
LEMMA ContractSteps ==
    ASSUME FinalInv, [Next]_vars
    PROVE  [Contract!ContractNext]_(Contract!contractVars)
<1> DEFINE Stutters == StatusMap' = StatusMap /\ DeliveredMap' = DeliveredMap
<1>1. ASSUME Stutters PROVE UNCHANGED Contract!contractVars
  BY <1>1 DEF Contract!contractVars, StatusMap, DeliveredMap
<1>2. ASSUME stream' = stream PROVE DeliveredMap' = DeliveredMap
  BY <1>2 DEF DeliveredMap, Copies
<1>3. CASE UNCHANGED vars
  BY <1>1, <1>2, <1>3 DEF vars, StatusMap
<1>4. CASE Next
  <2>1. Shape
    BY <1>4, StepShape DEF FinalInv
  <2>2. CASE (\A f \in Events : Kept(row[f], row'[f])) /\ stream' = stream
    BY <1>1, <1>2, <2>2, KeptMaps
  <2>3. ASSUME NEW e \in Events, Turns(e), stream' = stream PROVE Contract!ContractNext
    <3>1. /\ StatusMap' = [StatusMap EXCEPT ![e] = StatusOf(row'[e])] /\ StatusMap[e] = StatusOf(row[e])
          /\ DeliveredMap' = DeliveredMap
      BY <1>2, <2>3, TurnMaps
    <3>2. CASE Entered(row[e], row'[e])
      <4>1. StatusOf(row[e]) = "absent" /\ StatusOf(row'[e]) \in {"pending", "parked"}
        BY <3>2 DEF Entered, StatusOf
      <4>2. Contract!Submit(e)
        BY <3>1, <4>1, ContractMoves
      <4> QED
        BY <4>2 DEF Contract!ContractNext
    <3>3. CASE Repaired(row[e], row'[e])
      <4>1. StatusOf(row[e]) = "parked" /\ StatusOf(row'[e]) = "pending"
        BY <3>3 DEF Repaired, StatusOf
      <4>2. Contract!Repair(e)
        BY <3>1, <4>1, ContractMoves
      <4> QED
        BY <4>2 DEF Contract!ContractNext
    <3>4. CASE Published(row[e], row'[e]) /\ \E m \in stream : m.id = e
      <4>1. StatusOf(row[e]) = "pending" /\ StatusOf(row'[e]) = "settled"
        BY <3>4 DEF Published, StatusOf
      <4>2. DeliveredMap[e] # {}
        BY <3>4, DeliveredIs
      <4>3. Contract!Settle(e)
        BY <3>1, <4>1, <4>2, ContractMoves
      <4> QED
        BY <4>3 DEF Contract!ContractNext
    <3>5. CASE DeadLettered(row[e], row'[e]) /\ \A m \in stream : m.id # e
      <4>1. StatusOf(row[e]) = "pending" /\ StatusOf(row'[e]) = "parked"
        BY <3>5 DEF DeadLettered, StatusOf
      <4>2. DeliveredMap[e] = {}
        BY <3>5, DeliveredIs
      <4>3. Contract!Park(e)
        BY <3>1, <4>1, <4>2, ContractMoves
      <4> QED
        BY <4>3 DEF Contract!ContractNext
    <3> QED
      BY <2>3, <3>2, <3>3, <3>4, <3>5 DEF Turns
  <2>4. ASSUME NEW w \in Workers, worker[w].pc # "idle", worker[w].body # Undecodable,
               Streams(worker[w].id, worker[w].body), row' = row
        PROVE  [Contract!ContractNext]_(Contract!contractVars)
    <3>1. PICK e, b : e = worker[w].id /\ b = worker[w].body
      OBVIOUS
    <3>2. /\ e \in Events /\ StatusMap' = StatusMap
          /\ \/ DeliveredMap' = DeliveredMap
             \/ /\ StatusMap[e] = "pending" /\ DeliveredMap[e] = {} /\ b \in {Original, Replacement}
                /\ DeliveredMap' = [DeliveredMap EXCEPT ![e] = {b}]
      BY <2>4, <3>1, StreamMaps DEF FinalInv
    <3>3. CASE DeliveredMap' # DeliveredMap
      <4>1. /\ e \in Events /\ StatusMap' = StatusMap /\ StatusMap[e] = "pending" /\ DeliveredMap[e] = {}
            /\ b \in {Original, Replacement} /\ DeliveredMap' = [DeliveredMap EXCEPT ![e] = {b}]
        BY <3>2, <3>3
      <4>2. Contract!Deliver(e)
        BY <4>1 DEF StatusMap, DeliveredMap, Contract!Deliver
      <4> QED
        BY <4>1, <4>2 DEF Contract!ContractNext
    <3>4. CASE DeliveredMap' = DeliveredMap
      BY <1>1, <3>2, <3>4
    <3> QED
      BY <3>3, <3>4
  <2> QED
    BY <2>1, <2>2, <2>3, <2>4 DEF Shape
<1> QED
  BY <1>3, <1>4

\* The outbox implements EventContract: leases, takeovers, duplicate publishes, repairs and
\* retention are invisible to whoever relies on it.
THEOREM Refines == Spec => ImplementsContract
<1>1. Init => Contract!ContractInit
  <2> SUFFICES ASSUME Init PROVE Contract!ContractInit
    OBVIOUS
  <2>1. ~Absent.stored
    BY DEF Absent
  <2>2. \A e \in Events : StatusOf(row[e]) = "absent"
    BY <2>1 DEF Init, StatusOf
  <2>3. \A e \in Events : {m.body : m \in Copies(e)} = {}
    BY DEF Init, Copies
  <2> QED
    BY <2>2, <2>3 DEF Contract!ContractInit
<1>2. FinalInv /\ [Next]_vars => [Contract!ContractNext]_(Contract!contractVars)
  BY ContractSteps
<1> QED
  BY <1>1, <1>2, FinalInvariance, PTL DEF Spec, ImplementsContract, Contract!ContractSpec
=============================================================================
