-------------------------- MODULE BackgroundProofs --------------------------
(***************************************************************************)
(* What runs behind the requests: the audit log, the synchronisation of    *)
(* policies and the process.                                               *)
(*                                                                         *)
(* AuditIsKept, for any number of operations, consumers, copies and        *)
(* deliveries, follows from the contract of the outbox (EventContract),    *)
(* which EventOutboxProofs shows that the outbox keeps. That the log holds *)
(* an event once is not inductive: it needs that every logged content was  *)
(* delivered and that the contract delivers one. Nor is that a success is  *)
(* audited: what Do has done must still be recorded.                       *)
(*                                                                         *)
(* SnapshotIsSound and SnapshotNeverRegresses hold for any number of       *)
(* replicas, request threads and changes. Neither is inductive: what a     *)
(* refresh installs was read earlier, and a change that is about to be     *)
(* answered must not be undone by a refresh that read before it. The       *)
(* invariant bounds from below what a refresh in progress has read, by     *)
(* everything the replica serves or has promised; only the mutex makes     *)
(* that so.                                                                *)
(*                                                                         *)
(* ClosedAfterUse, for any order of hooks: the invariant says where start  *)
(* and stop have come in their order, and what of a hook may run at each   *)
(* place of it.                                                            *)
(***************************************************************************)
EXTENDS Background, Sequences, TLAPS

-----------------------------------------------------------------------------
(* The audit log.                                                          *)

\* An operation: t, it records with RecordTx; d, its domain write is committed; r, its request;
\* s, its event.
OperationOK(t, d, r, s) ==
    /\ r = "ok" => d /\ s # "absent"
    /\ t => (d <=> s # "absent")
    /\ r \in {"succeeded", "failed"} => ~t
    /\ r = "succeeded" => d

\* The rows l of an event of which the contents c were delivered.
RowsOK(c, l) ==
    /\ \A b \in Contents : l[b] \in {0, 1} /\ (l[b] # 0 => b \in c)
    /\ \A b, d \in c : b = d

Operation(e) == OperationOK(e \in txOps, e \in domain, request[e], status[e])

Logged(e) == RowsOK(delivered[e], logs[e])

AuditInv == AuditTypeOK /\ \A e \in Events : Operation(e) /\ Logged(e)

-----------------------------------------------------------------------------

\* A request goes on: only its own operation changes, and the stream and the log do not.
LEMMA OperationStep ==
    ASSUME AuditInv, NEW e \in Events, txOps' = txOps, UNCHANGED <<delivered, streamVars>>,
           NEW s, s \in {"absent", "pending", "parked", "settled"}, status' = [status EXCEPT ![e] = s],
           NEW r, r \in {"new", "succeeded", "failed", "ok", "error", "gone"},
           request' = [request EXCEPT ![e] = r],
           domain' = domain \/ domain' = domain \cup {e},
           OperationOK(e \in txOps, e \in domain', r, s)
    PROVE  AuditInv'
<1>1. /\ status' \in [Events -> {"absent", "pending", "parked", "settled"}] /\ status'[e] = s
      /\ request' \in [Events -> {"new", "succeeded", "failed", "ok", "error", "gone"}] /\ request'[e] = r
      /\ \A f \in Events : f # e => /\ status'[f] = status[f] /\ request'[f] = request[f]
                                    /\ (f \in domain' <=> f \in domain)
  BY DEF AuditInv, AuditTypeOK
<1>2. AuditTypeOK'
  BY <1>1 DEF AuditInv, AuditTypeOK, streamVars
<1>3. \A f \in Events : OperationOK(f \in txOps', f \in domain', request'[f], status'[f])
  BY <1>1 DEF AuditInv, Operation, OperationOK
<1>4. \A f \in Events : RowsOK(delivered'[f], logs'[f])
  BY DEF AuditInv, Logged, streamVars
<1> QED
  BY <1>2, <1>3, <1>4 DEF AuditInv, Operation, Logged

\* A request mutates, records, or dies in between.
LEMMA RequestKeeps ==
    ASSUME AuditInv, NEW e \in Events, RequestStep(e), txOps' = txOps
    PROVE  AuditInv'
<1>1. /\ status \in [Events -> {"absent", "pending", "parked", "settled"}]
      /\ status[e] \in {"absent", "pending", "parked", "settled"}
      /\ OperationOK(e \in txOps, e \in domain, request[e], status[e])
  BY DEF AuditInv, AuditTypeOK, Operation
<1>2. UNCHANGED <<delivered, streamVars>> /\ domain' \in {domain, domain \cup {e}}
  BY DEF RequestStep, RecordTx, Do, Record, Die
<1>3. PICK r \in {"new", "succeeded", "failed", "ok", "error", "gone"} : request' = [request EXCEPT ![e] = r]
  BY DEF RequestStep, RecordTx, Do, Record, Die, Answer
<1>4. ASSUME UNCHANGED status PROVE status' = [status EXCEPT ![e] = status[e]]
  BY <1>1, <1>4
<1>5. request'[e] = r
  BY <1>3 DEF AuditInv, AuditTypeOK
<1>6. ASSUME NEW ok \in BOOLEAN, RecordTx(e, ok) PROVE AuditInv'
  <2>1. CASE ok
    <3>1. status' = [status EXCEPT ![e] = "pending"] /\ e \in domain' /\ e \in txOps /\ r = "ok"
      BY <1>5, <1>6, <2>1 DEF RecordTx, Move, Answer, AuditInv, AuditTypeOK
    <3>2. OperationOK(e \in txOps, e \in domain', r, "pending")
      BY <3>1 DEF OperationOK
    <3> QED
      BY <1>2, <1>3, <3>1, <3>2, OperationStep
  <2>2. CASE ~ok
    <3>1. status' = [status EXCEPT ![e] = status[e]] /\ domain' = domain /\ r = "error"
      BY <1>4, <1>5, <1>6, <2>2 DEF RecordTx, Answer, AuditInv, AuditTypeOK
    <3>2. OperationOK(e \in txOps, e \in domain', r, status[e])
      BY <1>1, <3>1 DEF OperationOK
    <3> QED
      BY <1>1, <1>2, <1>3, <3>1, <3>2, OperationStep
  <2> QED
    BY <2>1, <2>2
<1>7. ASSUME NEW ok \in BOOLEAN, Do(e, ok) PROVE AuditInv'
  <2>1. /\ status' = [status EXCEPT ![e] = status[e]] /\ e \notin txOps
        /\ r \in {"succeeded", "failed"} /\ (r = "succeeded" => e \in domain')
    BY <1>4, <1>5, <1>7 DEF Do, Answer, AuditInv, AuditTypeOK
  <2>2. OperationOK(e \in txOps, e \in domain', r, status[e])
    BY <2>1 DEF OperationOK
  <2> QED
    BY <1>1, <1>2, <1>3, <2>1, <2>2, OperationStep
<1>8. ASSUME NEW ok \in BOOLEAN, Record(e, ok) PROVE AuditInv'
  <2>1. /\ e \notin txOps /\ domain' = domain /\ request[e] \in {"succeeded", "failed"}
        /\ r \in {"ok", "error"} /\ (r = "ok" => ok /\ request[e] = "succeeded")
    BY <1>1, <1>5, <1>8 DEF Record, Answer, OperationOK, AuditInv, AuditTypeOK
  <2>2. CASE ok
    <3>1. status' = [status EXCEPT ![e] = "pending"]
      BY <1>8, <2>2 DEF Record, Move
    <3>2. OperationOK(e \in txOps, e \in domain', r, "pending")
      BY <1>1, <2>1 DEF OperationOK
    <3> QED
      BY <1>2, <1>3, <3>1, <3>2, OperationStep
  <2>3. CASE ~ok
    <3>1. status' = [status EXCEPT ![e] = status[e]]
      BY <1>4, <1>8, <2>3 DEF Record
    <3>2. OperationOK(e \in txOps, e \in domain', r, status[e])
      BY <2>1, <2>3 DEF OperationOK
    <3> QED
      BY <1>1, <1>2, <1>3, <3>1, <3>2, OperationStep
  <2> QED
    BY <2>2, <2>3
<1>9. CASE Die(e)
  <2>1. status' = [status EXCEPT ![e] = status[e]] /\ domain' = domain /\ r = "gone"
    BY <1>4, <1>5, <1>9 DEF Die, Answer, AuditInv, AuditTypeOK
  <2>2. OperationOK(e \in txOps, e \in domain', r, status[e])
    BY <1>1, <2>1 DEF OperationOK
  <2> QED
    BY <1>1, <1>2, <1>3, <2>1, <2>2, OperationStep
<1> QED
  BY <1>6, <1>7, <1>8, <1>9 DEF RequestStep

\* The stream stores a first or a further copy, or the outbox settles the event.
LEMMA StreamKeeps ==
    ASSUME AuditInv, NEW e \in Events, StreamStep(e), txOps' = txOps
    PROVE  AuditInv'
<1>1. CASE Publish(e)
  <2>1. PICK c \in Contents : delivered' = [delivered EXCEPT ![e] = {c}]
    BY <1>1 DEF Publish, Deliver
  <2>2. /\ delivered[e] = {} /\ stored' = stored \cup {<<e, 1>>}
        /\ UNCHANGED <<status, domain, request, tries, acked, waiting, handler, logs>>
    BY <1>1 DEF Publish, Deliver
  <2>3. <<e, 1>> \in Messages
    BY AuditAssumption DEF Messages
  <2>4. /\ delivered' \in [Events -> SUBSET Contents] /\ delivered'[e] = {c}
        /\ \A f \in Events : f # e => delivered'[f] = delivered[f]
    BY <2>1 DEF AuditInv, AuditTypeOK
  <2>5. AuditTypeOK'
    BY <2>2, <2>3, <2>4 DEF AuditInv, AuditTypeOK
  <2>6. \A f \in Events : Operation(f)'
    BY <2>2 DEF AuditInv, Operation
  <2>7. ASSUME NEW f \in Events PROVE RowsOK(delivered'[f], logs[f])
    <3>1. RowsOK(delivered[f], logs[f])
      BY DEF AuditInv, Logged
    <3>2. CASE f = e
      BY <2>2, <2>4, <3>1, <3>2 DEF RowsOK
    <3> QED
      BY <2>4, <3>1, <3>2
  <2> QED
    BY <2>2, <2>5, <2>6, <2>7 DEF AuditInv, Logged
<1>2. ASSUME NEW k \in 1 .. MaxCopies, Republish(e, k) PROVE AuditInv'
  <2>1. stored' = stored \cup {<<e, k + 1>>} /\ k < MaxCopies /\ UNCHANGED auditVars
    BY <1>2 DEF Republish
  <2>2. <<e, k + 1>> \in Messages
    BY <2>1, AuditAssumption DEF Messages
  <2> QED
    BY <2>1, <2>2 DEF AuditInv, AuditTypeOK, Operation, Logged, auditVars
<1>3. CASE Dispatch(e)
  <2>1. /\ status' = [status EXCEPT ![e] = "settled"] /\ status[e] = "pending"
        /\ UNCHANGED <<delivered, domain, request, streamVars>>
    BY <1>3 DEF Dispatch, Settle, Move
  <2>2. /\ status' \in [Events -> {"absent", "pending", "parked", "settled"}] /\ status'[e] = "settled"
        /\ \A f \in Events : f # e => status'[f] = status[f]
    BY <2>1 DEF AuditInv, AuditTypeOK
  <2>3. AuditTypeOK'
    BY <2>1, <2>2 DEF AuditInv, AuditTypeOK, streamVars
  <2>4. ASSUME NEW f \in Events PROVE OperationOK(f \in txOps, f \in domain, request[f], status'[f])
    <3>1. OperationOK(f \in txOps, f \in domain, request[f], status[f])
      BY DEF AuditInv, Operation
    <3> QED
      BY <2>1, <2>2, <3>1 DEF OperationOK
  <2> QED
    BY <2>1, <2>3, <2>4 DEF AuditInv, Operation, Logged, streamVars
<1> QED
  BY <1>1, <1>2, <1>3 DEF StreamStep

\* The consumer inserts a content that was delivered, if the event has no row.
LEMMA consumeKeeps ==
    ASSUME AuditInv, NEW c \in Consumers, consume(c), txOps' = txOps
    PROVE  AuditInv'
<1>1. handler[c] \in [msg : Messages \cup {Nothing}, inserted : BOOLEAN] /\ handler[c].msg # Nothing
  BY DEF consume, AuditInv, AuditTypeOK
<1>2. PICK e \in Events : e = handler[c].msg[1]
  BY <1>1 DEF Messages
<1>3. PICK b \in delivered[e] : logs' = [logs EXCEPT ![e] = [logs[e] EXCEPT ![b] = Inserted(logs[e][b])]]
  BY <1>2 DEF consume
<1>4. /\ logs[e] \in [Contents -> Nat] /\ b \in Contents /\ RowsOK(delivered[e], logs[e])
  BY <1>3 DEF AuditInv, AuditTypeOK, Logged
<1>5. Inserted(logs[e][b]) = 1
  BY <1>4 DEF RowsOK, Inserted
<1> DEFINE l == [logs[e] EXCEPT ![b] = 1]
<1>6. l \in [Contents -> Nat] /\ RowsOK(delivered[e], l)
  <2>1. l \in [Contents -> Nat] /\ l[b] = 1 /\ \A d \in Contents : d # b => l[d] = logs[e][d]
    BY <1>4
  <2> HIDE DEF l
  <2> QED
    BY <1>3, <1>4, <2>1 DEF RowsOK
<1>7. logs' = [logs EXCEPT ![e] = l]
  BY <1>3, <1>5
<1> HIDE DEF l
<1>8. /\ logs' \in [Events -> [Contents -> Nat]] /\ logs'[e] = l
      /\ \A f \in Events : f # e => logs'[f] = logs[f]
  BY <1>6, <1>7 DEF AuditInv, AuditTypeOK
<1>9. handler' \in [Consumers -> [msg : Messages \cup {Nothing}, inserted : BOOLEAN]]
  <2> DEFINE h == [handler[c] EXCEPT !.inserted = TRUE]
  <2>1. handler' = [handler EXCEPT ![c] = h]
    BY DEF consume
  <2>2. h \in [msg : Messages \cup {Nothing}, inserted : BOOLEAN]
    BY <1>1
  <2> HIDE DEF h
  <2> QED
    BY <2>1, <2>2 DEF AuditInv, AuditTypeOK
<1>10. UNCHANGED <<status, delivered, domain, request, stored, tries, acked, waiting>>
  BY DEF consume
<1>11. AuditTypeOK'
  BY <1>8, <1>9, <1>10 DEF AuditInv, AuditTypeOK
<1>12. \A f \in Events : RowsOK(delivered'[f], logs'[f])
  BY <1>6, <1>8, <1>10 DEF AuditInv, Logged
<1> QED
  BY <1>10, <1>11, <1>12 DEF AuditInv, Operation, Logged

\* Deliveries, acknowledgements and lost messages touch neither operations nor the log.
LEMMA DeliveryKeeps ==
    ASSUME AuditInv, txOps' = txOps, UNCHANGED <<status, delivered, domain, request, stored, logs>>,
           \/ \E c \in Consumers : (\E m \in Messages : Receive(c, m)) \/ Ack(c) \/ Lose(c)
           \/ \E m \in Messages : AckWaitOver(m)
    PROVE  AuditInv'
<1> DEFINE H == [msg : Messages \cup {Nothing}, inserted : BOOLEAN]
<1>1. /\ handler \in [Consumers -> H] /\ tries \in [Messages -> 0 .. MaxDeliver]
      /\ acked \subseteq Messages /\ waiting \subseteq Messages
  BY DEF AuditInv, AuditTypeOK
<1>2. ASSUME handler' \in [Consumers -> H], tries' \in [Messages -> 0 .. MaxDeliver],
             acked' \subseteq Messages, waiting' \subseteq Messages
      PROVE  AuditInv'
  BY <1>2 DEF AuditInv, AuditTypeOK, Operation, Logged
<1>3. [msg |-> Nothing, inserted |-> FALSE] \in H
  OBVIOUS
<1>4. ASSUME NEW c \in Consumers, NEW m \in Messages, Receive(c, m) PROVE AuditInv'
  <2>1. [msg |-> m, inserted |-> FALSE] \in H
    OBVIOUS
  <2> HIDE DEF H
  <2>2. handler' \in [Consumers -> H] /\ acked' \subseteq Messages /\ waiting' \subseteq Messages
    BY <1>1, <1>4, <2>1 DEF Receive
  <2>3. tries' \in [Messages -> 0 .. MaxDeliver]
    <3>1. tries[m] + 1 \in 0 .. MaxDeliver
      BY <1>1, <1>4, AuditAssumption DEF Receive, Available
    <3> QED
      BY <1>1, <1>4, <3>1 DEF Receive
  <2> QED
    BY <1>2, <2>2, <2>3
<1>5. ASSUME NEW c \in Consumers, Ack(c) PROVE AuditInv'
  <2>1. handler[c].msg \in Messages
    BY <1>1, <1>5 DEF Ack
  <2> HIDE DEF H
  <2> QED
    BY <1>1, <1>2, <1>3, <1>5, <2>1 DEF Ack
<1>6. ASSUME NEW c \in Consumers, Lose(c) PROVE AuditInv'
  <2> HIDE DEF H
  <2> QED
    BY <1>1, <1>2, <1>3, <1>6 DEF Lose
<1>7. ASSUME NEW m \in Messages, AckWaitOver(m) PROVE AuditInv'
  <2> HIDE DEF H
  <2> QED
    BY <1>1, <1>2, <1>7 DEF AckWaitOver
<1> QED
  BY <1>4, <1>5, <1>6, <1>7

-----------------------------------------------------------------------------
(* The specification.                                                      *)

\* Nothing has been asked for.
LEMMA AuditInitially ==
    ASSUME AuditInit
    PROVE  AuditInv
<1>1. AuditTypeOK
  BY AuditAssumption DEF AuditInit, ContractInit, AuditTypeOK
<1>2. \A e \in Events : Operation(e)
  BY DEF AuditInit, ContractInit, Operation, OperationOK
<1>3. \A e \in Events : Logged(e)
  BY DEF AuditInit, ContractInit, Logged, RowsOK
<1> QED
  BY <1>1, <1>2, <1>3 DEF AuditInv

\* Every step keeps the invariant.
LEMMA AuditStep ==
    ASSUME AuditInv, AuditNext, txOps' = txOps
    PROVE  AuditInv'
<1>1. ASSUME NEW c \in Consumers, ConsumerStep(c) PROVE AuditInv'
  <2>1. CASE (\E m \in Messages : Receive(c, m)) \/ Ack(c) \/ Lose(c)
    <3>1. UNCHANGED <<status, delivered, domain, request, stored, logs>>
      BY <2>1 DEF Receive, Ack, Lose
    <3> QED
      BY <2>1, <3>1, DeliveryKeeps
  <2> QED
    BY <1>1, <2>1, consumeKeeps DEF ConsumerStep
<1>2. ASSUME NEW m \in Messages, AckWaitOver(m) PROVE AuditInv'
  <2>1. UNCHANGED <<status, delivered, domain, request, stored, logs>>
    BY <1>2 DEF AckWaitOver
  <2> QED
    BY <1>2, <2>1, DeliveryKeeps
<1> QED
  BY <1>1, <1>2, RequestKeeps, StreamKeeps DEF AuditNext

\* The inductive invariant: what is logged was delivered, an event has one content, and every
\* operation is recorded or still to be recorded.
THEOREM AuditInvariance == AuditSpec => []AuditInv
<1>1. AuditInit => AuditInv
  BY AuditInitially
<1>2. AuditInv /\ [AuditNext /\ UNCHANGED txOps]_<<allVars, txOps>> => AuditInv'
  <2>1. ASSUME AuditInv, UNCHANGED <<allVars, txOps>> PROVE AuditInv'
    BY <2>1 DEF AuditInv, AuditTypeOK, Operation, Logged, allVars, auditVars
  <2> QED
    BY <2>1, AuditStep
<1> QED
  BY <1>1, <1>2, PTL DEF AuditSpec

\* A caller that was told "done" has a durable audit event (RecordTx, Do and Record), and the log
\* has at most one row of it, however often it was published, delivered or inserted (consume).
THEOREM AuditKept == AuditSpec => []AuditIsKept
<1>1. ASSUME AuditInv PROVE SuccessIsAudited
  BY <1>1 DEF AuditInv, Operation, OperationOK, SuccessIsAudited
<1>2. ASSUME AuditInv PROVE LoggedOnce
  <2>1. ASSUME NEW e \in Events
        PROVE  /\ \A b \in Contents : logs[e][b] <= 1
               /\ \A b, d \in Contents : logs[e][b] > 0 /\ logs[e][d] > 0 => b = d
    <3>1. RowsOK(delivered[e], logs[e])
      BY <1>2 DEF AuditInv, Logged
    <3> QED
      BY <3>1 DEF RowsOK
  <2> QED
    BY <2>1 DEF LoggedOnce
<1> QED
  BY <1>1, <1>2, AuditInvariance, PTL DEF AuditIsKept

\* Operations, messages and rows have their types, and no message is delivered more than MaxDeliver times.
THEOREM AuditTypes == AuditSpec => []AuditTypeOK
<1>1. AuditInv => AuditTypeOK
  BY DEF AuditInv
<1> QED
  BY <1>1, AuditInvariance, PTL

-----------------------------------------------------------------------------
(* Policy synchronisation.                                                 *)

Job == [pc : {"idle", "polled", "pollFailed", "refresh", "loaded", "refreshed"}, own : Revs, loaded : Revs]

\* A refresh that has read j[a].loaded: its actor has the mutex m, and the view is no older than
\* the last revision l, than the answered changes w, than its own change, and than those whose
\* refresh has ended but whose request is not yet answered.
LoadedIsRecent(d, l, m, j, w) ==
    \A a \in SyncActors : j[a].pc = "loaded" =>
       /\ m = a /\ l <= j[a].loaded /\ j[a].loaded <= d /\ w <= j[a].loaded /\ j[a].own <= j[a].loaded
       /\ \A t \in Threads : j[t].pc = "refreshed" => j[t].own <= j[a].loaded

\* A replica that serves a snapshot serves every change it has answered or is about to answer.
PromisesAreServed(l, i, j, w) ==
    i \/ (w <= l /\ \A t \in Threads : j[t].pc = "refreshed" => j[t].own <= l)

\* One replica, with the database at revision d.
ReplicaInv(d, s, l, i, m, j, w) ==
    /\ l <= d /\ w <= d /\ \A a \in SyncActors : j[a].own <= d
    /\ IF i THEN s = Nobody ELSE s = l
    /\ LoadedIsRecent(d, l, m, j, w)
    /\ PromisesAreServed(l, i, j, w)

Replica(n) == ReplicaInv(db, snapshot[n], last[n], invalid[n], mutex[n], job[n], answered[n])

SyncInv == SyncTypeOK /\ \A n \in Nodes : Replica(n)

-----------------------------------------------------------------------------
(* One replica.                                                            *)

\* Changes committed elsewhere disturb nothing.
LEMMA Later ==
    ASSUME NEW d \in Revs, NEW e \in Revs, d <= e, NEW s, NEW l \in Revs, NEW i \in BOOLEAN, NEW m,
           NEW j \in [SyncActors -> Job], NEW w \in Revs, ReplicaInv(d, s, l, i, m, j, w)
    PROVE  ReplicaInv(e, s, l, i, m, j, w)
<1>1. ASSUME NEW x \in Revs, x <= d PROVE x <= e
  BY <1>1, SyncAssumption DEF Revs
<1>2. \A a \in SyncActors : j[a].own \in Revs /\ j[a].loaded \in Revs
  BY DEF Job
<1> QED
  BY <1>1, <1>2 DEF ReplicaInv, LoadedIsRecent

\* An actor goes on with x, which is not "loaded", and promises nothing new.
LEMMA Proceeds ==
    ASSUME NEW d \in Revs, NEW s, NEW l \in Revs, NEW i \in BOOLEAN, NEW m,
           NEW j \in [SyncActors -> Job], NEW w \in Revs, ReplicaInv(d, s, l, i, m, j, w),
           NEW a \in SyncActors, NEW x \in Job, x.own <= d, x.pc \notin {"loaded", "refreshed"},
           NEW k \in [SyncActors -> Job], k = [j EXCEPT ![a] = x]
    PROVE  ReplicaInv(d, s, l, i, m, k, w)
<1>1. k[a] = x /\ \A b \in SyncActors : b # a => k[b] = j[b]
  OBVIOUS
<1>2. Threads \subseteq SyncActors
  BY DEF SyncActors
<1>3. LoadedIsRecent(d, l, m, k, w)
  BY <1>1, <1>2 DEF ReplicaInv, LoadedIsRecent
<1>4. PromisesAreServed(l, i, k, w)
  BY <1>1, <1>2 DEF ReplicaInv, PromisesAreServed
<1> QED
  BY <1>1, <1>3, <1>4 DEF ReplicaInv

\* Load: with the mutex free nobody else has a view, and this one is the newest there is.
LEMMA Loads ==
    ASSUME NEW d \in Revs, NEW s, NEW l \in Revs, NEW i \in BOOLEAN,
           NEW j \in [SyncActors -> Job], NEW w \in Revs, ReplicaInv(d, s, l, i, Nobody, j, w),
           NEW a \in SyncActors, NEW x \in Job, x.own = j[a].own, x.loaded = d, x.pc = "loaded",
           NEW k \in [SyncActors -> Job], k = [j EXCEPT ![a] = x]
    PROVE  ReplicaInv(d, s, l, i, a, k, w)
<1>1. k[a] = x /\ \A b \in SyncActors : b # a => k[b] = j[b]
  OBVIOUS
<1>2. Threads \subseteq SyncActors /\ Nobody \notin SyncActors
  BY SyncAssumption DEF SyncActors
<1>3. \A b \in SyncActors : j[b].pc # "loaded"
  BY <1>2 DEF ReplicaInv, LoadedIsRecent
<1>4. d <= d
  BY SyncAssumption DEF Revs
<1>5. LoadedIsRecent(d, l, a, k, w)
  BY <1>1, <1>2, <1>3, <1>4 DEF ReplicaInv, LoadedIsRecent
<1>6. PromisesAreServed(l, i, k, w)
  BY <1>1, <1>2 DEF ReplicaInv, PromisesAreServed
<1> QED
  BY <1>1, <1>5, <1>6 DEF ReplicaInv

\* Install and RefreshFails: the replica, now without a view, serves r or nothing.
LEMMA Ends ==
    ASSUME NEW d \in Revs, NEW l \in Revs, NEW w \in Revs, NEW k \in [SyncActors -> Job], NEW r \in Revs,
           l <= d, r <= d, w <= r, w <= d,
           \A b \in SyncActors : k[b].own <= d /\ k[b].pc # "loaded",
           \A t \in Threads : k[t].pc = "refreshed" => k[t].own <= r
    PROVE  /\ ReplicaInv(d, r, r, FALSE, Nobody, k, w)
           /\ ReplicaInv(d, Nobody, l, TRUE, Nobody, k, w)
  BY DEF ReplicaInv, LoadedIsRecent, PromisesAreServed

\* PublishHint: what was promised becomes answered.
LEMMA Answers ==
    ASSUME NEW d \in Revs, NEW s, NEW l \in Revs, NEW i \in BOOLEAN, NEW m,
           NEW j \in [SyncActors -> Job], NEW w \in Revs, ReplicaInv(d, s, l, i, m, j, w),
           NEW t \in Threads, j[t].pc = "refreshed",
           NEW k \in [SyncActors -> Job], k = [j EXCEPT ![t] = Idle]
    PROVE  ReplicaInv(d, s, l, i, m, k, Larger(w, j[t].own))
<1>1. t \in SyncActors /\ Threads \subseteq SyncActors
  BY DEF SyncActors
<1>2. k[t] = Idle /\ \A b \in SyncActors : b # t => k[b] = j[b]
  BY <1>1
<1>3. Idle.pc = "idle" /\ Idle.own <= d
  BY SyncAssumption DEF Idle, Revs
<1>4. Larger(w, j[t].own) \in {w, j[t].own}
  BY DEF Larger
<1>5. LoadedIsRecent(d, l, m, k, Larger(w, j[t].own))
  BY <1>1, <1>2, <1>3, <1>4 DEF ReplicaInv, LoadedIsRecent
<1>6. PromisesAreServed(l, i, k, Larger(w, j[t].own))
  BY <1>1, <1>2, <1>3, <1>4 DEF ReplicaInv, PromisesAreServed
<1>7. Larger(w, j[t].own) <= d /\ \A a \in SyncActors : k[a].own <= d
  BY <1>1, <1>2, <1>3, <1>4 DEF ReplicaInv
<1> QED
  BY <1>5, <1>6, <1>7 DEF ReplicaInv

\* PollFailed: without a snapshot nothing need be served.
LEMMA Drops ==
    ASSUME NEW d \in Revs, NEW s, NEW l \in Revs, NEW i \in BOOLEAN, NEW m,
           NEW j \in [SyncActors -> Job], NEW w \in Revs, ReplicaInv(d, s, l, i, m, j, w)
    PROVE  ReplicaInv(d, Nobody, l, TRUE, m, j, w)
  BY DEF ReplicaInv, PromisesAreServed

\* A replica that starts serves what is committed and has no request of its own.
LEMMA Starts ==
    ASSUME NEW d \in Revs, NEW w \in Revs, w <= d
    PROVE  ReplicaInv(d, d, d, FALSE, Nobody, [a \in SyncActors |-> Idle], w)
<1>1. Threads \subseteq SyncActors /\ d <= d /\ Idle.pc = "idle" /\ Idle.own <= d
  BY SyncAssumption DEF SyncActors, Idle, Revs
<1> QED
  BY <1>1 DEF ReplicaInv, LoadedIsRecent, PromisesAreServed

-----------------------------------------------------------------------------
(* All replicas.                                                           *)

\* A step of one replica, or of none, if revisions only grow.
LEMMA OneReplica ==
    ASSUME SyncInv, SyncTypeOK', db <= db', NEW n \in Nodes, Replica(n)',
           \A m \in Nodes : m # n => /\ snapshot'[m] = snapshot[m] /\ last'[m] = last[m]
                                     /\ invalid'[m] = invalid[m] /\ mutex'[m] = mutex[m]
                                     /\ job'[m] = job[m] /\ answered'[m] = answered[m]
    PROVE  SyncInv'
<1>1. ASSUME NEW m \in Nodes, m # n PROVE Replica(m)'
  <2>1. /\ db \in Revs /\ db' \in Revs /\ last[m] \in Revs /\ answered[m] \in Revs
        /\ invalid[m] \in BOOLEAN /\ job[m] \in [SyncActors -> Job]
    BY DEF SyncInv, SyncTypeOK, Job
  <2>2. ReplicaInv(db, snapshot[m], last[m], invalid[m], mutex[m], job[m], answered[m])
    BY DEF SyncInv, Replica
  <2>3. ReplicaInv(db', snapshot[m], last[m], invalid[m], mutex[m], job[m], answered[m])
    BY <2>1, <2>2, Later
  <2> QED
    BY <1>1, <2>3 DEF Replica
<1> QED
  BY <1>1 DEF SyncInv

\* What is known of one replica.
LEMMA ReplicaTypes ==
    ASSUME SyncInv, NEW n \in Nodes
    PROVE  /\ db \in Revs /\ last[n] \in Revs /\ answered[n] \in Revs /\ invalid[n] \in BOOLEAN
           /\ job[n] \in [SyncActors -> Job] /\ \A a \in SyncActors : job[n][a] \in Job
           /\ ReplicaInv(db, snapshot[n], last[n], invalid[n], mutex[n], job[n], answered[n])
  BY DEF SyncInv, SyncTypeOK, Replica, Job

\* An actor's job becomes x.
LEMMA JobTypes ==
    ASSUME SyncInv, NEW n \in Nodes, NEW a \in SyncActors, NEW x \in Job,
           job' = [job EXCEPT ![n] = [job[n] EXCEPT ![a] = x]]
    PROVE  /\ job' \in [Nodes -> [SyncActors -> Job]]
           /\ job'[n] = [job[n] EXCEPT ![a] = x] /\ job'[n] \in [SyncActors -> Job]
           /\ \A m \in Nodes : m # n => job'[m] = job[m]
<1>1. job \in [Nodes -> [SyncActors -> Job]]
  BY DEF SyncInv, SyncTypeOK, Job
<1>2. [job[n] EXCEPT ![a] = x] \in [SyncActors -> Job]
  BY <1>1
<1> QED
  BY <1>1, <1>2

\* The stage of a job is a field of it.
LEMMA StageField ==
    ASSUME NEW y \in Job, NEW p \in {"idle", "polled", "pollFailed", "refresh", "loaded", "refreshed"}
    PROVE  /\ [y EXCEPT !.pc = p] \in Job
           /\ [y EXCEPT !.pc = p].pc = p
           /\ [y EXCEPT !.pc = p].own = y.own
  BY DEF Job

\* So is what its refresh has read.
LEMMA ViewField ==
    ASSUME NEW y \in Job, NEW p \in {"idle", "polled", "pollFailed", "refresh", "loaded", "refreshed"},
           NEW r \in Revs
    PROVE  /\ [y EXCEPT !.pc = p, !.loaded = r] \in Job
           /\ [y EXCEPT !.pc = p, !.loaded = r].pc = p
           /\ [y EXCEPT !.pc = p, !.loaded = r].own = y.own
           /\ [y EXCEPT !.pc = p, !.loaded = r].loaded = r
  BY DEF Job

\* An idle job is a job.
LEMMA IdleJob == Idle \in Job /\ Idle.pc = "idle" /\ \A d \in Revs : Idle.own <= d
  BY SyncAssumption DEF Idle, Job, Revs

\* Steps in which an actor goes on without a view and without a promise: Mutate, Notified,
\* ReadRevision, Compare.
LEMMA ProceedKeeps ==
    ASSUME SyncInv, NEW n \in Nodes, NEW a \in SyncActors, NEW x \in Job,
           job' = [job EXCEPT ![n] = [job[n] EXCEPT ![a] = x]], db' \in Revs, db <= db',
           x.own <= db', x.pc \notin {"loaded", "refreshed"}, hints' \subseteq Nodes,
           UNCHANGED <<snapshot, last, invalid, mutex, answered>>
    PROVE  SyncInv'
<1>1. ReplicaInv(db', snapshot[n], last[n], invalid[n], mutex[n], job[n], answered[n])
  BY ReplicaTypes, Later
<1>2. ReplicaInv(db', snapshot[n], last[n], invalid[n], mutex[n], job'[n], answered[n])
  BY <1>1, ReplicaTypes, JobTypes, Proceeds
<1>3. SyncTypeOK'
  BY JobTypes DEF SyncInv, SyncTypeOK, Job
<1> QED
  BY <1>2, <1>3, JobTypes, OneReplica DEF Replica

\* A change is committed, and its request has still to refresh.
LEMMA MutateKeeps ==
    ASSUME SyncInv, NEW n \in Nodes, NEW t \in Threads, Mutate(n, t)
    PROVE  SyncInv'
<1> DEFINE x == [pc |-> "refresh", own |-> db + 1, loaded |-> 0]
<1>1. job' = [job EXCEPT ![n] = [job[n] EXCEPT ![t] = x]]
  BY DEF Mutate
<1>2. db' = db + 1 /\ db' \in Revs /\ db <= db'
      /\ UNCHANGED <<snapshot, last, invalid, mutex, hints, answered>>
  BY SyncAssumption DEF Mutate, SyncInv, SyncTypeOK, Revs
<1>3. x \in Job /\ x.own <= db' /\ x.pc = "refresh"
  BY <1>2, SyncAssumption DEF Job, Revs
<1>4. t \in SyncActors /\ hints' \subseteq Nodes
  BY <1>2 DEF SyncActors, SyncInv, SyncTypeOK
<1> QED
  BY <1>1, <1>2, <1>3, <1>4, ProceedKeeps

\* The Run loop takes up a hint or a poll, or decides about one.
LEMMA RunnerKeeps ==
    ASSUME SyncInv, NEW n \in Nodes, Notified(n) \/ Compare(n) \/ \E ok \in BOOLEAN : ReadRevision(n, ok)
    PROVE  SyncInv'
<1>1. Runner \in SyncActors /\ db \in Revs /\ db <= db /\ job[n][Runner] \in Job /\ job[n][Runner].own <= db
  BY ReplicaTypes, SyncAssumption DEF SyncActors, Revs, ReplicaInv
<1>2. /\ UNCHANGED <<db, snapshot, last, invalid, mutex, answered>>
      /\ hints' \subseteq Nodes
  BY DEF Notified, Compare, ReadRevision, SyncInv, SyncTypeOK
<1> DEFINE Goes == \E x \in Job : /\ job' = [job EXCEPT ![n] = [job[n] EXCEPT ![Runner] = x]]
                                 /\ x.own <= db /\ x.pc \notin {"loaded", "refreshed"}
<1>3. Goes
  <2>1. CASE Moves(n, Runner, "refresh")
    <3> DEFINE x == [job[n][Runner] EXCEPT !.pc = "refresh"]
    <3>1. job' = [job EXCEPT ![n] = [job[n] EXCEPT ![Runner] = x]]
      BY <2>1 DEF Moves
    <3>2. x \in Job /\ x.own = job[n][Runner].own /\ x.pc = "refresh"
      BY <1>1, StageField
    <3> HIDE DEF x
    <3> QED
      BY <1>1, <3>1, <3>2
  <2>2. CASE job' = [job EXCEPT ![n][Runner] = Idle]
    <3>1. job' = [job EXCEPT ![n] = [job[n] EXCEPT ![Runner] = Idle]]
      BY <2>2
    <3> QED
      BY <1>1, <3>1, IdleJob
  <2>3. ASSUME NEW ok \in BOOLEAN, ReadRevision(n, ok) PROVE Goes
    <3> DEFINE x == [pc |-> IF ok THEN "polled" ELSE "pollFailed", own |-> db, loaded |-> 0]
    <3>1. job' = [job EXCEPT ![n] = [job[n] EXCEPT ![Runner] = x]]
      BY <2>3 DEF ReadRevision
    <3>2. x \in Job /\ x.own <= db /\ x.pc \notin {"loaded", "refreshed"}
      BY <1>1, SyncAssumption DEF Job, Revs
    <3> HIDE DEF x
    <3> QED
      BY <3>1, <3>2
  <2> QED
    BY <2>1, <2>2, <2>3 DEF Notified, Compare
<1> QED
  BY <1>1, <1>2, <1>3, ProceedKeeps

\* A change is committed by another process.
LEMMA ElsewhereKeeps ==
    ASSUME SyncInv, NEW reached \in SUBSET Nodes, ChangeElsewhere(reached)
    PROVE  SyncInv'
<1>1. /\ db' \in Revs /\ db <= db' /\ hints' \subseteq Nodes
      /\ UNCHANGED <<snapshot, last, invalid, mutex, job, answered>>
  BY SyncAssumption DEF ChangeElsewhere, SyncInv, SyncTypeOK, Revs
<1>2. ASSUME NEW m \in Nodes PROVE Replica(m)'
  <2>1. ReplicaInv(db', snapshot[m], last[m], invalid[m], mutex[m], job[m], answered[m])
    BY <1>1, ReplicaTypes, Later
  <2> QED
    BY <1>1, <2>1 DEF Replica
<1>3. SyncTypeOK'
  BY <1>1 DEF SyncInv, SyncTypeOK
<1> QED
  BY <1>2, <1>3 DEF SyncInv

\* A change is answered: it was promised, so it is served or nothing is.
LEMMA PublishKeeps ==
    ASSUME SyncInv, NEW n \in Nodes, NEW t \in Threads, NEW reached \in SUBSET Nodes,
           PublishHint(n, t, reached)
    PROVE  SyncInv'
<1>1. /\ job' = [job EXCEPT ![n] = [job[n] EXCEPT ![t] = Idle]]
      /\ answered' = [answered EXCEPT ![n] = Larger(answered[n], job[n][t].own)]
      /\ job[n][t].pc = "refreshed" /\ UNCHANGED <<db, snapshot, last, invalid, mutex>>
  BY DEF PublishHint
<1>2. t \in SyncActors /\ job[n][t].own \in Revs /\ hints' \subseteq Nodes
  BY ReplicaTypes DEF SyncActors, Job, PublishHint, SyncInv, SyncTypeOK
<1>3. Larger(answered[n], job[n][t].own) \in Revs
  BY <1>2, ReplicaTypes DEF Larger
<1>4. /\ answered' \in [Nodes -> Revs] /\ answered'[n] = Larger(answered[n], job[n][t].own)
      /\ \A m \in Nodes : m # n => answered'[m] = answered[m]
  BY <1>1, <1>3 DEF SyncInv, SyncTypeOK
<1>5. ReplicaInv(db, snapshot[n], last[n], invalid[n], mutex[n], job'[n], answered'[n])
  <2>1. job'[n] = [job[n] EXCEPT ![t] = Idle] /\ job'[n] \in [SyncActors -> Job]
    BY <1>1, <1>2, <1>4, IdleJob, JobTypes
  <2>2. /\ db \in Revs /\ last[n] \in Revs /\ answered[n] \in Revs /\ invalid[n] \in BOOLEAN
        /\ job[n] \in [SyncActors -> Job]
        /\ ReplicaInv(db, snapshot[n], last[n], invalid[n], mutex[n], job[n], answered[n])
    BY <1>1, <1>2, <1>4, IdleJob, ReplicaTypes
  <2> QED
    BY <1>1, <1>2, <1>4, IdleJob, <2>1, <2>2, Answers
<1>6. SyncTypeOK'
  BY <1>1, <1>2, <1>4, IdleJob, JobTypes DEF SyncInv, SyncTypeOK, Job
<1>7. db <= db'
  BY <1>1, SyncAssumption DEF SyncInv, SyncTypeOK, Revs
<1> QED
  BY <1>1, <1>2, <1>4, <1>5, <1>6, <1>7, IdleJob, JobTypes, OneReplica DEF Replica

\* The snapshot is dropped; a refresh in progress keeps its view.
LEMMA PollFailedKeeps ==
    ASSUME SyncInv, NEW n \in Nodes, PollFailed(n)
    PROVE  SyncInv'
<1>1. /\ job' = [job EXCEPT ![n] = [job[n] EXCEPT ![Runner] = Idle]]
      /\ invalid' = [invalid EXCEPT ![n] = TRUE] /\ snapshot' = [snapshot EXCEPT ![n] = Nobody]
      /\ UNCHANGED <<db, last, mutex, hints, answered>>
  BY DEF PollFailed, Invalidated
<1>2. Runner \in SyncActors /\ db <= db' /\ db \in Revs
  BY <1>1, SyncAssumption DEF SyncActors, SyncInv, SyncTypeOK, Revs
<1>3. /\ invalid' \in [Nodes -> BOOLEAN] /\ snapshot' \in [Nodes -> Revs \cup {Nobody}]
      /\ invalid'[n] = TRUE /\ snapshot'[n] = Nobody
      /\ \A m \in Nodes : m # n => invalid'[m] = invalid[m] /\ snapshot'[m] = snapshot[m]
  BY <1>1 DEF SyncInv, SyncTypeOK
<1>4. ReplicaInv(db, snapshot[n], last[n], invalid[n], mutex[n], job'[n], answered[n])
  BY <1>1, <1>2, IdleJob, ReplicaTypes, JobTypes, Proceeds
<1>5. ReplicaInv(db, Nobody, last[n], TRUE, mutex[n], job'[n], answered[n])
  <2>1. job'[n] \in [SyncActors -> Job]
    BY <1>1, <1>2, IdleJob, JobTypes
  <2>2. db \in Revs /\ last[n] \in Revs /\ answered[n] \in Revs /\ invalid[n] \in BOOLEAN
    BY ReplicaTypes
  <2> QED
    BY <1>4, <2>1, <2>2, Drops
<1>6. SyncTypeOK'
  BY <1>1, <1>2, <1>3, IdleJob, JobTypes DEF SyncInv, SyncTypeOK, Job
<1> QED
  <2>1. \A m \in Nodes : m # n => job'[m] = job[m]
    BY <1>1, <1>2, IdleJob, JobTypes
  <2>2. Replica(n)'
    BY <1>1, <1>3, <1>5 DEF Replica
  <2> QED
    BY <1>1, <1>2, <1>3, <1>6, <2>1, <2>2, OneReplica

\* A refresh reads, with the mutex.
LEMMA LoadKeeps ==
    ASSUME SyncInv, NEW n \in Nodes, NEW a \in SyncActors, Load(n, a)
    PROVE  SyncInv'
<1> DEFINE x == [job[n][a] EXCEPT !.pc = "loaded", !.loaded = db]
<1>1. job' = [job EXCEPT ![n] = [job[n] EXCEPT ![a] = x]]
  BY DEF Load, SyncInv, SyncTypeOK
<1>2. /\ mutex[n] = Nobody /\ mutex' = [mutex EXCEPT ![n] = a]
      /\ UNCHANGED <<db, snapshot, last, invalid, hints, answered>>
  BY DEF Load, MayRefresh
<1>3. x \in Job /\ x.pc = "loaded" /\ x.own = job[n][a].own /\ x.loaded = db
  <2>1. job[n][a] \in Job /\ db \in Revs
    BY ReplicaTypes
  <2> QED
    BY <2>1, ViewField
<1> HIDE DEF x
<1>4. /\ mutex' \in [Nodes -> SyncActors \cup {Nobody}] /\ mutex'[n] = a
      /\ \A m \in Nodes : m # n => mutex'[m] = mutex[m]
  BY <1>2 DEF SyncInv, SyncTypeOK
<1>5. ReplicaInv(db, snapshot[n], last[n], invalid[n], a, job'[n], answered[n])
  <2>1. job'[n] = [job[n] EXCEPT ![a] = x] /\ job'[n] \in [SyncActors -> Job]
    BY <1>1, <1>2, <1>3, JobTypes
  <2>2. /\ db \in Revs /\ last[n] \in Revs /\ answered[n] \in Revs /\ invalid[n] \in BOOLEAN
        /\ job[n] \in [SyncActors -> Job]
        /\ ReplicaInv(db, snapshot[n], last[n], invalid[n], Nobody, job[n], answered[n])
    BY <1>1, <1>2, <1>3, ReplicaTypes
  <2> QED
    BY <1>1, <1>2, <1>3, <2>1, <2>2, Loads
<1>6. SyncTypeOK'
  BY <1>1, <1>2, <1>3, <1>4, JobTypes DEF SyncInv, SyncTypeOK, Job
<1>7. db <= db'
  BY <1>2, SyncAssumption DEF SyncInv, SyncTypeOK, Revs
<1> QED
  BY <1>1, <1>2, <1>3, <1>4, <1>5, <1>6, <1>7, JobTypes, OneReplica DEF Replica

\* How Install and RefreshFails leave the actor.
LEMMA Unlocks ==
    ASSUME SyncInv, NEW n \in Nodes, NEW a \in SyncActors, Unlock(n, a)
    PROVE  \E x \in Job : /\ x.pc # "loaded" /\ (x.own = Idle.own \/ x.own = job[n][a].own)
                          /\ job' = [job EXCEPT ![n] = [job[n] EXCEPT ![a] = x]]
<1>1. CASE a = Runner
  <2>1. job' = [job EXCEPT ![n] = [job[n] EXCEPT ![a] = Idle]]
    BY <1>1 DEF Unlock
  <2> QED
    BY <2>1, IdleJob DEF Idle
<1>2. CASE a # Runner
  <2> DEFINE x == [job[n][a] EXCEPT !.pc = "refreshed"]
  <2>1. job' = [job EXCEPT ![n] = [job[n] EXCEPT ![a] = x]]
    BY <1>2 DEF Unlock, Moves
  <2>2. x \in Job /\ x.pc = "refreshed" /\ x.own = job[n][a].own
    BY ReplicaTypes, StageField
  <2> HIDE DEF x
  <2> QED
    BY <2>1, <2>2
<1> QED
  BY <1>1, <1>2

\* A refresh installs what it read or drops the snapshot; neither goes back.
LEMMA EndKeeps ==
    ASSUME SyncInv, NEW n \in Nodes, NEW a \in SyncActors, Install(n, a) \/ RefreshFails(n, a)
    PROVE  /\ SyncInv'
           /\ last[n] <= last'[n] /\ (snapshot'[n] # Nobody => last[n] <= snapshot'[n])
           /\ \A m \in Nodes : m # n => last'[m] = last[m] /\ snapshot'[m] = snapshot[m]
<1> DEFINE r == job[n][a].loaded
<1>1. job[n][a].pc = "loaded" /\ Unlock(n, a) /\ UNCHANGED <<db, hints, answered>>
  BY DEF Install, RefreshFails
<1>2. PICK x \in Job : /\ x.pc # "loaded" /\ (x.own = Idle.own \/ x.own = job[n][a].own)
                       /\ job' = [job EXCEPT ![n] = [job[n] EXCEPT ![a] = x]]
  BY <1>1, Unlocks
<1>3. mutex' = [mutex EXCEPT ![n] = Nobody]
  BY <1>1 DEF Unlock
<1>4. /\ mutex' \in [Nodes -> SyncActors \cup {Nobody}] /\ mutex'[n] = Nobody
      /\ \A m \in Nodes : m # n => mutex'[m] = mutex[m]
  BY <1>3 DEF SyncInv, SyncTypeOK
<1>5. /\ ReplicaInv(db, r, r, FALSE, Nobody, job'[n], answered[n])
      /\ ReplicaInv(db, Nobody, last[n], TRUE, Nobody, job'[n], answered[n])
      /\ last[n] <= r /\ r \in Revs
  <2>1. /\ ReplicaInv(db, r, r, FALSE, Nobody, job'[n], answered[n])
        /\ ReplicaInv(db, Nobody, last[n], TRUE, Nobody, job'[n], answered[n])
        /\ last[n] <= r
    <3>1. job'[n] = [job[n] EXCEPT ![a] = x] /\ job'[n] \in [SyncActors -> Job]
      BY <1>2, JobTypes
    <3>2. /\ db \in Revs /\ last[n] \in Revs /\ answered[n] \in Revs /\ invalid[n] \in BOOLEAN
          /\ job[n] \in [SyncActors -> Job]
          /\ ReplicaInv(db, snapshot[n], last[n], invalid[n], mutex[n], job[n], answered[n])
      BY ReplicaTypes
    <3>3. /\ job'[n][a].pc # "loaded" /\ (job'[n][a].own = Idle.own \/ job'[n][a].own = job[n][a].own)
          /\ \A b \in SyncActors : b # a => job'[n][b] = job[n][b]
      BY <1>2, <3>1, <3>2
    <3>4. /\ last[n] <= r /\ r <= db /\ answered[n] <= r /\ job[n][a].own <= r
          /\ \A t \in Threads : job[n][t].pc = "refreshed" => job[n][t].own <= r
          /\ \A b \in SyncActors : job[n][b].own <= db /\ (b # a => job[n][b].pc # "loaded")
          /\ last[n] <= db /\ answered[n] <= db
      BY <1>1, <3>2 DEF ReplicaInv, LoadedIsRecent
    <3>5. Idle.own <= r /\ r \in Revs
      BY <3>2, IdleJob DEF Job
    <3> HIDE DEF r
    <3>6. \A b \in SyncActors : job'[n][b].own <= db /\ job'[n][b].pc # "loaded"
      BY <3>1, <3>2, <3>3, <3>4, IdleJob
    <3>7. \A t \in Threads : job'[n][t].pc = "refreshed" => job'[n][t].own <= r
      BY <3>3, <3>4, <3>5 DEF SyncActors
    <3> QED
      BY <3>1, <3>2, <3>4, <3>5, <3>6, <3>7, Ends
  <2> QED
    BY <2>1, ReplicaTypes DEF Job
<1> HIDE DEF r
<1>6. \/ /\ snapshot' = [snapshot EXCEPT ![n] = r] /\ last' = [last EXCEPT ![n] = r]
         /\ invalid' = [invalid EXCEPT ![n] = FALSE]
      \/ /\ snapshot' = [snapshot EXCEPT ![n] = Nobody] /\ last' = last
         /\ invalid' = [invalid EXCEPT ![n] = TRUE]
  BY DEF Install, RefreshFails, Invalidated, Observed, r
<1>7. /\ snapshot' \in [Nodes -> Revs \cup {Nobody}] /\ last' \in [Nodes -> Revs]
         /\ invalid' \in [Nodes -> BOOLEAN]
      /\ \A m \in Nodes : m # n => snapshot'[m] = snapshot[m] /\ last'[m] = last[m]
         /\ invalid'[m] = invalid[m]
      /\ \/ snapshot'[n] = r /\ last'[n] = r /\ invalid'[n] = FALSE
         \/ snapshot'[n] = Nobody /\ last'[n] = last[n] /\ invalid'[n] = TRUE
  BY <1>5, <1>6 DEF SyncInv, SyncTypeOK
<1>8. SyncTypeOK'
  BY <1>1, <1>2, <1>4, <1>7, JobTypes DEF SyncInv, SyncTypeOK, Job
<1>9. db <= db' /\ last[n] <= last[n]
  BY <1>1, SyncAssumption DEF SyncInv, SyncTypeOK, Revs
<1>10. Replica(n)'
  BY <1>1, <1>4, <1>5, <1>7 DEF Replica
<1>11. \A m \in Nodes : m # n => job'[m] = job[m] /\ answered'[m] = answered[m]
  BY <1>1, <1>2, JobTypes
<1>12. SyncInv'
  BY <1>4, <1>7, <1>8, <1>9, <1>10, <1>11, OneReplica
<1> QED
  BY <1>5, <1>7, <1>9, <1>12

\* A replica starts again with what is committed, which is no older than what it served.
LEMMA RestartKeeps ==
    ASSUME SyncInv, NEW n \in Nodes, Restart(n)
    PROVE  /\ SyncInv'
           /\ last[n] <= last'[n] /\ last[n] <= snapshot'[n]
           /\ \A m \in Nodes : m # n => last'[m] = last[m] /\ snapshot'[m] = snapshot[m]
<1> DEFINE k == [a \in SyncActors |-> Idle]
<1>1. /\ snapshot' = [snapshot EXCEPT ![n] = db] /\ last' = [last EXCEPT ![n] = db]
      /\ invalid' = [invalid EXCEPT ![n] = FALSE] /\ mutex' = [mutex EXCEPT ![n] = Nobody]
      /\ job' = [job EXCEPT ![n] = k] /\ hints' \subseteq hints /\ UNCHANGED <<db, answered>>
  BY DEF Restart
<1>2. k \in [SyncActors -> Job]
  BY IdleJob
<1>3. db \in Revs /\ answered[n] \in Revs /\ answered[n] <= db /\ last[n] <= db /\ db <= db
  BY ReplicaTypes, SyncAssumption DEF ReplicaInv, Revs
<1>4. ReplicaInv(db, db, db, FALSE, Nobody, k, answered[n])
  BY <1>3, Starts
<1> HIDE DEF k
<1>5. SyncTypeOK'
  BY <1>1, <1>2, <1>3 DEF SyncInv, SyncTypeOK, Job
<1>6. /\ snapshot'[n] = db /\ last'[n] = db /\ invalid'[n] = FALSE /\ mutex'[n] = Nobody /\ job'[n] = k
      /\ \A m \in Nodes : m # n => /\ snapshot'[m] = snapshot[m] /\ last'[m] = last[m]
                                   /\ invalid'[m] = invalid[m] /\ mutex'[m] = mutex[m] /\ job'[m] = job[m]
  BY <1>1 DEF SyncInv, SyncTypeOK
<1>7. Replica(n)'
  BY <1>1, <1>4, <1>6 DEF Replica
<1>8. SyncInv'
  BY <1>1, <1>3, <1>5, <1>6, <1>7, OneReplica
<1> QED
  BY <1>3, <1>6, <1>8

-----------------------------------------------------------------------------
(* The specification.                                                      *)

\* Every replica starts with the first revision.
LEMMA SyncInitially ==
    ASSUME SyncInit
    PROVE  SyncInv
<1>1. 0 \in Revs /\ 0 <= 0
  BY SyncAssumption DEF Revs
<1>2. SyncTypeOK
  BY <1>1, IdleJob DEF SyncInit, SyncTypeOK, Job
<1>3. ASSUME NEW n \in Nodes PROVE Replica(n)
  BY <1>1, Starts DEF SyncInit, Replica
<1> QED
  BY <1>2, <1>3 DEF SyncInv

\* Every step keeps the invariant, and no replica goes back.
LEMMA SyncStep ==
    ASSUME SyncInv, SyncNext
    PROVE  /\ SyncInv'
           /\ \A n \in Nodes : last[n] <= last'[n] /\ (snapshot'[n] # Nobody => last[n] <= snapshot'[n])
<1> DEFINE NoneBack == \A n \in Nodes : last[n] <= last'[n] /\ (snapshot'[n] # Nobody
              => last[n] <= snapshot'[n])
<1>1. \A n \in Nodes : last[n] <= last[n] /\ (snapshot[n] # Nobody => last[n] <= snapshot[n])
  <2>1. ASSUME NEW n \in Nodes PROVE last[n] <= last[n]
    <3>1. last[n] \in Nat
      BY ReplicaTypes, SyncAssumption DEF Revs
    <3> QED
      BY <3>1, SyncAssumption
  <2> QED
    BY <2>1, ReplicaTypes DEF ReplicaInv
<1>2. ASSUME last' = last, snapshot' = snapshot PROVE NoneBack
  BY <1>1, <1>2
<1>3. ASSUME NEW reached \in SUBSET Nodes, ChangeElsewhere(reached) PROVE SyncInv' /\ NoneBack
  BY <1>2, <1>3, ElsewhereKeeps DEF ChangeElsewhere
<1>4. ASSUME NEW n \in Nodes, NodeStep(n) PROVE SyncInv' /\ NoneBack
  <2>1. ASSUME NEW t \in Threads, Mutate(n, t) PROVE SyncInv' /\ NoneBack
    BY <1>2, <2>1, MutateKeeps DEF Mutate
  <2>2. ASSUME NEW t \in Threads, NEW reached \in SUBSET Nodes, PublishHint(n, t, reached)
        PROVE  SyncInv' /\ NoneBack
    BY <1>2, <2>2, PublishKeeps DEF PublishHint
  <2>3. CASE Notified(n) \/ Compare(n) \/ \E ok \in BOOLEAN : ReadRevision(n, ok)
    BY <1>2, <2>3, RunnerKeeps DEF Notified, Compare, ReadRevision
  <2>4. CASE PollFailed(n)
    <3>1. last' = last /\ snapshot' = [snapshot EXCEPT ![n] = Nobody]
      BY <2>4 DEF PollFailed, Invalidated
    <3>2. \A m \in Nodes : snapshot'[m] = Nobody \/ snapshot'[m] = snapshot[m]
      BY <3>1 DEF SyncInv, SyncTypeOK
    <3> QED
      BY <1>1, <2>4, <3>1, <3>2, PollFailedKeeps
  <2>5. CASE Restart(n)
    BY <1>1, <2>5, RestartKeeps
  <2>6. ASSUME NEW a \in SyncActors, Load(n, a) PROVE SyncInv' /\ NoneBack
    BY <1>2, <2>6, LoadKeeps DEF Load
  <2>7. ASSUME NEW a \in SyncActors, Install(n, a) \/ RefreshFails(n, a) PROVE SyncInv' /\ NoneBack
    BY <1>1, <2>7, EndKeeps
  <2> QED
    BY <1>4, <2>1, <2>2, <2>3, <2>4, <2>5, <2>6, <2>7 DEF NodeStep
<1> QED
  BY <1>3, <1>4 DEF SyncNext

\* A stuttering step keeps the invariant.
LEMMA SyncStutters ==
    ASSUME SyncInv, UNCHANGED syncVars
    PROVE  SyncInv'
  BY DEF SyncInv, SyncTypeOK, Replica, syncVars

\* The inductive invariant: with the mutex, what a refresh has read is never older than what
\* its replica serves, has answered, or is about to answer.
THEOREM SyncInvariance == SyncSpec => []SyncInv
<1>1. SyncInit => SyncInv
  BY SyncInitially
<1>2. SyncInv /\ [SyncNext]_syncVars => SyncInv'
  BY SyncStep, SyncStutters
<1> QED
  BY <1>1, <1>2, PTL DEF SyncSpec

\* Snapshots, revisions and jobs have their types.
THEOREM SyncTypes == SyncSpec => []SyncTypeOK
<1>1. SyncInv => SyncTypeOK
  BY DEF SyncInv
<1> QED
  BY <1>1, SyncInvariance, PTL

\* What a replica decides by is named by its revision and no older than any change that a
\* request on it was answered for, whatever refreshes and polls overlap (RefreshSnapshot, poll).
THEOREM SnapshotSound == SyncSpec => []SnapshotIsSound
<1>1. ASSUME SyncInv PROVE SnapshotIsSound
  <2>1. ASSUME NEW n \in Nodes
        PROVE  /\ IF invalid[n] THEN snapshot[n] = Nobody ELSE snapshot[n] = last[n]
               /\ snapshot[n] # Nobody => snapshot[n] >= answered[n]
    <3>1. ReplicaInv(db, snapshot[n], last[n], invalid[n], mutex[n], job[n], answered[n])
      BY <1>1, ReplicaTypes
    <3>2. last[n] \in Nat /\ answered[n] \in Nat
      BY <1>1, ReplicaTypes, SyncAssumption DEF Revs
    <3> QED
      BY <3>1, <3>2 DEF ReplicaInv, PromisesAreServed
  <2> QED
    BY <2>1 DEF SnapshotIsSound, RevisionNamesSnapshot, OwnChangesAreServed
<1> QED
  BY <1>1, SyncInvariance, PTL

\* No step takes a replica back to policies older than some it served, not even after it
\* dropped its snapshot: only the mutex keeps a slow refresh from installing what it read.
THEOREM NoRegress == SyncSpec => SnapshotNeverRegresses
<1>1. ASSUME SyncInv, SyncNext
      PROVE  \A n \in Nodes : /\ last'[n] >= last[n]
                              /\ snapshot'[n] # Nobody => snapshot'[n] >= last[n]
  <2>1. ASSUME NEW n \in Nodes
        PROVE  last'[n] >= last[n] /\ (snapshot'[n] # Nobody => snapshot'[n] >= last[n])
    <3>1. last[n] <= last'[n] /\ (snapshot'[n] # Nobody => last[n] <= snapshot'[n]) /\ SyncInv'
      BY <1>1, SyncStep
    <3>2. last[n] \in Nat /\ last'[n] \in Nat /\ snapshot'[n] \in Nat \cup {Nobody}
      BY <1>1, <3>1, SyncAssumption DEF SyncInv, SyncTypeOK, Revs
    <3> QED
      BY <3>1, <3>2
  <2> QED
    BY <2>1
<1>2. SyncInv /\ [SyncNext]_syncVars
         => [\A n \in Nodes : /\ last'[n] >= last[n]
                              /\ snapshot'[n] # Nobody => snapshot'[n] >= last[n]]_syncVars
  BY <1>1
<1> QED
  BY <1>2, SyncInvariance, PTL DEF SyncSpec, SnapshotNeverRegresses

-----------------------------------------------------------------------------
(* The process.                                                            *)

\* The states of what a hook runs.
Unit == {"off", "running", "waiting", "cancelled", "ended"}

\* The states in which it may use what is open.
Alive == {"running", "waiting", "cancelled"}

\* The types.
ProcessTypeOK ==
    /\ opened \subseteq Process!Resource
    /\ started \in 0 .. 12
    /\ unit \in [Process!Hook -> Unit]

\* What runs was started, and its OnStop hook has not been called.
NothingRunsEarly == \A h \in Process!Hook : unit[h] \in Alive => \E i \in 1 .. started : Process!Order[i] = h

\* Everything is open from the end of construction to the first OnStop hook; afterwards, what was
\* started no later than the hook that is next to stop.
ResourcesStayOpen ==
    /\ phase \in {"starting", "up"} => opened = Process!Resource
    /\ phase = "building" => started = 0
    /\ phase = "stopping" => \A i \in 1 .. started : Process!Order[i] \in Process!Resource
       => Process!Order[i] \in opened

\* A process that has exited runs nothing.
ExitedIsQuiet ==
    /\ phase \in {"building", "starting", "up", "stopping", "exited"}
    /\ phase = "exited" => \A h \in Process!Hook : unit[h] \notin Alive

\* The inductive invariant.
ProcessInv == ProcessTypeOK /\ NothingRunsEarly /\ ResourcesStayOpen /\ ExitedIsQuiet

\* The order in which the modules append their hooks.
LEMMA OrderIsKnown ==
  /\ Process!Order[1] = "database" /\ Process!Order[2] = "redis" /\ Process!Order[3] = "lifecycle"
  /\ Process!Order[4] = "files" /\ Process!Order[5] = "bus" /\ Process!Order[6] = "outbox"
  /\ Process!Order[7] = "consumer" /\ Process!Order[8] = "catalog" /\ Process!Order[9] = "policies"
  /\ Process!Order[10] = "scheduler" /\ Process!Order[11] = "grpc" /\ Process!Order[12] = "http"
  /\ DOMAIN Process!Order = 1 .. 12 /\ Len(Process!Order) = 12
  BY DEF Process!Order

\* Each of them appends once.
LEMMA OrderIsInjective ==
  ASSUME NEW i \in 1 .. 12, NEW j \in 1 .. 12, Process!Order[i] = Process!Order[j]
  PROVE  i = j
  BY OrderIsKnown

\* What a unit uses is appended no later than the unit itself, so it is stopped no earlier.
LEMMA UsesAreEarlier ==
  ASSUME NEW i \in 1 .. 12, NEW r \in Process!Uses(Process!Order[i])
  PROVE  r \in Process!Resource /\ \E j \in 1 .. i : Process!Order[j] = r
  <1>1. r \in {"database", "redis", "bus"}
    BY DEF Process!Uses
  <1>2. r = "redis" => i >= 2
    BY OrderIsKnown DEF Process!Uses
  <1>3. r = "bus" => i >= 5
    BY OrderIsKnown DEF Process!Uses
  <1> QED
    BY <1>1, <1>2, <1>3, OrderIsKnown DEF Process!Resource

\* The order names every hook and nothing else.
LEMMA HooksAreOrdered ==
  /\ \A i \in 1 .. 12 : Process!Order[i] \in Process!Hook
  /\ \A h \in Process!Hook : \E i \in 1 .. 12 : Process!Order[i] = h
  BY OrderIsKnown DEF Process!Hook

\* ClosedAfterUse follows: what runs was started, what it uses was started before it, and that is
\* open.
LEMMA ClosedLast == ProcessInv => Process!ClosedAfterUse
  <1> SUFFICES ASSUME ProcessInv, NEW h \in Process!Hook, unit[h] \in Alive, NEW r \in Process!Uses(h)
               PROVE  r \in opened
    BY DEF Process!ClosedAfterUse, Alive
  <1>1. PICK i \in 1 .. started : Process!Order[i] = h
    BY DEF ProcessInv, NothingRunsEarly
  <1>2. started \in 0 .. 12 /\ i \in 1 .. 12
    BY DEF ProcessInv, ProcessTypeOK
  <1>3. r \in Process!Resource /\ \E j \in 1 .. i : Process!Order[j] = r
    BY <1>1, <1>2, UsesAreEarlier
  <1>4. PICK j \in 1 .. i : Process!Order[j] = r
    BY <1>3
  <1>5. j \in 1 .. started
    BY <1>2
  <1> QED
    BY <1>3, <1>4, <1>5 DEF ProcessInv, ResourcesStayOpen, ExitedIsQuiet

\* Nothing is open or started.
LEMMA ProcessBegin == Process!Init => ProcessInv
  BY DEF Process!Init, ProcessInv, ProcessTypeOK, NothingRunsEarly, ResourcesStayOpen,
         ExitedIsQuiet, Unit, Alive

\* Construction opens everything before the first OnStart hook, and the hooks run in order.
LEMMA UpKeeps ==
  ASSUME ProcessInv, Process!Up
  PROVE  ProcessInv'
  <1> USE DEF ProcessInv, ProcessTypeOK, NothingRunsEarly, ResourcesStayOpen, ExitedIsQuiet
  <1>1. ASSUME NEW r \in Process!Resource, Process!Construct(r) PROVE ProcessInv'
    BY <1>1 DEF Process!Construct
  <1>2. CASE Process!Built
    BY <1>2 DEF Process!Built
  <1>3. CASE Process!OnStart
    <2>1. started + 1 \in 1 .. 12 /\ started' = started + 1 /\ UNCHANGED <<phase, opened, budget>>
          /\ phase = "starting"
      BY <1>3, OrderIsKnown DEF Process!OnStart
    <2>2. PICK u \in Unit : unit' = [unit EXCEPT ![Process!Order[started + 1]] = u]
      BY <1>3 DEF Process!OnStart, Process!Turn, Unit
    <2>3. ProcessTypeOK'
      <3>1. started' \in 0 .. 12
        BY <2>1
      <3>2. unit' \in [Process!Hook -> Unit]
        BY <2>2
      <3> QED
        BY <2>1, <3>2
    <2>4. NothingRunsEarly'
      <3>1. SUFFICES ASSUME NEW h \in Process!Hook, unit'[h] \in Alive
                          PROVE \E i \in 1 .. started + 1 : Process!Order[i] = h
        BY <2>1
      <3>2. CASE h = Process!Order[started + 1]
        BY <3>2
      <3>3. CASE h # Process!Order[started + 1]
        <4>1. unit[h] \in Alive
          BY <2>2, <3>1, <3>3
        <4>2. PICK i \in 1 .. started : Process!Order[i] = h
          BY <4>1
        <4> QED
          BY <4>2
      <3> QED
        BY <3>3
    <2> QED
      BY <2>1, <2>3, <2>4
  <1>4. CASE Process!OnStartFails
    <2>1. started + 1 \in 1 .. 12 /\ UNCHANGED <<started, unit>> /\ phase = "starting" /\ phase' = "stopping"
      BY <1>4, OrderIsKnown DEF Process!OnStartFails
    <2>2. opened = Process!Resource
      BY <2>1
    <2>3. CASE opened' = opened
      BY <2>1, <2>3
    <2>4. CASE Process!Order[started + 1] = "redis" /\ opened' = opened \ {"redis"}
      <3>1. started = 1
        BY <2>1, <2>4, OrderIsKnown
      <3>2. \A i \in 1 .. started : Process!Order[i] \in opened'
        BY <2>2, <2>4, <3>1, OrderIsKnown DEF Process!Resource
      <3> QED
        BY <2>1, <2>4, <3>2
    <2> QED
      BY <1>4, <2>4 DEF Process!OnStartFails, Process!Turn
  <1>5. CASE Process!AllStarted
    BY <1>5 DEF Process!AllStarted
  <1> QED
    BY <1>1, <1>2, <1>3, <1>4, <1>5 DEF Process!Up

\* A unit changes its state while it runs.
LEMMA StepsUnit ==
  ASSUME ProcessInv, NEW h \in Process!Hook, unit[h] \in Alive, NEW u \in Unit,
         unit' = [unit EXCEPT ![h] = u],
         UNCHANGED <<phase, opened, started, budget>>
  PROVE  ProcessInv'
  <1>1. ProcessTypeOK'
    BY DEF ProcessInv, ProcessTypeOK
  <1>2. \A k \in Process!Hook : unit'[k] \in Alive => unit[k] \in Alive
    OBVIOUS
  <1> QED
    BY <1>1 DEF ProcessInv, NothingRunsEarly, ResourcesStayOpen, ExitedIsQuiet

\* The way down: OnStop hooks run in the reverse order, each until what it stops has ended; a stop
\* that is out of time ends the process.
LEMMA DownKeeps ==
  ASSUME ProcessInv, Process!Down
  PROVE  ProcessInv'
  <1>1. CASE Process!Cancel
    <2>1. started \in 1 .. 12
      BY <1>1 DEF Process!Cancel, ProcessInv, ProcessTypeOK
    <2> QED
      BY <1>1, <2>1, HooksAreOrdered, StepsUnit DEF Process!Cancel, Process!Last, Unit, Alive
  <1>2. CASE Process!Stop
    <2> DEFINE outermost == Process!Order[started]
    <2>1. started \in 1 .. 12 /\ started' = started - 1 /\ opened' = opened \ {outermost}
          /\ UNCHANGED <<phase, unit, budget>>
      BY <1>2 DEF Process!Stop, Process!Last, ProcessInv, ProcessTypeOK
    <2>2. unit[outermost] \notin Alive /\ phase = "stopping"
      BY <1>2 DEF Process!Stop, Process!Last, Process!Joined, Alive
    <2>3. started - 1 \in 0 .. 12
      BY <2>1
    <2>4. ProcessTypeOK'
      BY <2>1 DEF ProcessInv, ProcessTypeOK
    <2>5. NothingRunsEarly'
      <3>1. SUFFICES ASSUME NEW h \in Process!Hook, unit[h] \in Alive
                          PROVE \E i \in 1 .. started - 1 : Process!Order[i] = h
        BY <2>1 DEF NothingRunsEarly
      <3>2. PICK i \in 1 .. started : Process!Order[i] = h
        BY <3>1 DEF ProcessInv, NothingRunsEarly
      <3>3. i # started
        BY <2>2, <3>1, <3>2
      <3> QED
        BY <2>1, <3>2, <3>3
    <2>6. ResourcesStayOpen'
      <3>1. SUFFICES ASSUME NEW i \in 1 .. started - 1, Process!Order[i] \in Process!Resource
                     PROVE  Process!Order[i] \in opened \ {outermost}
        BY <2>1, <2>2 DEF ResourcesStayOpen
      <3>2. i \in 1 .. started /\ i \in 1 .. 12 /\ i # started
        BY <2>1
      <3>3. Process!Order[i] # outermost
        BY <2>1, OrderIsInjective
      <3> QED
        BY <2>2, <3>1, <3>2, <3>3 DEF ProcessInv, ResourcesStayOpen
    <2> QED
      BY <2>1, <2>4, <2>5, <2>6 DEF ProcessInv, ExitedIsQuiet
  <1>3. CASE Process!GiveUp
    BY <1>3
       DEF Process!GiveUp, ProcessInv, ProcessTypeOK, NothingRunsEarly, ResourcesStayOpen,
           ExitedIsQuiet, Unit, Alive
  <1>4. CASE Process!Stopped
    BY <1>4
       DEF Process!Stopped, ProcessInv, ProcessTypeOK, NothingRunsEarly, ResourcesStayOpen,
           ExitedIsQuiet
  <1> QED
    BY <1>1, <1>2, <1>3, <1>4 DEF Process!Down

\* Every step.
LEMMA ProcessNext ==
  ASSUME ProcessInv, Process!Next
  PROVE  ProcessInv'
  <1>1. "consumer" \in Process!Hook
    BY HooksAreOrdered, OrderIsKnown
  <1>2. CASE Process!Signal \/ Process!OutOfTime
    BY <1>2
       DEF Process!Signal, Process!OutOfTime, ProcessInv, ProcessTypeOK, NothingRunsEarly,
           ResourcesStayOpen, ExitedIsQuiet
  <1>3. CASE Process!ConsumeEnds \/ Process!ConsumeAgain
    BY <1>1, <1>3, StepsUnit DEF Process!ConsumeEnds, Process!ConsumeAgain, Unit, Alive
  <1>4. ASSUME NEW h \in Process!Hook, Process!Returns(h) PROVE ProcessInv'
    BY <1>4, StepsUnit DEF Process!Returns, Unit, Alive
  <1> QED
    BY <1>2, <1>3, <1>4, UpKeeps, DownKeeps DEF Process!Next

\* ClosedAfterUse: no worker, server or consumer runs on what has been closed, whether the process
\* stops, fails to start or runs out of time (App.Run, the lifecycle's hooks).
THEOREM ClosedAfterUseHolds == Process!Spec => []ClosedAfterUse
  <1>1. ProcessInv /\ [Process!Next]_(Process!vars) => ProcessInv'
    <2>1. ASSUME ProcessInv, UNCHANGED Process!vars PROVE ProcessInv'
      BY <2>1
         DEF Process!vars, ProcessInv, ProcessTypeOK, NothingRunsEarly, ResourcesStayOpen,
             ExitedIsQuiet
    <2> QED
      BY <2>1, ProcessNext
  <1>2. ProcessInv => ClosedAfterUse
    BY ClosedLast DEF ClosedAfterUse
  <1> QED
    BY <1>1, <1>2, ProcessBegin, PTL DEF Process!Spec
=============================================================================
