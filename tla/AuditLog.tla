------------------------------ MODULE AuditLog ------------------------------
(***************************************************************************)
(* Operation and security logs, end to end: a request mutates the domain   *)
(* and records an event (internal/operationlog, internal/securitylog), the *)
(* outbox carries it to the stream (here through its contract), and        *)
(* durable consumers insert it into the log table with explicit acks.      *)
(*                                                                         *)
(* An event stands for one audited operation.  A message is one stored     *)
(* copy of its event; the stream redelivers it until it is acknowledged or *)
(* was delivered MaxDeliver times.                                         *)
(***************************************************************************)
EXTENDS EventContract, Naturals, FiniteSets

CONSTANTS
    Consumers,   \* consumer loops of all processes
    MaxDeliver,  \* cfg.ConsumerMaxDeliver
    MaxCopies,   \* copies of an event in the stream: bound of the model
    Nothing      \* a consumer that handles no message

ASSUME AuditAssumption == MaxDeliver \in Nat \ {0} /\ MaxCopies \in Nat \ {0}

VARIABLES
    txOps,    \* operations that record with RecordTx, the others with Do and Record; it
              \* never changes
    domain,   \* operations whose domain write is committed
    request,  \* what the request of each operation is doing, or answered
    stored,   \* messages the stream stored
    tries,    \* deliveries of each message; 0: not in the stream
    acked,    \* messages acknowledged
    waiting,  \* messages delivered, neither acknowledged nor due for redelivery
    handler,  \* the message a consumer handles, and whether its row is committed
    logs      \* rows of the log table: how many for each event and content

auditVars == <<status, delivered, domain, request, tries, acked, waiting, handler, logs>>
allVars == <<auditVars, stored>>

Messages == Events \X (1 .. MaxCopies)

AuditInit ==
    /\ ContractInit
    /\ txOps \in SUBSET Events
    /\ domain = {}
    /\ request = [e \in Events |-> "new"]
    /\ stored = {}
    /\ tries = [m \in Messages |-> 0]
    /\ acked = {}
    /\ waiting = {}
    /\ handler = [c \in Consumers |-> [msg |-> Nothing, inserted |-> FALSE]]
    /\ logs = [e \in Events |-> [c \in Contents |-> 0]]

streamVars == <<stored, tries, acked, waiting, handler, logs>>

-----------------------------------------------------------------------------
(* The request.                                                            *)

Answer(e, a) == request' = [request EXCEPT ![e] = a]

\* Mutant: the event is stored in a transaction of its own, after the domain's.
RecordTx_Separate(e, ok) ==
    /\ e \in txOps /\ request[e] = "new"
    /\ domain' = domain \cup {e}
    /\ IF ok THEN Move(e, "absent", "pending") ELSE UNCHANGED status
    /\ Answer(e, IF ok THEN "ok" ELSE "error")
    /\ UNCHANGED <<delivered, streamVars>>

\* One transaction writes the domain and, through RecordTx, the outbox row; any
\* error (an invalid entry, no outbox, a cancelled context, the INSERT) rolls both back.
RecordTx(e, ok) ==
    /\ e \in txOps /\ request[e] = "new"
    /\ IF ok THEN domain' = domain \cup {e} /\ Move(e, "absent", "pending")
             ELSE UNCHANGED <<domain, status>>
    /\ Answer(e, IF ok THEN "ok" ELSE "error")
    /\ UNCHANGED <<delivered, streamVars>>

\* Do: the business function runs first and may fail; its result is recorded after it.
Do(e, ok) ==
    /\ e \notin txOps /\ request[e] = "new"
    /\ domain' = IF ok THEN domain \cup {e} ELSE domain
    /\ Answer(e, IF ok THEN "succeeded" ELSE "failed")
    /\ UNCHANGED <<status, delivered, streamVars>>

\* Record commits the event in its own transaction; its failure turns a success
\* into an error, and a business error is returned unchanged.
Record(e, ok) ==
    /\ request[e] \in {"succeeded", "failed"}
    /\ IF ok THEN Move(e, "absent", "pending") ELSE UNCHANGED status
    /\ Answer(e, IF ok /\ request[e] = "succeeded" THEN "ok" ELSE "error")
    /\ UNCHANGED <<domain, delivered, streamVars>>

\* The process dies between the operation and its record.
Die(e) ==
    /\ request[e] \in {"succeeded", "failed"}
    /\ Answer(e, "gone")
    /\ UNCHANGED <<domain, status, delivered, streamVars>>

-----------------------------------------------------------------------------
(* The outbox and the stream.                                              *)

\* The first copy of an event is the contract's Deliver.
Publish(e) ==
    /\ Deliver(e)
    /\ stored' = stored \cup {<<e, 1>>}
    /\ UNCHANGED <<domain, request, tries, acked, waiting, handler, logs>>

\* A dispatcher that never saw its acknowledgement publishes again once the
\* duplicate window is over.
Republish(e, k) ==
    /\ delivered[e] # {} /\ <<e, k>> \in stored /\ k < MaxCopies
    /\ <<e, k + 1>> \notin stored
    /\ stored' = stored \cup {<<e, k + 1>>}
    /\ UNCHANGED auditVars

Dispatch(e) == /\ Settle(e)
               /\ UNCHANGED <<domain, request, streamVars>>

-----------------------------------------------------------------------------
(* The consumer.                                                           *)

Available(m) == m \in stored /\ m \notin acked /\ m \notin waiting /\ tries[m] < MaxDeliver

Receive(c, m) ==
    /\ handler[c].msg = Nothing /\ Available(m)
    /\ handler' = [handler EXCEPT ![c] = [msg |-> m, inserted |-> FALSE]]
    /\ tries' = [tries EXCEPT ![m] = @ + 1]
    /\ waiting' = waiting \cup {m}
    /\ UNCHANGED <<status, delivered, domain, request, stored, acked, logs>>

\* Mutant: no ON CONFLICT clause on a table without the unique key.
Inserted_Always(n) == n + 1

\* ON CONFLICT (id, occurred_at) DO NOTHING: the row exists or is added.
Inserted(n) == IF n = 0 THEN 1 ELSE n

\* consume: a valid event is inserted in a transaction of the consumer.
consume(c) ==
    LET e == handler[c].msg[1] IN
    /\ handler[c].msg # Nothing /\ ~handler[c].inserted
    /\ \E b \in delivered[e] : logs' = [logs EXCEPT ![e][b] = Inserted(@)]
    /\ handler' = [handler EXCEPT ![c].inserted = TRUE]
    /\ UNCHANGED <<status, delivered, domain, request, stored, tries, acked, waiting>>

\* Mutant: the message is acknowledged on receipt.
Ack_OnReceipt(c) ==
    /\ handler[c].msg # Nothing
    /\ acked' = acked \cup {handler[c].msg}
    /\ waiting' = waiting \ {handler[c].msg}
    /\ handler' = [handler EXCEPT ![c] = [msg |-> Nothing, inserted |-> FALSE]]
    /\ UNCHANGED <<status, delivered, domain, request, stored, tries, logs>>

\* The handler returned nil, so the message is acknowledged.
Ack(c) ==
    /\ handler[c].msg # Nothing /\ handler[c].inserted
    /\ acked' = acked \cup {handler[c].msg}
    /\ waiting' = waiting \ {handler[c].msg}
    /\ handler' = [handler EXCEPT ![c] = [msg |-> Nothing, inserted |-> FALSE]]
    /\ UNCHANGED <<status, delivered, domain, request, stored, tries, logs>>

\* The handler fails, times out or dies: no acknowledgement, whether or not its
\* transaction committed.  runConsumer subscribes again.
Lose(c) ==
    /\ handler[c].msg # Nothing
    /\ handler' = [handler EXCEPT ![c] = [msg |-> Nothing, inserted |-> FALSE]]
    /\ UNCHANGED <<status, delivered, domain, request, stored, tries, acked, waiting, logs>>

\* ConsumerAckWait passes: the message is due again, even if a handler still holds it.
AckWaitOver(m) ==
    /\ m \in waiting
    /\ waiting' = waiting \ {m}
    /\ UNCHANGED <<status, delivered, domain, request, stored, tries, acked, handler, logs>>

-----------------------------------------------------------------------------
ConsumerStep(c) == (\E m \in Messages : Receive(c, m)) \/ consume(c) \/ Ack(c) \/ Lose(c)

RequestStep(e) == (\E ok \in BOOLEAN : RecordTx(e, ok) \/ Do(e, ok) \/ Record(e, ok)) \/ Die(e)

StreamStep(e) == Publish(e) \/ Dispatch(e) \/ \E k \in 1 .. MaxCopies : Republish(e, k)

AuditNext == \/ \E c \in Consumers : ConsumerStep(c)
             \/ \E e \in Events : RequestStep(e) \/ StreamStep(e)
             \/ \E m \in Messages : AckWaitOver(m)

\* The dispatcher delivers what is committed (RowsSettle of EventOutbox), the ack
\* wait runs out, consumers poll, and a handler that is given a message again and
\* again finishes.
AuditFairness ==
    /\ \A e \in Events : WF_allVars(Publish(e))
    /\ \A m \in Messages : WF_allVars(AckWaitOver(m))
    /\ \A c \in Consumers :
         WF_allVars(\E m \in Messages : Receive(c, m)) /\ WF_allVars(consume(c) \/ Ack(c) \/ Lose(c))

AuditSpec == AuditInit /\ [][AuditNext /\ UNCHANGED txOps]_<<allVars, txOps>> /\ AuditFairness

-----------------------------------------------------------------------------
\* Operations, messages, handlers and rows have their types, and no message is
\* delivered more often than MaxDeliver.
AuditTypeOK ==
    /\ status \in [Events -> {"absent", "pending", "parked", "settled"}]
    /\ delivered \in [Events -> SUBSET Contents]
    /\ domain \subseteq Events
    /\ request \in [Events -> {"new", "succeeded", "failed", "ok", "error", "gone"}]
    /\ stored \subseteq Messages /\ acked \subseteq Messages /\ waiting \subseteq Messages
    /\ tries \in [Messages -> 0 .. MaxDeliver]
    /\ handler \in [Consumers -> [msg : Messages \cup {Nothing}, inserted : BOOLEAN]]
    /\ logs \in [Events -> [Contents -> Nat]]

\* A caller that was told "done" has a durable audit event, and an operation recorded
\* with RecordTx has one exactly when its domain write committed.
SuccessIsAudited ==
    \A e \in Events : /\ request[e] = "ok" => e \in domain /\ status[e] # "absent"
                      /\ e \in txOps => (e \in domain <=> status[e] # "absent")

\* The log holds at most one row per event, over all contents, however often the
\* event was published, delivered or inserted.
LoggedOnce ==
    \A e \in Events : /\ \A b \in Contents : logs[e][b] <= 1
                      /\ \A b, d \in Contents : logs[e][b] > 0 /\ logs[e][d] > 0 => b = d

\* Both: the log neither lacks nor repeats what a caller was told is done.
AuditIsKept == SuccessIsAudited /\ LoggedOnce

\* Every committed event reaches the log, unless some copy of it used up its
\* MaxDeliver deliveries without an acknowledgement.
Exhausted(e) == \E k \in 1 .. MaxCopies : tries[<<e, k>>] = MaxDeliver /\ <<e, k>> \notin acked

EventuallyLogged ==
    \A e \in Events : status[e] = "pending" ~> (Exhausted(e) \/ \E b \in Contents : logs[e][b] > 0)
=============================================================================
