--------------------------- MODULE ServicesProofs ---------------------------
(***************************************************************************)
(* ActorsAreOwn of Transactions, for any number of connections, callers    *)
(* and principals: the invariant says which connection a caller has to     *)
(* itself, and what the session variable of that connection is at each     *)
(* stage of Within.                                                        *)
(*                                                                         *)
(* AccountsAreSound of ServiceAccounts, for any number of authentications  *)
(* and any bound of failures: the invariant says what an authentication    *)
(* may still believe of the row it has read, and in which epoch the tokens *)
(* of a generation were handed out.                                        *)
(*                                                                         *)
(* ReadsAreCurrent and PublishesWhatWasReviewed, of the configuration, the *)
(* cached users and tenants and the lifecycle of policies: each invariant  *)
(* says what a reader, a cache or a transaction may hold relative to the   *)
(* row, which only grows in version.                                       *)
(*                                                                         *)
(* For listings it says which of the rows that a walk began with the       *)
(* client must have seen: those whose rank in the total order is below     *)
(* what it has read.                                                       *)
(***************************************************************************)
EXTENDS Transactions, ServiceAccounts, Services, Integers, Sequences, FiniteSetTheorems, SequenceTheorems,
        TLAPS

-----------------------------------------------------------------------------
(* Transactions.                                                           *)

Name == Actor \cup {Nobody}

Session == [state : {"pooled", "taken", "gone"}, actor : Name]

Busy == [pc : {"set", "fn", "clear", "commit", "cleanup"}, conn : Connection, actor : Name,
         cancelled : BOOLEAN, mysqlActorSet : BOOLEAN]

TxTypeOK == /\ dialect \in {"mysql", "postgres"}
            /\ conn \in [Connection -> Session]
            /\ work \in [Work -> {NoWork} \cup Busy]

\* A call x of Within that has the session k of a database db: the session is taken, nobody's name is on it
\* before it is set, the caller's is while fn runs, and in MySQL none once it no longer counts
\* as set.
Holds(db, x, k) ==
    /\ k.state = "taken"
    /\ x.pc = "set" => k.actor = Nobody
    /\ x.pc \in {"fn", "clear"} => k.actor = x.actor
    /\ db = "mysql" /\ x.pc \in {"set", "fn", "clear"} => x.mysqlActorSet
    /\ db = "mysql" /\ ~x.mysqlActorSet => k.actor = Nobody

\* Every caller of Within has a connection to itself, and the session as Holds says.
Owned ==
    /\ \A w \in Work : work[w] \in Busy => Holds(dialect, work[w], conn[work[w].conn])
    /\ \A v, w \in Work : work[v] \in Busy /\ work[w] \in Busy /\ v # w => work[v].conn # work[w].conn

TxInv == TxTypeOK /\ Owned /\ ActorsAreOwn

-----------------------------------------------------------------------------

\* A step of one caller: it touches no call but w and no connection but d, which no other
\* caller has.
LEMMA CallerStep ==
    ASSUME TxInv, NEW w \in Work, NEW d \in Connection, UNCHANGED dialect,
           work' \in [Work -> {NoWork} \cup Busy], conn' \in [Connection -> Session],
           \A v \in Work : v # w => work'[v] = work[v] /\ (work[v] \in Busy => work[v].conn # d),
           \A e \in Connection : e # d => conn'[e] = conn[e],
           work'[w] \in Busy => work'[w].conn = d /\ Holds(dialect, work'[w], conn'[d]),
           conn'[d].state = "pooled" => conn'[d].actor = Nobody,
           \A s \in signed' : s[1] = s[2]
    PROVE  TxInv'
<1>1. TxTypeOK'
  BY DEF TxInv, TxTypeOK
<1>2. ASSUME NEW v \in Work, work'[v] \in Busy PROVE Holds(dialect, work'[v], conn'[work'[v].conn])
  <2>1. CASE v = w
    BY <1>2, <2>1
  <2>2. CASE v # w
    <3>1. work'[v] = work[v] /\ work[v].conn # d /\ work[v].conn \in Connection
      BY <1>2, <2>2 DEF Busy
    <3>2. conn'[work[v].conn] = conn[work[v].conn]
      BY <3>1
    <3>3. Holds(dialect, work[v], conn[work[v].conn])
      BY <1>2, <3>1 DEF TxInv, Owned
    <3> QED
      BY <3>1, <3>2, <3>3
  <2> QED
    BY <2>1, <2>2
<1>3. ASSUME NEW u \in Work, NEW v \in Work, work'[u] \in Busy, work'[v] \in Busy, u # v
      PROVE  work'[u].conn # work'[v].conn
  <2>1. CASE u # w /\ v # w
    BY <1>3, <2>1 DEF TxInv, Owned
  <2>2. CASE u = w \/ v = w
    BY <1>3, <2>2
  <2> QED
    BY <2>1, <2>2
<1>4. ActorsAreOwn'
  BY DEF TxInv, ActorsAreOwn
<1> QED
  BY <1>1, <1>2, <1>3, <1>4 DEF TxInv, Owned

\* A caller that is not idle has a connection, which no other caller has.
LEMMA BusyCaller ==
    ASSUME TxInv, NEW w \in Work, work[w].pc # "idle"
    PROVE  /\ work[w] \in Busy /\ Of(w) \in Connection
           /\ Holds(dialect, work[w], conn[Of(w)])
           /\ \A v \in Work : v # w => (work[v] \in Busy => work[v].conn # Of(w))
<1>1. work[w] \in Busy
  BY DEF TxInv, TxTypeOK, NoWork
<1>2. Of(w) \in Connection
  BY <1>1 DEF Busy, Of
<1> QED
  BY <1>1, <1>2 DEF TxInv, Owned, Of

\* A step of Within (pc) changes the stage of the caller and leaves the rest of its record.
LEMMA StageField ==
    ASSUME NEW x \in Busy, NEW p \in {"set", "fn", "clear", "commit", "cleanup"}
    PROVE  /\ [x EXCEPT !.pc = p] \in Busy
           /\ [x EXCEPT !.pc = p].pc = p
           /\ [x EXCEPT !.pc = p].conn = x.conn
           /\ [x EXCEPT !.pc = p].actor = x.actor
           /\ [x EXCEPT !.pc = p].mysqlActorSet <=> x.mysqlActorSet
  BY DEF Busy

\* A cancelled context changes the flag of the caller only.
LEMMA CancelledField ==
    ASSUME NEW x \in Busy
    PROVE  /\ [x EXCEPT !.cancelled = TRUE] \in Busy
           /\ [x EXCEPT !.cancelled = TRUE].pc = x.pc
           /\ [x EXCEPT !.cancelled = TRUE].conn = x.conn
           /\ [x EXCEPT !.cancelled = TRUE].actor = x.actor
           /\ [x EXCEPT !.cancelled = TRUE].mysqlActorSet <=> x.mysqlActorSet
  BY DEF Busy

\* After clearing, the caller is about to commit and the variable does not count as set.
LEMMA MarkFields ==
    ASSUME NEW x \in Busy
    PROVE  /\ [x EXCEPT !.pc = "commit", !.mysqlActorSet = FALSE] \in Busy
           /\ [x EXCEPT !.pc = "commit", !.mysqlActorSet = FALSE].pc = "commit"
           /\ [x EXCEPT !.pc = "commit", !.mysqlActorSet = FALSE].conn = x.conn
           /\ [x EXCEPT !.pc = "commit", !.mysqlActorSet = FALSE].actor = x.actor
           /\ ~[x EXCEPT !.pc = "commit", !.mysqlActorSet = FALSE].mysqlActorSet
  BY DEF Busy

\* Setting the variable of a session keeps its place in the pool.
LEMMA ActorField ==
    ASSUME NEW k \in Session, NEW n \in Name
    PROVE  /\ [k EXCEPT !.actor = n] \in Session
           /\ [k EXCEPT !.actor = n].actor = n
           /\ [k EXCEPT !.actor = n].state = k.state
  BY DEF Session

\* Taking, returning or dropping a connection keeps the variable of its session.
LEMMA StateField ==
    ASSUME NEW k \in Session, NEW s \in {"pooled", "taken", "gone"}
    PROVE  /\ [k EXCEPT !.state = s] \in Session
           /\ [k EXCEPT !.state = s].state = s
           /\ [k EXCEPT !.state = s].actor = k.actor
  BY DEF Session

\* A caller goes on: its call becomes x, its session k.
LEMMA GoesOn ==
    ASSUME TxInv, NEW w \in Work, work[w].pc # "idle", NEW x \in Busy, NEW k \in Session,
           work' = [work EXCEPT ![w] = x], conn' = [conn EXCEPT ![Of(w)] = k],
           x.conn = Of(w), Holds(dialect, x, k), UNCHANGED dialect, \A s \in signed' : s[1] = s[2]
    PROVE  TxInv'
<1>1. work' \in [Work -> {NoWork} \cup Busy] /\ conn' \in [Connection -> Session]
  BY DEF TxInv, TxTypeOK
<1>2. work'[w] = x /\ \A v \in Work : v # w => work'[v] = work[v]
  BY DEF TxInv, TxTypeOK
<1>3. conn'[Of(w)] = k /\ \A e \in Connection : e # Of(w) => conn'[e] = conn[e]
  BY BusyCaller DEF TxInv, TxTypeOK
<1>4. conn'[Of(w)].state = "pooled" => conn'[Of(w)].actor = Nobody
  BY <1>3 DEF Holds
<1> QED
  BY <1>1, <1>2, <1>3, <1>4, BusyCaller, CallerStep

\* A caller goes on and leaves its session alone.
LEMMA GoesOnAlone ==
    ASSUME TxInv, NEW w \in Work, work[w].pc # "idle", NEW x \in Busy,
           work' = [work EXCEPT ![w] = x], UNCHANGED <<dialect, conn>>,
           x.conn = Of(w), Holds(dialect, x, conn[Of(w)]), \A s \in signed' : s[1] = s[2]
    PROVE  TxInv'
<1>1. conn[Of(w)] \in Session /\ conn' = [conn EXCEPT ![Of(w)] = conn[Of(w)]]
  BY BusyCaller DEF TxInv, TxTypeOK
<1> QED
  BY <1>1, GoesOn

-----------------------------------------------------------------------------

\* BeginTx takes a connection that waits in the pool, so nobody has it and it carries no name.
LEMMA BeginKeeps ==
    ASSUME TxInv, NEW w \in Work, NEW c \in Connection, NEW actor \in Name, BeginTx(w, c, actor)
    PROVE  TxInv'
<1> DEFINE x == [pc |-> "set", conn |-> c, actor |-> actor, cancelled |-> FALSE,
                 mysqlActorSet |-> dialect = "mysql"]
           k == [conn[c] EXCEPT !.state = "taken"]
<1>1. work' = [work EXCEPT ![w] = x] /\ conn' = [conn EXCEPT ![c] = k]
  BY DEF BeginTx
<1>2. conn[c] \in Session /\ conn[c].actor = Nobody
  BY DEF TxInv, TxTypeOK, BeginTx, ActorsAreOwn
<1>3. k \in Session /\ k.state = "taken" /\ k.actor = Nobody
  BY <1>2, StateField
<1>4. x \in Busy
  BY DEF Busy
<1>5. Holds(dialect, x, k)
  BY <1>3 DEF Holds
<1> HIDE DEF x, k
<1>6. work' \in [Work -> {NoWork} \cup Busy] /\ conn' \in [Connection -> Session]
  BY <1>1, <1>3, <1>4 DEF TxInv, TxTypeOK
<1>7. work'[w] = x /\ \A v \in Work : v # w => work'[v] = work[v]
  BY <1>1 DEF TxInv, TxTypeOK
<1>8. conn'[c] = k /\ \A e \in Connection : e # c => conn'[e] = conn[e]
  BY <1>1 DEF TxInv, TxTypeOK
<1>9. \A v \in Work : work[v] \in Busy => work[v].conn # c
  BY DEF TxInv, Owned, Holds, BeginTx
<1>10. x.conn = c
  BY DEF x
<1>11. UNCHANGED <<dialect, signed>> /\ \A s \in signed : s[1] = s[2]
  BY DEF BeginTx, TxInv, ActorsAreOwn
<1> QED
  BY <1>3, <1>5, <1>6, <1>7, <1>8, <1>9, <1>10, <1>11, CallerStep

\* A context that ends changes neither the stage nor the session.
LEMMA ContextKeeps ==
    ASSUME TxInv, NEW w \in Work, ContextEnds(w)
    PROVE  TxInv'
<1> DEFINE x == [work[w] EXCEPT !.cancelled = TRUE]
<1>1. work' = [work EXCEPT ![w] = x]
  BY DEF ContextEnds
<1>2. work[w].pc # "idle" /\ UNCHANGED <<dialect, conn, signed>>
  BY DEF ContextEnds
<1>3. /\ x \in Busy /\ x.pc = work[w].pc /\ x.conn = Of(w) /\ x.actor = work[w].actor
      /\ x.mysqlActorSet <=> work[w].mysqlActorSet
  BY <1>2, BusyCaller, CancelledField DEF Of
<1> HIDE DEF x
<1>4. Holds(dialect, x, conn[Of(w)])
  BY <1>2, <1>3, BusyCaller DEF Holds
<1>5. \A s \in signed' : s[1] = s[2]
  BY <1>2 DEF TxInv, ActorsAreOwn
<1> QED
  BY <1>1, <1>2, <1>3, <1>4, <1>5, GoesOnAlone

\* A caller takes the step to p and changes nothing else.  What the session must be at p is
\* what it is.
LEMMA StepsKeeps ==
    ASSUME TxInv, NEW w \in Work, work[w].pc # "idle", NEW p \in {"clear", "commit", "cleanup"},
           p = "clear" => work[w].pc = "fn",
           work' = Steps(w, p), UNCHANGED <<dialect, conn>>, \A s \in signed' : s[1] = s[2]
    PROVE  TxInv'
<1> DEFINE x == [work[w] EXCEPT !.pc = p]
<1>1. work' = [work EXCEPT ![w] = x]
  BY DEF Steps
<1>2. /\ x \in Busy /\ x.pc = p /\ x.conn = Of(w) /\ x.actor = work[w].actor
      /\ x.mysqlActorSet <=> work[w].mysqlActorSet
  <2>1. work[w] \in Busy /\ p \in {"set", "fn", "clear", "commit", "cleanup"}
    BY BusyCaller
  <2> QED
    BY <2>1, StageField DEF Of
<1> HIDE DEF x
<1>3. Holds(dialect, x, conn[Of(w)])
  BY <1>2, BusyCaller DEF Holds
<1> QED
  BY <1>1, <1>2, <1>3, GoesOnAlone

\* The statement sets the caller's name, whether it reports an error or not.
LEMMA AssignKeeps ==
    ASSUME TxInv, NEW w \in Work, work[w].pc = "set", NEW p \in {"fn", "cleanup"},
           work' = Steps(w, p), conn' = Assign(w, work[w].actor), UNCHANGED <<dialect, signed>>
    PROVE  TxInv'
<1> DEFINE x == [work[w] EXCEPT !.pc = p]
           k == [conn[Of(w)] EXCEPT !.actor = work[w].actor]
<1>1. work' = [work EXCEPT ![w] = x] /\ conn' = [conn EXCEPT ![Of(w)] = k]
  BY DEF Steps, Assign
<1>2. /\ work[w] \in Busy /\ work[w].actor \in Name /\ conn[Of(w)] \in Session
      /\ Holds(dialect, work[w], conn[Of(w)])
  BY BusyCaller DEF Busy, TxInv, TxTypeOK
<1>3. /\ x \in Busy /\ x.pc = p /\ x.conn = Of(w) /\ x.actor = work[w].actor
      /\ x.mysqlActorSet <=> work[w].mysqlActorSet
  <2>1. p \in {"set", "fn", "clear", "commit", "cleanup"}
    OBVIOUS
  <2> QED
    BY <1>2, <2>1, StageField DEF Of
<1>4. k \in Session /\ k.actor = work[w].actor /\ k.state = conn[Of(w)].state
  BY <1>2, ActorField
<1> HIDE DEF x, k
<1>5. Holds(dialect, x, k)
  BY <1>2, <1>3, <1>4 DEF Holds
<1>6. \A s \in signed' : s[1] = s[2]
  BY DEF TxInv, ActorsAreOwn
<1> QED
  BY <1>1, <1>3, <1>4, <1>5, <1>6, GoesOn

\* setAuditActor: applied and reported, applied and failed, or not applied.
LEMMA SetKeeps ==
    ASSUME TxInv, NEW w \in Work, setAuditActor(w)
    PROVE  TxInv'
<1>1. work[w].pc = "set" /\ UNCHANGED <<dialect, signed>>
  BY DEF setAuditActor
<1>2. \A s \in signed' : s[1] = s[2]
  BY <1>1 DEF TxInv, ActorsAreOwn
<1>3. CASE conn' = Assign(w, work[w].actor) /\ work' = Steps(w, "fn")
  BY <1>1, <1>3, AssignKeeps
<1>4. CASE conn' = Assign(w, work[w].actor) /\ work' = Steps(w, "cleanup")
  BY <1>1, <1>4, AssignKeeps
<1>5. CASE conn' = conn /\ work' = Steps(w, "cleanup")
  BY <1>1, <1>2, <1>5, StepsKeeps
<1> QED
  BY <1>3, <1>4, <1>5 DEF setAuditActor, SetFailed

\* The row is signed with the name on the session, which is the caller's.
LEMMA FnKeeps ==
    ASSUME TxInv, NEW w \in Work, Fn(w)
    PROVE  TxInv'
<1>1. work[w].pc = "fn" /\ UNCHANGED <<dialect, conn>>
  BY DEF Fn
<1>2. conn[Of(w)].actor = work[w].actor
  BY <1>1, BusyCaller DEF Holds
<1>3. \A s \in signed : s[1] = s[2]
  BY DEF TxInv, ActorsAreOwn
<1>4. CASE /\ signed' = {<<work[w].actor, conn[Of(w)].actor>>} \cup {s \in signed : s[1] # work[w].actor}
           /\ work' = Steps(w, "clear")
  <2>1. \A s \in signed' : s[1] = s[2]
    BY <1>2, <1>3, <1>4
  <2> QED
    BY <1>1, <1>4, <2>1, StepsKeeps
<1>5. CASE work' = Steps(w, "cleanup") /\ UNCHANGED signed
  BY <1>1, <1>3, <1>5, StepsKeeps
<1> QED
  BY <1>4, <1>5 DEF Fn

\* Clear: the name is gone before the variable stops counting as set.
LEMMA ClearKeeps ==
    ASSUME TxInv, NEW w \in Work, Clear(w)
    PROVE  TxInv'
<1>1. work[w].pc = "clear" /\ UNCHANGED <<dialect, signed>>
  BY DEF Clear
<1>2. \A s \in signed' : s[1] = s[2]
  BY <1>1 DEF TxInv, ActorsAreOwn
<1>3. CASE conn' = Assign(w, Nobody) /\ work' = [work EXCEPT ![w].pc = "commit", ![w].mysqlActorSet = FALSE]
  <2> DEFINE x == [work[w] EXCEPT !.pc = "commit", !.mysqlActorSet = FALSE]
             k == [conn[Of(w)] EXCEPT !.actor = Nobody]
  <2>1. work' = [work EXCEPT ![w] = x]
    BY <1>3 DEF TxInv, TxTypeOK
  <2>2. conn' = [conn EXCEPT ![Of(w)] = k]
    BY <1>3 DEF Assign
  <2>3. conn[Of(w)] \in Session /\ Nobody \in Name /\ conn[Of(w)].state = "taken"
    BY <1>1, BusyCaller DEF TxInv, TxTypeOK, Name, Holds
  <2>4. x \in Busy /\ x.pc = "commit" /\ x.conn = Of(w)
    BY <1>1, BusyCaller, MarkFields DEF Of
  <2>5. k \in Session /\ k.actor = Nobody /\ k.state = "taken"
    BY <2>3, ActorField
  <2> HIDE DEF x, k
  <2>6. Holds(dialect, x, k)
    BY <2>4, <2>5 DEF Holds
  <2> QED
    BY <1>1, <1>2, <2>1, <2>2, <2>4, <2>5, <2>6, GoesOn
<1>4. CASE conn' = conn /\ (work' = Steps(w, "cleanup") \/ work' = Steps(w, "commit"))
  BY <1>1, <1>2, <1>4, StepsKeeps
<1> QED
  BY <1>3, <1>4 DEF Clear

\* Commit touches no session.
LEMMA CommitKeeps ==
    ASSUME TxInv, NEW w \in Work, Commit(w)
    PROVE  TxInv'
<1>1. work[w].pc = "commit" /\ work' = Steps(w, "cleanup") /\ UNCHANGED <<dialect, conn, signed>>
  BY DEF Commit
<1>2. \A s \in signed' : s[1] = s[2]
  BY <1>1 DEF TxInv, ActorsAreOwn
<1> QED
  BY <1>1, <1>2, StepsKeeps

\* A session k goes back to the pool or is dropped, and its caller is idle again.
LEMMA CleanupKeeps ==
    ASSUME TxInv, NEW w \in Work, Cleanup(w)
    PROVE  TxInv'
<1>1. work[w].pc = "cleanup" /\ work' = [work EXCEPT ![w] = NoWork] /\ UNCHANGED <<dialect, signed>>
  BY DEF Cleanup
<1>2. /\ Of(w) \in Connection /\ conn[Of(w)] \in Session /\ Holds(dialect, work[w], conn[Of(w)])
      /\ \A v \in Work : v # w => (work[v] \in Busy => work[v].conn # Of(w))
  BY <1>1, BusyCaller DEF TxInv, TxTypeOK
<1>3. PICK k \in Session : /\ conn' = [conn EXCEPT ![Of(w)] = k]
                           /\ k.state = "pooled" => k.actor = Nobody
  <2>1. CASE /\ ~work[w].mysqlActorSet
             /\ conn' = [conn EXCEPT ![Of(w)] = [state |-> "pooled", actor |-> Forgets(Of(w))]]
    <3>1. Forgets(Of(w)) = Nobody
      BY <1>2, <2>1 DEF Forgets, Holds, TxInv, TxTypeOK
    <3>2. [state |-> "pooled", actor |-> Forgets(Of(w))] \in Session
      BY <3>1 DEF Session, Name
    <3> QED
      BY <2>1, <3>1, <3>2
  <2>2. CASE conn' = [conn EXCEPT ![Of(w)] = [state |-> "pooled", actor |-> Nobody]]
    <3>1. [state |-> "pooled", actor |-> Nobody] \in Session
      BY DEF Session, Name
    <3> QED
      BY <2>2, <3>1
  <2>3. CASE conn' = [conn EXCEPT ![Of(w)].state = Uncleared]
    <3>1. /\ [conn[Of(w)] EXCEPT !.state = "gone"] \in Session
          /\ [conn[Of(w)] EXCEPT !.state = "gone"].state = "gone"
      BY <1>2, StateField
    <3>2. conn' = [conn EXCEPT ![Of(w)] = [conn[Of(w)] EXCEPT !.state = "gone"]]
      BY <2>3 DEF Uncleared
    <3> QED
      BY <3>1, <3>2
  <2> QED
    BY <2>1, <2>2, <2>3 DEF Cleanup
<1>4. work' \in [Work -> {NoWork} \cup Busy] /\ conn' \in [Connection -> Session]
  BY <1>1, <1>3 DEF TxInv, TxTypeOK
<1>5. work'[w] = NoWork /\ \A v \in Work : v # w => work'[v] = work[v]
  BY <1>1 DEF TxInv, TxTypeOK
<1>6. conn'[Of(w)] = k /\ \A e \in Connection : e # Of(w) => conn'[e] = conn[e]
  BY <1>2, <1>3 DEF TxInv, TxTypeOK
<1>7. NoWork \notin Busy
  BY DEF NoWork, Busy
<1>8. \A s \in signed' : s[1] = s[2]
  BY <1>1 DEF TxInv, ActorsAreOwn
<1> QED
  BY <1>1, <1>2, <1>3, <1>4, <1>5, <1>6, <1>7, <1>8, CallerStep

\* A connection that nobody has is replaced by a new one.
LEMMA ReconnectKeeps ==
    ASSUME TxInv, NEW c \in Connection, Reconnect(c)
    PROVE  TxInv'
<1> DEFINE k == [state |-> "pooled", actor |-> Nobody]
<1>1. k \in Session
  BY DEF Session, Name
<1>2. conn' = [conn EXCEPT ![c] = k] /\ UNCHANGED <<dialect, work, signed>>
  BY DEF Reconnect
<1>3. conn'[c] = k /\ \A e \in Connection : e # c => conn'[e] = conn[e]
  BY <1>2 DEF TxInv, TxTypeOK
<1>4. TxTypeOK'
  BY <1>1, <1>2 DEF TxInv, TxTypeOK
<1>5. \A v \in Work : work[v] \in Busy => work[v].conn # c /\ work[v].conn \in Connection
  BY DEF TxInv, Owned, Holds, Reconnect, Busy
<1>6. Owned'
  BY <1>2, <1>3, <1>5 DEF TxInv, Owned
<1>7. ActorsAreOwn'
  BY <1>2, <1>3 DEF TxInv, ActorsAreOwn
<1> QED
  BY <1>4, <1>6, <1>7 DEF TxInv

-----------------------------------------------------------------------------

\* A pool of fresh connections and no caller satisfy the invariant.
LEMMA TxInitially ==
    TxInit => TxInv
<1> SUFFICES ASSUME TxInit PROVE TxInv
  OBVIOUS
<1>1. NoWork \notin Busy
  BY DEF NoWork, Busy
<1>2. TxTypeOK
  BY DEF TxInit, TxTypeOK, Session, Name
<1>3. Owned /\ ActorsAreOwn
  BY <1>1 DEF TxInit, Owned, ActorsAreOwn
<1> QED
  BY <1>2, <1>3 DEF TxInv

\* Transactor.Within keeps the invariant from the first call on: every step of every caller,
\* cancelled at any moment, with statements that fail after they were applied.
THEOREM TxInvariance == TxSpec => []TxInv
<1>1. TxInv /\ [TxNext]_txVars => TxInv'
  <2> SUFFICES ASSUME TxInv, [TxNext]_txVars PROVE TxInv'
    OBVIOUS
  <2>1. CASE UNCHANGED txVars
    BY <2>1 DEF txVars, TxInv, TxTypeOK, Owned, ActorsAreOwn
  <2>2. ASSUME NEW w \in Work, NEW c \in Connection, NEW actor \in Actor \cup {Nobody}, BeginTx(w, c, actor)
        PROVE TxInv'
    BY <2>2, BeginKeeps DEF Name
  <2>3. ASSUME NEW w \in Work, \/ ContextEnds(w) \/ setAuditActor(w) \/ Fn(w) \/ Clear(w)
                               \/ Commit(w) \/ Cleanup(w)
        PROVE TxInv'
    BY <2>3, ContextKeeps, SetKeeps, FnKeeps, ClearKeeps, CommitKeeps, CleanupKeeps
  <2>4. ASSUME NEW c \in Connection, Reconnect(c) PROVE TxInv'
    BY <2>4, ReconnectKeeps
  <2> QED
    BY <2>1, <2>2, <2>3, <2>4 DEF TxNext
<1> QED
  BY <1>1, TxInitially, PTL DEF TxSpec

\* ActorsAreOwn: whoever Within runs for, every row is signed by its writer, and no connection
\* returns to the pool with a name on it.
THEOREM ActorsHold == TxSpec => []ActorsAreOwn
<1>1. TxInv => ActorsAreOwn
  BY DEF TxInv
<1> QED
  BY <1>1, TxInvariance, PTL

-----------------------------------------------------------------------------
(* Service accounts.                                                       *)

\* The row of an account.
Account == [live : BOOLEAN, status : Status, expires : {"never", "later", "past"}, secret : Nat,
            generation : Nat, failed : Nat, locked : BOOLEAN, version : Nat]

AccountOK == account \in Account /\ epoch \in Nat /\ wrong \in Nat

\* The failures of the row were counted against its current secret.
CountOK == /\ account.failed <= wrong
           /\ LockIsEarned

\* What an authentication has read.
Reading == [on : {TRUE}, valid : BOOLEAN, secret : Nat, version : Nat, generation : Nat]

\* It is what the row had at that version, and never ahead of the row.
ReadOK(x) == x.on => /\ x.version <= account.version
                     /\ x.version = account.version => x.generation = account.generation

AttemptsOK == /\ attempt \in [Attempt -> {NoAttempt} \cup Reading]
              /\ \A a \in Attempt : ReadOK(attempt[a])

\* A token of the current generation was handed out in the current epoch, unless the account is
\* unusable, which ends its generation before it is usable again.
TokensOK == /\ token \subseteq [generation : Nat, epoch : Nat]
            /\ \A t \in token : /\ t.generation <= account.generation
                                /\ t.generation = account.generation /\ Usable => t.epoch = epoch

AccountsInv == AccountOK /\ CountOK /\ AttemptsOK /\ TokensOK

-----------------------------------------------------------------------------

\* The claims of tokens.
LEMMA ClaimsAgree == IssuedIsAccepted
<1> SUFFICES ASSUME NEW c \in Claims
             PROVE  (issuePrincipal(c) => Parse(c)) /\ (Parse(c) => verifyRemote(c))
  BY DEF IssuedIsAccepted
<1> QED
  BY DEF issuePrincipal, Parse, verifyRemote, UserContext, AccountContext, Claims

\* A statement writes the row it names and increments the version.
LEMMA Written ==
    ASSUME account \in Account, NEW row \in Account, Write(row)
    PROVE  /\ account' \in Account
           /\ account'.version = account.version + 1
           /\ account'.live = row.live /\ account'.status = row.status
           /\ account'.expires = row.expires /\ account'.secret = row.secret
           /\ account'.generation = row.generation /\ account'.failed = row.failed
           /\ account'.locked = row.locked
<1> QED
  BY DEF Write, Account

\* What authentications have read ages well: it ends, or the row has a later version, or the
\* row has the generation it had.
LEMMA ReadsAge ==
    ASSUME account \in Account, account' \in Account, AttemptsOK,
           attempt' \in [Attempt -> {NoAttempt} \cup Reading],
           \A b \in Attempt : attempt'[b] = attempt[b] \/ attempt'[b] = NoAttempt,
           \/ account'.version = account.version + 1
           \/ account'.version = account.version /\ account'.generation = account.generation
    PROVE  AttemptsOK'
<1> SUFFICES ASSUME NEW b \in Attempt PROVE ReadOK(attempt[b])'
  BY DEF AttemptsOK
<1>1. CASE attempt'[b] = NoAttempt
  BY <1>1 DEF ReadOK, NoAttempt
<1>2. CASE attempt'[b] = attempt[b] /\ attempt[b] # NoAttempt
  <2>1. attempt[b] \in Reading /\ ReadOK(attempt[b])
    BY <1>2 DEF AttemptsOK
  <2>2. /\ account.version \in Nat /\ account'.version \in Nat /\ attempt[b].version \in Nat
    BY <2>1 DEF Account, Reading
  <2> QED
    BY <1>2, <2>1, <2>2 DEF ReadOK
<1> QED
  BY <1>1, <1>2

\* The same of the tokens: the generation and the epoch stay, or the generation ends, or the
\* account is unusable from now on.
LEMMA TokensAge ==
    ASSUME account \in Account, account' \in Account, TokensOK, token' = token,
           \/ account'.generation = account.generation + 1
           \/ account'.generation = account.generation /\ epoch' = epoch /\ Usable' = Usable
           \/ account'.generation = account.generation /\ ~Usable'
    PROVE  TokensOK'
<1>1. account.generation \in Nat /\ account'.generation \in Nat
  BY DEF Account
<1> SUFFICES ASSUME NEW t \in token
             PROVE  /\ t.generation <= account'.generation
                    /\ t.generation = account'.generation /\ Usable' => t.epoch = epoch'
  BY DEF TokensOK
<1>2. /\ t.generation \in Nat /\ t.generation <= account.generation
      /\ t.generation = account.generation /\ Usable => t.epoch = epoch
  BY DEF TokensOK
<1> QED
  BY <1>1, <1>2

\* A new account has no tokens and no failures.
LEMMA AccountsInitial == AccountsInit => AccountsInv
  BY AccountsAssumption DEF AccountsInit, AccountsInv, AccountOK, Account, CountOK, LockIsEarned, AttemptsOK, ReadOK,
     TokensOK, Status, NoAttempt

-----------------------------------------------------------------------------

\* Update of an account: a change of status or expiry begins a generation, so that no older token
\* belongs to it; otherwise epoch and generation stay.
LEMMA UpdateKeeps ==
    ASSUME AccountsInv, NEW v, NEW s \in Status, NEW x \in {"never", "later"}, Update(v, s, x)
    PROVE  AccountsInv'
<1> DEFINE row == [account EXCEPT !.generation = NextGeneration(s, x), !.status = s, !.expires = x]
<1>1. account \in Account /\ epoch \in Nat /\ wrong \in Nat
  BY DEF AccountsInv, AccountOK
<1>2. NextGeneration(s, x) \in Nat
  BY <1>1 DEF NextGeneration, Account
<1>3. /\ row \in Account
      /\ row.generation = NextGeneration(s, x) /\ row.status = s /\ row.expires = x
      /\ row.live = account.live /\ row.failed = account.failed /\ row.locked = account.locked
  BY <1>1, <1>2 DEF Account
<1>4. Write(row) /\ UNCHANGED <<attempt, token, wrong, setOrder>>
  BY DEF Update
<1> HIDE DEF row
<1>5. /\ account' \in Account /\ account'.version = account.version + 1
      /\ account'.live = account.live /\ account'.status = s /\ account'.expires = x
      /\ account'.generation = NextGeneration(s, x)
      /\ account'.failed = account.failed /\ account'.locked = account.locked
  BY <1>1, <1>3, <1>4, Written
<1>6. AccountOK' /\ CountOK'
  BY <1>1, <1>4, <1>5 DEF AccountsInv, AccountOK, CountOK, LockIsEarned, Update
<1>7. AttemptsOK'
  BY <1>1, <1>4, <1>5, ReadsAge DEF AccountsInv, AttemptsOK
<1>8. TokensOK'
  <2>1. CASE s = account.status /\ x = account.expires
    <3>1. account'.generation = account.generation /\ epoch' = epoch
      BY <2>1, <1>5 DEF NextGeneration, Update
    <3>2. Usable' = Usable
      BY <2>1, <1>5 DEF Usable
    <3> QED
      BY <1>1, <1>4, <1>5, <3>1, <3>2, TokensAge DEF AccountsInv
  <2>2. CASE ~(s = account.status /\ x = account.expires)
    BY <1>1, <1>4, <1>5, <2>2, TokensAge DEF AccountsInv, NextGeneration
  <2> QED
    BY <2>1, <2>2
<1> QED
  BY <1>6, <1>7, <1>8 DEF AccountsInv

\* A new secret begins a generation, and the failures of the old one are forgotten.
LEMMA RotateSecretKeeps ==
    ASSUME AccountsInv, NEW v, RotateSecret(v)
    PROVE  AccountsInv'
<1> DEFINE row == [account EXCEPT !.secret = @ + 1, !.generation = @ + 1, !.failed = 0,
                                  !.locked = FALSE]
<1>1. account \in Account /\ epoch \in Nat /\ wrong \in Nat
  BY DEF AccountsInv, AccountOK
<1>2. /\ row \in Account
      /\ row.generation = account.generation + 1 /\ row.failed = 0 /\ ~row.locked
  <2>1. account.secret + 1 \in Nat /\ account.generation + 1 \in Nat
    BY <1>1 DEF Account
  <2>2. PICK s \in Nat, g \in Nat : s = account.secret + 1 /\ g = account.generation + 1
    BY <2>1
  <2>3. row = [account EXCEPT !.secret = s, !.generation = g, !.failed = 0, !.locked = FALSE]
    BY <2>2
  <2> HIDE DEF row
  <2>4. row \in Account /\ row.generation = g /\ row.failed = 0 /\ row.locked = FALSE
    BY <1>1, <2>3 DEF Account
  <2> QED
    BY <2>2, <2>4
<1>3. Write(row) /\ UNCHANGED <<attempt, token, setOrder>> /\ epoch' = epoch + 1 /\ wrong' = 0
  BY DEF RotateSecret
<1> HIDE DEF row
<1>4. /\ account' \in Account /\ account'.version = account.version + 1
      /\ account'.generation = account.generation + 1
      /\ account'.failed = 0 /\ ~account'.locked
  BY <1>1, <1>2, <1>3, Written
<1>5. AccountOK' /\ CountOK'
  BY <1>1, <1>3, <1>4 DEF AccountOK, CountOK, LockIsEarned
<1>6. AttemptsOK'
  BY <1>1, <1>3, <1>4, ReadsAge DEF AccountsInv, AttemptsOK
<1>7. TokensOK'
  BY <1>1, <1>3, <1>4, TokensAge DEF AccountsInv
<1> QED
  BY <1>5, <1>6, <1>7 DEF AccountsInv

\* A deleted account is unusable for ever.
LEMMA DeleteKeeps ==
    ASSUME AccountsInv, NEW v, Delete(v)
    PROVE  AccountsInv'
<1> DEFINE row == [account EXCEPT !.live = FALSE, !.status = "disabled"]
<1>1. account \in Account /\ epoch \in Nat /\ wrong \in Nat
  BY DEF AccountsInv, AccountOK
<1>2. /\ row \in Account /\ ~row.live
      /\ row.generation = account.generation /\ row.failed = account.failed
      /\ row.locked = account.locked
  BY <1>1 DEF Account, Status
<1>3. Write(row) /\ UNCHANGED <<attempt, token, wrong, setOrder>> /\ epoch' = epoch + 1
  BY DEF Delete
<1> HIDE DEF row
<1>4. /\ account' \in Account /\ account'.version = account.version + 1 /\ ~account'.live
      /\ account'.generation = account.generation
      /\ account'.failed = account.failed /\ account'.locked = account.locked
  BY <1>1, <1>2, <1>3, Written
<1>5. AccountOK' /\ CountOK'
  BY <1>1, <1>3, <1>4 DEF AccountsInv, AccountOK, CountOK, LockIsEarned
<1>6. AttemptsOK'
  BY <1>1, <1>3, <1>4, ReadsAge DEF AccountsInv, AttemptsOK
<1>7. ~Usable'
  BY <1>4 DEF Usable
<1>8. TokensOK'
  BY <1>1, <1>3, <1>4, <1>7, TokensAge DEF AccountsInv
<1> QED
  BY <1>5, <1>6, <1>8 DEF AccountsInv

\* Authenticate reads the generation of the version it reads.
LEMMA AuthenticateKeeps ==
    ASSUME AccountsInv, NEW a \in Attempt, NEW s, Authenticate(a, s)
    PROVE  AccountsInv'
<1> DEFINE x == [on |-> TRUE, valid |-> s = account.secret, secret |-> account.secret,
                 version |-> account.version, generation |-> account.generation]
<1>1. account \in Account /\ attempt \in [Attempt -> {NoAttempt} \cup Reading]
  BY DEF AccountsInv, AccountOK, AttemptsOK
<1>2. UNCHANGED <<account, token, epoch, wrong, setOrder>> /\ attempt' = [attempt EXCEPT ![a] = x]
  BY DEF Authenticate
<1>3. x \in Reading /\ x.version = account.version /\ x.generation = account.generation
  <2>1. account.secret \in Nat /\ account.version \in Nat /\ account.generation \in Nat
    BY <1>1 DEF Account
  <2>2. (s = account.secret) \in BOOLEAN
    OBVIOUS
  <2> QED
    BY <2>1, <2>2 DEF Reading
<1> HIDE DEF x
<1>4. AttemptsOK'
  <2>1. attempt' \in [Attempt -> {NoAttempt} \cup Reading]
    BY <1>1, <1>2, <1>3
  <2>2. ASSUME NEW b \in Attempt PROVE ReadOK(attempt[b])'
    <3>1. CASE b = a
      BY <1>1, <1>2, <1>3, <3>1 DEF ReadOK, Account
    <3>2. CASE b # a
      BY <1>1, <1>2, <3>2 DEF AccountsInv, AttemptsOK, ReadOK
    <3> QED
      BY <3>1, <3>2
  <2> QED
    BY <2>1, <2>2 DEF AttemptsOK
<1> QED
  BY <1>2, <1>4 DEF AccountsInv, AccountOK, CountOK, LockIsEarned, TokensOK, Usable

\* recordFailure: the row counts a failure exactly when its secret was tried.
LEMMA recordFailureKeeps ==
    ASSUME AccountsInv, NEW a \in Attempt, recordFailure(a)
    PROVE  AccountsInv'
<1> DEFINE row == [account EXCEPT !.failed = @ + 1, !.locked = FailedSeen + 1 >= MaxFailed]
           Counted == MaxFailed > 0 /\ Usable /\ ~account.locked /\ ObservedSecret(a)
<1>1. /\ account \in Account /\ epoch \in Nat /\ wrong \in Nat
      /\ attempt \in [Attempt -> {NoAttempt} \cup Reading]
  BY DEF AccountsInv, AccountOK, AttemptsOK
<1>2. UNCHANGED <<token, epoch, setOrder>> /\ attempt' = [attempt EXCEPT ![a] = NoAttempt]
  BY DEF recordFailure
<1>3. /\ attempt' \in [Attempt -> {NoAttempt} \cup Reading]
      /\ \A b \in Attempt : attempt'[b] = attempt[b] \/ attempt'[b] = NoAttempt
  BY <1>1, <1>2
<1>4. CASE Counted
  <2>1. Write(row) /\ wrong' = wrong + 1
    BY <1>4 DEF recordFailure, ObservedSecret
  <2>2. /\ row \in Account
        /\ row.failed = account.failed + 1
        /\ row.locked <=> FailedSeen + 1 >= MaxFailed
        /\ row.generation = account.generation /\ row.live = account.live
        /\ row.status = account.status /\ row.expires = account.expires
    <3>1. account.failed + 1 \in Nat /\ (FailedSeen + 1 >= MaxFailed) \in BOOLEAN
      BY <1>1 DEF Account
    <3>2. PICK n \in Nat, l \in BOOLEAN : n = account.failed + 1 /\ (l <=> FailedSeen + 1 >= MaxFailed)
      BY <3>1
    <3>3. row = [account EXCEPT !.failed = n, !.locked = l]
      BY <3>1, <3>2
    <3> HIDE DEF row
    <3>4. /\ row \in Account /\ row.failed = n /\ row.locked = l
          /\ row.generation = account.generation /\ row.live = account.live
          /\ row.status = account.status /\ row.expires = account.expires
      BY <1>1, <3>3 DEF Account
    <3> QED
      BY <3>2, <3>4
  <2> HIDE DEF row
  <2>3. /\ account' \in Account /\ account'.version = account.version + 1
        /\ account'.failed = account.failed + 1
        /\ account'.locked <=> FailedSeen + 1 >= MaxFailed
        /\ account'.generation = account.generation /\ account'.live = account.live
        /\ account'.status = account.status /\ account'.expires = account.expires
    BY <1>1, <2>1, <2>2, Written
  <2>4. AccountOK'
    BY <1>1, <1>2, <2>1, <2>3 DEF AccountOK
  <2>5. CountOK'
    <3>1. account.failed \in Nat /\ account.failed <= wrong
      BY <1>1 DEF AccountsInv, CountOK, Account
    <3>2. FailedSeen + 1 >= MaxFailed => wrong + 1 >= IF setOrder = "sequential" THEN MaxFailed - 1 ELSE MaxFailed
      BY <1>1, <3>1, AccountsAssumption DEF FailedSeen
    <3> QED
      BY <1>1, <1>2, <2>1, <2>3, <3>1, <3>2, AccountsAssumption DEF CountOK, LockIsEarned
  <2>6. AttemptsOK'
    BY <1>1, <1>3, <2>3, ReadsAge DEF AccountsInv
  <2>7. Usable' = Usable
    BY <2>3 DEF Usable
  <2>8. TokensOK'
    BY <1>1, <1>2, <2>3, <2>7, TokensAge DEF AccountsInv
  <2> QED
    BY <2>4, <2>5, <2>6, <2>8 DEF AccountsInv
<1>5. CASE ~Counted
  <2>1. UNCHANGED <<account, wrong>>
    BY <1>5 DEF recordFailure
  <2>2. AttemptsOK'
    BY <1>1, <1>3, <2>1, ReadsAge DEF AccountsInv
  <2> QED
    BY <1>2, <2>1, <2>2 DEF AccountsInv, AccountOK, CountOK, LockIsEarned, TokensOK, Usable
<1> QED
  BY <1>4, <1>5

\* Issue: the version that was read is still the row's, hence its generation; the token belongs to
\* the current epoch.
LEMMA IssueKeeps ==
    ASSUME AccountsInv, NEW a \in Attempt, Issue(a)
    PROVE  AccountsInv'
<1> DEFINE row == [account EXCEPT !.failed = 0, !.locked = FALSE]
           t == [generation |-> attempt[a].generation, epoch |-> epoch]
<1>1. /\ account \in Account /\ epoch \in Nat /\ wrong \in Nat
      /\ attempt \in [Attempt -> {NoAttempt} \cup Reading]
  BY DEF AccountsInv, AccountOK, AttemptsOK
<1>2. attempt[a].generation = account.generation
  BY DEF AccountsInv, AttemptsOK, ReadOK, Issue, Unchanged
<1>3. /\ row \in Account /\ row.failed = 0 /\ ~row.locked
      /\ row.generation = account.generation /\ row.live = account.live
      /\ row.status = account.status /\ row.expires = account.expires
  BY <1>1 DEF Account
<1>4. /\ Write(row) /\ token' = token \cup {t} /\ wrong' = 0 /\ UNCHANGED <<epoch, setOrder>>
      /\ attempt' = [attempt EXCEPT ![a] = NoAttempt]
  BY DEF Issue
<1>5. t.generation = account.generation /\ t.epoch = epoch /\ t \in [generation : Nat, epoch : Nat]
  BY <1>1, <1>2 DEF Account
<1> HIDE DEF row, t
<1>6. /\ account' \in Account /\ account'.version = account.version + 1
      /\ account'.failed = 0 /\ ~account'.locked
      /\ account'.generation = account.generation /\ account'.live = account.live
      /\ account'.status = account.status /\ account'.expires = account.expires
  BY <1>1, <1>3, <1>4, Written
<1>7. AccountOK' /\ CountOK'
  BY <1>1, <1>4, <1>6 DEF AccountOK, CountOK, LockIsEarned
<1>8. AttemptsOK'
  <2>1. /\ attempt' \in [Attempt -> {NoAttempt} \cup Reading]
        /\ \A b \in Attempt : attempt'[b] = attempt[b] \/ attempt'[b] = NoAttempt
    BY <1>1, <1>4
  <2> QED
    BY <1>1, <1>6, <2>1, ReadsAge DEF AccountsInv
<1>9. TokensOK'
  <2>1. Usable' <=> Usable
    BY <1>6 DEF Usable
  <2>2. account.generation \in Nat
    BY <1>1 DEF Account
  <2> QED
    BY <1>4, <1>5, <1>6, <2>1, <2>2 DEF AccountsInv, TokensOK
<1> QED
  BY <1>7, <1>8, <1>9 DEF AccountsInv

\* An authentication that ends leaves the row alone.
LEMMA RejectKeeps ==
    ASSUME AccountsInv, NEW a \in Attempt, Reject(a)
    PROVE  AccountsInv'
<1>1. /\ UNCHANGED <<account, token, epoch, wrong, setOrder>>
      /\ attempt' = [attempt EXCEPT ![a] = NoAttempt]
  BY DEF Reject
<1>2. /\ attempt' \in [Attempt -> {NoAttempt} \cup Reading]
      /\ \A b \in Attempt : attempt'[b] = attempt[b] \/ attempt'[b] = NoAttempt
  BY <1>1 DEF AccountsInv, AttemptsOK
<1>3. AttemptsOK'
  BY <1>1, <1>2, ReadsAge DEF AccountsInv, AccountOK
<1> QED
  BY <1>1, <1>3 DEF AccountsInv, AccountOK, CountOK, LockIsEarned, TokensOK, Usable

\* An expired account is unusable until an Update changes its expiry.
LEMMA ExpiresKeeps ==
    ASSUME AccountsInv, Expires
    PROVE  AccountsInv'
<1>1. account \in Account /\ epoch \in Nat /\ wrong \in Nat
  BY DEF AccountsInv, AccountOK
<1>2. UNCHANGED <<attempt, token, wrong, setOrder>> /\ epoch' = epoch + 1
  BY DEF Expires
<1>3. /\ account' \in Account /\ account'.expires = "past"
      /\ account'.version = account.version /\ account'.generation = account.generation
      /\ account'.failed = account.failed /\ account'.locked = account.locked
  BY <1>1 DEF Expires, Account
<1>4. AccountOK' /\ CountOK'
  BY <1>1, <1>2, <1>3 DEF AccountsInv, AccountOK, CountOK, LockIsEarned
<1>5. AttemptsOK'
  BY <1>1, <1>2, <1>3, ReadsAge DEF AccountsInv, AttemptsOK
<1>6. ~Usable'
  BY <1>3 DEF Usable
<1>7. TokensOK'
  BY <1>1, <1>2, <1>3, <1>6, TokensAge DEF AccountsInv
<1> QED
  BY <1>4, <1>5, <1>7 DEF AccountsInv

\* The end of a lock changes neither generation nor count.
LEMMA LockEndsKeeps ==
    ASSUME AccountsInv, LockEnds
    PROVE  AccountsInv'
<1>1. account \in Account /\ epoch \in Nat /\ wrong \in Nat
  BY DEF AccountsInv, AccountOK
<1>2. UNCHANGED <<attempt, token, epoch, wrong, setOrder>>
  BY DEF LockEnds
<1>3. /\ account' \in Account /\ ~account'.locked
      /\ account'.version = account.version /\ account'.generation = account.generation
      /\ account'.failed = account.failed /\ account'.live = account.live
      /\ account'.status = account.status /\ account'.expires = account.expires
  BY <1>1 DEF LockEnds, Account
<1>4. AccountOK' /\ CountOK'
  BY <1>1, <1>2, <1>3 DEF AccountsInv, AccountOK, CountOK, LockIsEarned
<1>5. AttemptsOK'
  BY <1>1, <1>2, <1>3, ReadsAge DEF AccountsInv, AttemptsOK
<1>6. Usable' = Usable
  BY <1>3 DEF Usable
<1>7. TokensOK'
  BY <1>1, <1>2, <1>3, <1>6, TokensAge DEF AccountsInv
<1> QED
  BY <1>4, <1>5, <1>7 DEF AccountsInv

\* One step of administration, authentication or time.
LEMMA AccountsStep == AccountsInv /\ [AccountsNext]_accountsVars => AccountsInv'
<1> SUFFICES ASSUME AccountsInv, [AccountsNext]_accountsVars PROVE AccountsInv'
  OBVIOUS
<1>1. ASSUME NEW v \in 1 .. MaxWrites,
             \/ RotateSecret(v) \/ Delete(v)
             \/ \E s \in Status, x \in {"never", "later"} : Update(v, s, x)
      PROVE  AccountsInv'
  BY <1>1, RotateSecretKeeps, DeleteKeeps, UpdateKeeps
<1>2. ASSUME NEW a \in Attempt,
             \/ \E s \in 1 .. MaxSecrets : Authenticate(a, s)
             \/ recordFailure(a) \/ Issue(a) \/ Reject(a)
      PROVE  AccountsInv'
  BY <1>2, AuthenticateKeeps, recordFailureKeeps, IssueKeeps, RejectKeeps
<1>3. CASE Expires \/ LockEnds
  BY <1>3, ExpiresKeeps, LockEndsKeeps
<1>4. CASE UNCHANGED accountsVars
  BY <1>4 DEF accountsVars, AccountsInv, AccountOK, CountOK, LockIsEarned, AttemptsOK, ReadOK, TokensOK, Usable
<1> QED
  BY <1>1, <1>2, <1>3, <1>4 DEF AccountsNext

\* The invariant holds throughout.
THEOREM AccountsInvariance == AccountsSpec => []AccountsInv
<1> QED
  BY AccountsInitial, AccountsStep, PTL DEF AccountsSpec

\* A token is accepted only under the secret, status and expiry it was handed out under; an account is
\* locked only by MaxFailed wrong tries of its current secret, or one less on a database that
\* evaluates SET from left to right; every token issued is accepted, here and elsewhere
\* (serviceaccount/service.go, auth/jwt.go), for any number of authentications side by side.
THEOREM AccountsSound == AccountsSpec => []AccountsAreSound
<1>1. AccountsInv => AccountsAreSound
  BY ClaimsAgree DEF AccountsInv, CountOK, LockIsEarned, TokensOK, AccountsAreSound, TokensEndWithCredential,
                     LockIsEarned, verifyPrincipalState
<1> QED
  BY <1>1, AccountsInvariance, PTL

-----------------------------------------------------------------------------
(* Platform configuration.                                                 *)

\* What the proof needs of the types.
ConfigTypeOK ==
    /\ config.version \in Nat
    /\ DOMAIN cached \subseteq Nat
    /\ DOMAIN configRead = ConfigReader /\ DOMAIN configSeen = ConfigReader

\* Nothing is cached under a version that the row has not had.
CacheIsOld == \A v \in DOMAIN cached : v <= config.version

\* A read under way has seen what the entry is now: every write adds to what it has seen.
ReadsSeeNow == \A r \in ConfigReader : configRead[r].stage # "idle"
=> Configuration!Told(config) \in configSeen[r]

\* After the visibility, the read may still take what the cache has under the version it was told:
\* that was the entry at some moment of the read.
VisibleWasSeen ==
    \A r \in ConfigReader : configRead[r].stage = "visible" =>
      /\ configRead[r].version \in Nat /\ configRead[r].version <= config.version
      /\ configRead[r].version \in DOMAIN cached => cached[configRead[r].version] \in configSeen[r]

\* The inductive invariant.  ConfigIsSound is not inductive: a read between its two queries carries
\* a version and not a value.
ConfigInv ==
    /\ ConfigTypeOK /\ CacheIsOld /\ ReadsSeeNow /\ VisibleWasSeen
    /\ Configuration!PublicReadsAreCurrent /\ Configuration!CacheAgrees

\* Told of a visible row.
LEMMA VisibleIsTold ==
  ASSUME NEW row, Configuration!Visible(row)
  PROVE  Configuration!Told(row) = row.value
  BY DEF Configuration!Visible, Configuration!Told

\* A write has a new version: the cache has nothing under it.
LEMMA PutKeeps ==
  ASSUME ConfigInv, NEW row, row.version = config.version + 1, Configuration!Put(row)
  PROVE  ConfigInv'
  <1>1. /\ config' = row /\ UNCHANGED <<cached, configRead>>
        /\ DOMAIN configSeen' = ConfigReader
        /\ \A r \in ConfigReader : configSeen'[r] = configSeen[r] \cup {Configuration!Told(row)}
    BY DEF Configuration!Put
  <1>2. config'.version \in Nat /\ config'.version > config.version /\ config.version \in Nat
    BY <1>1 DEF ConfigInv, ConfigTypeOK
  <1>3. ConfigTypeOK'
    BY <1>1, <1>2 DEF ConfigInv, ConfigTypeOK
  <1>4. CacheIsOld' /\ config'.version \notin DOMAIN cached
    BY <1>1, <1>2 DEF ConfigInv, ConfigTypeOK, CacheIsOld
  <1>5. ReadsSeeNow'
    BY <1>1 DEF ReadsSeeNow
  <1>6. VisibleWasSeen'
    BY <1>1, <1>2 DEF ConfigInv, VisibleWasSeen
  <1>7. Configuration!PublicReadsAreCurrent'
    BY <1>1 DEF ConfigInv, Configuration!PublicReadsAreCurrent
  <1>8. Configuration!CacheAgrees'
    BY <1>1, <1>4 DEF Configuration!CacheAgrees
  <1> QED
    BY <1>3, <1>4, <1>5, <1>6, <1>7, <1>8 DEF ConfigInv

\* A step of one read.
LEMMA ReadStep ==
  ASSUME ConfigInv, NEW r \in ConfigReader, NEW read, configRead' = [configRead EXCEPT ![r] = read],
         UNCHANGED <<config, cached, configSeen>>,
         read.stage # "idle" => configRead[r].stage # "idle",
         read.stage = "visible" => read.version = config.version /\ Configuration!Visible(config),
         read.stage = "answered" => read.value \in configSeen[r] \cup {"changed"}
  PROVE  ConfigInv'
  <1>1. configRead'[r] = read /\ \A s \in ConfigReader \ {r} : configRead'[s] = configRead[s]
    BY DEF ConfigInv, ConfigTypeOK
  <1>2. ConfigTypeOK'
    BY DEF ConfigInv, ConfigTypeOK
  <1>3. CacheIsOld' /\ Configuration!CacheAgrees'
    BY DEF ConfigInv, CacheIsOld, Configuration!CacheAgrees
  <1>4. ReadsSeeNow'
    BY <1>1 DEF ConfigInv, ReadsSeeNow
  <1>5. VisibleWasSeen'
    <2>1. read.stage = "visible" => (config.version \in DOMAIN cached
          => cached[config.version] \in configSeen[r])
      BY VisibleIsTold DEF ConfigInv, ReadsSeeNow, Configuration!CacheAgrees
    <2> QED
      BY <1>1, <2>1 DEF ConfigInv, ConfigTypeOK, VisibleWasSeen
  <1>6. Configuration!PublicReadsAreCurrent'
    BY <1>1 DEF ConfigInv, Configuration!PublicReadsAreCurrent
  <1> QED
    BY <1>2, <1>3, <1>4, <1>5, <1>6 DEF ConfigInv

\* A read begins by seeing what is there.
LEMMA GetPublicKeeps ==
  ASSUME ConfigInv, NEW r \in ConfigReader, Configuration!GetPublic(r)
  PROVE  ConfigInv'
  <1>1. /\ configRead' = [configRead EXCEPT ![r] = [stage |-> "begun", round |-> 1]]
        /\ configSeen' = [configSeen EXCEPT ![r] = {Configuration!Told(config)}]
        /\ UNCHANGED <<config, cached>>
    BY DEF Configuration!GetPublic
  <1>2. /\ configRead'[r].stage = "begun" /\ configSeen'[r] = {Configuration!Told(config)}
        /\ \A s \in ConfigReader \ {r} : configRead'[s] = configRead[s] /\ configSeen'[s] = configSeen[s]
    BY <1>1 DEF ConfigInv, ConfigTypeOK
  <1> QED
    BY <1>1, <1>2 DEF ConfigInv, ConfigTypeOK, CacheIsOld, ReadsSeeNow, VisibleWasSeen,
       Configuration!PublicReadsAreCurrent,
                      Configuration!CacheAgrees

\* A read is over.
LEMMA LeaveKeeps ==
  ASSUME ConfigInv, NEW r \in ConfigReader, Configuration!Leave(r)
  PROVE  ConfigInv'
  <1>1. /\ configRead' = [configRead EXCEPT ![r] = Configuration!NoRead]
        /\ configSeen' = [configSeen EXCEPT ![r] = {}]
        /\ UNCHANGED <<config, cached>>
    BY DEF Configuration!Leave
  <1>2. /\ configRead'[r].stage = "idle"
        /\ \A s \in ConfigReader \ {r} : configRead'[s] = configRead[s] /\ configSeen'[s] = configSeen[s]
    BY <1>1 DEF ConfigInv, ConfigTypeOK, Configuration!NoRead
  <1> QED
    BY <1>1, <1>2 DEF ConfigInv, ConfigTypeOK, CacheIsOld, ReadsSeeNow, VisibleWasSeen,
       Configuration!PublicReadsAreCurrent,
                      Configuration!CacheAgrees

\* An entry leaves the cache.
LEMMA ExpireKeeps ==
  ASSUME ConfigInv, NEW v, Configuration!Expire(v)
  PROVE  ConfigInv'
  <1>1. /\ DOMAIN cached' = DOMAIN cached \ {v} /\ \A w \in DOMAIN cached' : cached'[w] = cached[w]
        /\ UNCHANGED <<config, configRead, configSeen>>
    BY DEF Configuration!Expire
  <1> QED
    BY <1>1 DEF ConfigInv, ConfigTypeOK, CacheIsOld, ReadsSeeNow, VisibleWasSeen,
       Configuration!PublicReadsAreCurrent,
                Configuration!CacheAgrees

\* The version is that of the row now, and what is cached under it is the row's value.
LEMMA ReadVisibilityKeeps ==
  ASSUME ConfigInv, NEW r \in ConfigReader, Configuration!ReadVisibility(r)
  PROVE  ConfigInv'
  <1>1. configRead[r].stage = "begun" /\ UNCHANGED <<config, cached, configSeen>>
    BY DEF Configuration!ReadVisibility
  <1>2. CASE Configuration!Visible(config)
    <2>1. PICK read : read = [stage |-> "visible", round |-> configRead[r].round, version |-> config.version]
      OBVIOUS
    <2>2. configRead' = [configRead EXCEPT ![r] = read]
      BY <1>2, <2>1 DEF Configuration!ReadVisibility
    <2> QED
      BY <1>1, <1>2, <2>1, <2>2, ReadStep
  <1>3. CASE ~Configuration!Visible(config)
    <2>1. PICK read : read = [stage |-> "answered", value |-> Configuration!Nobody]
      OBVIOUS
    <2>2. configRead' = [configRead EXCEPT ![r] = read]
      BY <1>3, <2>1 DEF Configuration!ReadVisibility, Configuration!Answer
    <2>3. Configuration!Nobody \in configSeen[r]
      BY <1>1, <1>3 DEF ConfigInv, ReadsSeeNow, Configuration!Visible
    <2> QED
      BY <1>1, <2>1, <2>2, <2>3, ReadStep
  <1> QED
    BY <1>2, <1>3

\* The cache is asked after the visibility.
LEMMA CacheAnswersKeeps ==
  ASSUME ConfigInv, NEW r \in ConfigReader, Configuration!CacheAnswers(r)
  PROVE  ConfigInv'
  <1>1. PICK read : read = [stage |-> "answered", value |-> cached[configRead[r].version]]
    OBVIOUS
  <1>2. configRead' = [configRead EXCEPT ![r] = read] /\ configRead[r].stage = "visible"
        /\ UNCHANGED <<config, cached, configSeen>>
    BY <1>1 DEF Configuration!CacheAnswers, Configuration!Answer
  <1>3. read.value \in configSeen[r]
    BY <1>1 DEF Configuration!CacheAnswers, ConfigInv, VisibleWasSeen
  <1> QED
    BY <1>1, <1>2, <1>3, ReadStep

\* The query names the version: a value is stored under the version it had.
LEMMA ReadValueKeeps ==
  ASSUME ConfigInv, NEW r \in ConfigReader, NEW stored \in BOOLEAN, Configuration!ReadValue(r, stored)
  PROVE  ConfigInv'
  <1>1. configRead[r].stage = "visible" /\ UNCHANGED <<config, configSeen>>
    BY DEF Configuration!ReadValue
  <1>2. CASE Configuration!StillThere(r)
    <2>1. PICK v : v = configRead[r].version
      OBVIOUS
    <2>2. v = config.version /\ Configuration!Visible(config) /\ config.version \in Nat
      BY <1>2, <2>1 DEF Configuration!StillThere, ConfigInv, ConfigTypeOK
    <2>3. \A s \in ConfigReader : configRead[s].stage # "idle" => config.value \in configSeen[s]
      BY <2>2, VisibleIsTold DEF ConfigInv, ReadsSeeNow
    <2>4. /\ configRead' = [configRead EXCEPT ![r] = [stage |-> "answered", value |-> config.value]]
          /\ cached' = IF stored THEN [w \in DOMAIN cached \cup {v} |-> IF w = v THEN config.value ELSE cached[w]] ELSE cached
      BY <1>2, <2>1 DEF Configuration!ReadValue, Configuration!Answer
    <2>5. /\ configRead'[r].stage = "answered" /\ configRead'[r].value = config.value
          /\ \A s \in ConfigReader \ {r} : configRead'[s] = configRead[s]
      BY <2>4 DEF ConfigInv, ConfigTypeOK
    <2>6. /\ DOMAIN cached' \subseteq DOMAIN cached \cup {v}
          /\ \A w \in DOMAIN cached' : IF w = v THEN cached'[w] = config.value
             \/ (v \in DOMAIN cached /\ cached'[w] = cached[w])
                                       ELSE w \in DOMAIN cached /\ cached'[w] = cached[w]
      BY <2>4
    <2>7. v \in DOMAIN cached => cached[v] = config.value
      BY <2>2 DEF ConfigInv, Configuration!CacheAgrees
    <2>8. ConfigTypeOK' /\ CacheIsOld'
      BY <1>1, <2>2, <2>4, <2>6 DEF ConfigInv, ConfigTypeOK, CacheIsOld
    <2>9. ReadsSeeNow'
      BY <1>1, <2>5 DEF ConfigInv, ReadsSeeNow
    <2>10. VisibleWasSeen'
      BY <1>1, <2>3, <2>5, <2>6 DEF ConfigInv, VisibleWasSeen
    <2>11. Configuration!PublicReadsAreCurrent'
      BY <1>1, <2>3, <2>5 DEF ConfigInv, Configuration!PublicReadsAreCurrent
    <2>12. Configuration!CacheAgrees'
      BY <1>1, <2>2, <2>6, <2>7 DEF Configuration!CacheAgrees
    <2> QED
      BY <2>8, <2>9, <2>10, <2>11, <2>12 DEF ConfigInv
  <1>3. CASE ~Configuration!StillThere(r)
    <2>1. UNCHANGED cached
      BY <1>3 DEF Configuration!ReadValue
    <2>2. CASE configRead[r].round = 1
      <3>1. PICK read : read = [stage |-> "begun", round |-> 2]
        OBVIOUS
      <3>2. configRead' = [configRead EXCEPT ![r] = read]
        BY <1>3, <2>2, <3>1 DEF Configuration!ReadValue
      <3> QED
        BY <1>1, <2>1, <3>1, <3>2, ReadStep
    <2>3. CASE configRead[r].round # 1
      <3>1. PICK read : read = [stage |-> "answered", value |-> "changed"]
        OBVIOUS
      <3>2. configRead' = [configRead EXCEPT ![r] = read]
        BY <1>3, <2>3, <3>1 DEF Configuration!ReadValue, Configuration!Answer
      <3> QED
        BY <1>1, <2>1, <3>1, <3>2, ReadStep
    <2> QED
      BY <2>2, <2>3
  <1> QED
    BY <1>2, <1>3

\* No row, an empty cache.
LEMMA ConfigBegin == Configuration!Init => ConfigInv
  <1> SUFFICES ASSUME Configuration!Init PROVE ConfigInv
    OBVIOUS
  <1>1. config.version = 0 /\ DOMAIN cached = {} /\ DOMAIN configRead = ConfigReader
        /\ DOMAIN configSeen = ConfigReader
    BY DEF Configuration!Init, Configuration!NoConfig
  <1>2. \A r \in ConfigReader : configRead[r].stage = "idle"
    BY DEF Configuration!Init, Configuration!NoRead
  <1> QED
    BY <1>1, <1>2 DEF ConfigInv, ConfigTypeOK, CacheIsOld, ReadsSeeNow, VisibleWasSeen,
                      Configuration!PublicReadsAreCurrent, Configuration!CacheAgrees

\* For any values, readers and writes.
LEMMA ConfigInvariant == Configuration!Spec => []ConfigInv
  <1>1. ConfigInv /\ [Configuration!Next]_(Configuration!vars) => ConfigInv'
    <2>1. ASSUME ConfigInv, UNCHANGED Configuration!vars PROVE ConfigInv'
      BY <2>1 DEF Configuration!vars, ConfigInv, ConfigTypeOK, CacheIsOld, ReadsSeeNow, VisibleWasSeen,
                  Configuration!PublicReadsAreCurrent, Configuration!CacheAgrees
    <2>3. ASSUME ConfigInv, Configuration!Next PROVE ConfigInv'
      <3>1. ASSUME NEW value \in Value, NEW public \in BOOLEAN, NEW status \in {"active", "disabled"},
                   \/ Configuration!Create(value, public, status)
                   \/ \E v \in 1..MaxConfigWrites : Configuration!Update(value, public, status, v)
            PROVE  ConfigInv'
        <4>1. CASE Configuration!Create(value, public, status)
          BY <2>3, <4>1, PutKeeps DEF Configuration!Create, Configuration!CreatedVersion, Configuration!Row
        <4>2. ASSUME NEW v \in 1..MaxConfigWrites, Configuration!Update(value, public, status, v)
                   PROVE ConfigInv'
          BY <2>3, <4>2, PutKeeps DEF Configuration!Update, Configuration!Row
        <4> QED
          BY <3>1, <4>1, <4>2
      <3>2. ASSUME NEW v \in 1..MaxConfigWrites, Configuration!Delete(v) \/ Configuration!Expire(v)
                 PROVE ConfigInv'
        BY <2>3, <3>2, PutKeeps, ExpireKeeps DEF Configuration!Delete
      <3> QED
        BY <2>3, <3>1, <3>2, GetPublicKeeps, ReadVisibilityKeeps, CacheAnswersKeeps, LeaveKeeps,
           ReadValueKeeps
        DEF Configuration!Next
    <2> QED
      BY <2>1, <2>3
  <1> QED
    BY <1>1, ConfigBegin, PTL DEF Configuration!Spec

-----------------------------------------------------------------------------
(* Users and tenants.                                                      *)

\* What a row or an entry of the cache may hold.
RowRecord == [version : Nat, status : UserStatus \cup {"active", "closed", "missing", "miss"}]

\* A request that reads or writes.
Doing == [pc : {"lookup", "verify", "load", "cache", "update", "delete", "invalidate"}, of : Profiles!Subject,
          key : Profiles!Key, version : Nat, got : RowRecord, puts : SUBSET Profiles!Key,
          then : {"answer", "done"} \cup Organisation, was : SUBSET RowRecord]

\* A request that has ended, or has resolved the owner of a tenant.
Asked == {Profiles!NoTask} \cup [pc : {"answered"}, fresh : BOOLEAN] \cup
         [pc : {"insert"}, of : Profiles!Subject, then : Organisation, fresh : BOOLEAN]

\* The types.
DirectoryTypeOK ==
    /\ entity \in [Profiles!Subject -> [live : BOOLEAN, row : RowRecord]]
    /\ entry \in [Profiles!Key -> RowRecord]
    /\ task \in [Task -> Asked \cup Doing]
    /\ \A t \in Task : task[t] \in Doing => task[t].puts \subseteq Profiles!Keys(task[t].of)
    /\ \A s \in Profiles!Subject : Profiles!Live(s) => entity[s].row.version > 0

\* x is the row of s, or an older one.
Past(s, x) ==
    x # Profiles!Miss =>
      /\ x.version <= entity[s].row.version
      /\ x.version = entity[s].row.version => x = entity[s].row

\* No entry of the cache is ahead of its row, and one of the row's version is the row.
EntriesArePast == \A s \in Profiles!Subject : \A k \in Profiles!Keys(s) : Past(s, entry[k])

\* So is what a request has loaded and may still write into the cache.
LoadsArePast == \A u \in Task : task[u] \in Doing => Past(task[u].of, task[u].got)

\* A read has seen what the row is now, and what it loaded.
ReadsSeeRow ==
    \A u \in Task : task[u] \in Doing /\ task[u].then # "done" =>
      /\ Profiles!get(task[u].of) \in task[u].was
      /\ task[u].pc \in {"cache", "invalidate"} => task[u].got \in task[u].was

\* x is not of the version that read t was told, or it is what the row was during the read.
Agrees(t, x) == x # Profiles!Miss /\ x.version = task[t].version => x \in task[t].was

\* A read that goes to the cache with a version finds what the row was during the read, whatever
\* late readers and failed invalidations have left there.
LookupsAgree ==
    \A t \in Task : task[t] \in Doing /\ task[t].pc = "lookup" =>
      /\ task[t].version > 0 /\ task[t].version <= entity[task[t].of].row.version
      /\ task[t].key \in Profiles!Keys(task[t].of)
      /\ Agrees(t, entity[task[t].of].row)
      /\ \A k \in Profiles!Keys(task[t].of) : Agrees(t, entry[k])
      /\ \A u \in Task : task[u] \in Doing /\ task[u].of = task[t].of => Agrees(t, task[u].got)

\* The inductive invariant.  AnswersAreCurrent is not inductive: an answer from the cache is right
\* only because a version stands for one row for ever, and everything that is or will be cached is
\* of the past.
DirectoryInv ==
    /\ DirectoryTypeOK /\ EntriesArePast /\ LoadsArePast /\ ReadsSeeRow /\ LookupsAgree
       /\ Profiles!AnswersAreCurrent

\* An entry is of one row.
LEMMA KeysAreOwn ==
  ASSUME NEW s \in Profiles!Subject
  PROVE  /\ Profiles!Keys(s) \subseteq Profiles!Key
         /\ \A r \in Profiles!Subject : \A k \in Profiles!Keys(s) : k \in Profiles!Keys(r) => r = s
  <1>1. \A r \in Profiles!Subject : \A k \in Profiles!Keys(r) : k = <<"id", r>> \/ k = <<"username", r>>
        \/ k = <<"tenant", r>>
    BY DEF Profiles!Keys
  <1> QED
    BY <1>1 DEF Profiles!Key

\* The keys of a tenant and of a user.
LEMMA KeysOfOwner ==
  /\ \A o \in Organisation : o \in Profiles!Subject /\ Profiles!Keys(o) = {<<"tenant", o>>}
  /\ \A p \in Person : p \in Profiles!Subject /\ <<"username", p>> \in Profiles!Keys(p)
  BY DirectoryAssumption DEF Profiles!Keys, Profiles!Subject

\* Rows that are missing and entries that are missing are different.
LEMMA Records ==
  /\ Profiles!Missing \in RowRecord /\ Profiles!Missing.version = 0 /\ Profiles!Missing # Profiles!Miss
  /\ Profiles!Miss \in RowRecord
  BY DEF Profiles!Missing, Profiles!Miss, RowRecord

\* The two kinds of requests are told apart by their stage.
LEMMA TaskKinds ==
  /\ \A x \in Doing : x \notin Asked /\ x.pc \notin {"idle", "answered", "insert"} /\ "was" \in DOMAIN x
  /\ \A x \in Asked : x.pc \in {"idle", "answered", "insert"} /\ "was" \notin DOMAIN x
  <1>1. \A x \in Doing : x.pc \notin {"idle", "answered", "insert"} /\ "was" \in DOMAIN x
    BY DEF Doing
  <1>2. \A x \in Asked : x.pc \in {"idle", "answered", "insert"} /\ "was" \notin DOMAIN x
    BY DEF Asked, Profiles!NoTask
  <1> QED
    BY <1>1, <1>2

\* What the database tells of a row.
LEMMA RowNow ==
  ASSUME DirectoryTypeOK, NEW s \in Profiles!Subject
  PROVE  /\ Profiles!get(s) \in RowRecord /\ entity[s].row \in RowRecord /\ entity[s].row.version \in Nat
         /\ Profiles!Live(s) => Profiles!get(s) = entity[s].row /\ entity[s].row.version > 0
         /\ ~Profiles!Live(s) => Profiles!get(s) = Profiles!Missing
  <1>1. entity[s] \in [live : BOOLEAN, row : RowRecord]
    BY DEF DirectoryTypeOK
  <1>2. entity[s].row \in RowRecord
    BY <1>1
  <1>3. entity[s].row.version \in Nat
    BY <1>2 DEF RowRecord
  <1> QED
    BY <1>2, <1>3, Records DEF DirectoryTypeOK, Profiles!get, Profiles!Live

\* An entry changes only to nothing, or to what task t has loaded of its row.
Rewritten(t) ==
    /\ entry' \in [Profiles!Key -> RowRecord]
    /\ \A s \in Profiles!Subject : \A k \in Profiles!Keys(s) :
         \/ entry'[k] = entry[k] \/ entry'[k] = Profiles!Miss
         \/ task[t] \in Doing /\ task[t].of = s /\ entry'[k] = task[t].got

\* A step of task t that leaves the rows alone.
LEMMA TaskStep ==
  ASSUME DirectoryInv, NEW t \in Task, NEW x \in Asked \cup Doing, task' = [task EXCEPT ![t] = x],
         UNCHANGED entity, Rewritten(t),
         x \in Doing =>
           /\ x.puts \subseteq Profiles!Keys(x.of)
           /\ \/ x.got = Profiles!Miss \/ x.got = entity[x.of].row
                 \/ \E k \in Profiles!Keys(x.of) : x.got = entry[k]
              \/ task[t] \in Doing /\ x.of = task[t].of /\ x.got = task[t].got
           /\ x.then # "done" => Profiles!get(x.of) \in x.was
              /\ (x.pc \in {"cache", "invalidate"} => x.got \in x.was)
           /\ x.pc = "lookup" => /\ x.version > 0 /\ x.version = entity[x.of].row.version
                                 /\ x.key \in Profiles!Keys(x.of) /\ entity[x.of].row \in x.was,
         x.pc \in {"answered", "insert"} => x.fresh
  PROVE  DirectoryInv'
  <1>1. task'[t] = x /\ \A u \in Task \ {t} : task'[u] = task[u]
    BY DEF DirectoryInv, DirectoryTypeOK
  <1>2. DirectoryTypeOK'
    <2>1. task' \in [Task -> Asked \cup Doing]
      BY DEF DirectoryInv, DirectoryTypeOK
    <2>2. \A u \in Task : task'[u] \in Doing => task'[u].puts \subseteq Profiles!Keys(task'[u].of)
      BY <1>1 DEF DirectoryInv, DirectoryTypeOK
    <2> QED
      BY <2>1, <2>2 DEF DirectoryInv, DirectoryTypeOK, Profiles!Live, Rewritten
  <1>3. EntriesArePast'
    BY DEF DirectoryInv, EntriesArePast, LoadsArePast, Past, Rewritten
  <1>4. x \in Doing => x.of \in Profiles!Subject /\ Past(x.of, x.got)
    <2>1. HAVE x \in Doing
    <2>2. x.of \in Profiles!Subject
      BY <2>1 DEF Doing
    <2>3. entity[x.of].row.version \in Nat
      BY <2>2, RowNow DEF DirectoryInv
    <2> QED
      BY <2>1, <2>2, <2>3 DEF DirectoryInv, EntriesArePast, LoadsArePast, Past
  <1>5. LoadsArePast'
    BY <1>1, <1>4 DEF DirectoryInv, LoadsArePast, Past
  <1>6. ReadsSeeRow'
    BY <1>1 DEF DirectoryInv, ReadsSeeRow, Profiles!get
  <1>7. LookupsAgree'
    <2>1. SUFFICES ASSUME NEW v \in Task, task'[v] \in Doing, task'[v].pc = "lookup"
                   PROVE  /\ task'[v].version > 0 /\ task'[v].version <= entity[task'[v].of].row.version
                          /\ task'[v].key \in Profiles!Keys(task'[v].of)
                          /\ Agrees(v, entity[task[v].of].row)'
                          /\ \A k \in Profiles!Keys(task'[v].of) : Agrees(v, entry[k])'
                          /\ \A u \in Task : task'[u] \in Doing /\ task'[u].of = task'[v].of
                             => Agrees(v, task[u].got)'
      BY DEF LookupsAgree
    <2>2. CASE v = t
      <3>1. x \in Doing /\ x.pc = "lookup" /\ x.of \in Profiles!Subject
            /\ x.version = entity[x.of].row.version
            /\ x.version \in Nat /\ x.version > 0 /\ entity[x.of].row \in x.was
               /\ x.key \in Profiles!Keys(x.of)
        BY <1>1, <2>1, <2>2 DEF Doing
      <3>2. \A y : Past(x.of, y) /\ y # Profiles!Miss /\ y.version = x.version => y \in x.was
        BY <3>1 DEF Past
      <3>3. \A k \in Profiles!Keys(x.of) : Past(x.of, entry'[k])
        BY <1>3, <3>1 DEF EntriesArePast, Past
      <3>4. \A u \in Task : task'[u] \in Doing /\ task'[u].of = x.of => Past(x.of, task'[u].got)
        BY <1>1, <1>4 DEF DirectoryInv, LoadsArePast
      <3> QED
        BY <1>1, <2>2, <3>1, <3>2, <3>3, <3>4 DEF Agrees
    <2>3. CASE v # t
      <3>1. task'[v] = task[v] /\ task[v] \in Doing /\ task[v].pc = "lookup"
        BY <1>1, <2>1, <2>3
      <3>2. /\ task[v].version > 0 /\ task[v].version <= entity[task[v].of].row.version
            /\ task[v].key \in Profiles!Keys(task[v].of)
            /\ Agrees(v, entity[task[v].of].row)
            /\ \A k \in Profiles!Keys(task[v].of) : Agrees(v, entry[k])
            /\ \A u \in Task : task[u] \in Doing /\ task[u].of = task[v].of => Agrees(v, task[u].got)
        BY <3>1 DEF DirectoryInv, LookupsAgree
      <3>3. x \in Doing /\ x.of = task[v].of => Agrees(v, x.got)
        BY <3>2 DEF Agrees
      <3>4. task[v].of \in Profiles!Subject
        BY <3>1 DEF Doing
      <3>5. \A k \in Profiles!Keys(task[v].of) : Agrees(v, entry'[k])
        BY <3>2, <3>4 DEF Agrees, Rewritten
      <3> QED
        BY <1>1, <3>1, <3>2, <3>3, <3>5 DEF Agrees
    <2> QED
      BY <2>2, <2>3
  <1>8. Profiles!AnswersAreCurrent'
    BY <1>1 DEF DirectoryInv, Profiles!AnswersAreCurrent
  <1> QED
    BY <1>2, <1>3, <1>5, <1>6, <1>7, <1>8 DEF DirectoryInv

\* A row is written.
LEMMA CommitStep ==
  ASSUME DirectoryInv, NEW t \in Task, NEW s \in Profiles!Subject, NEW live \in BOOLEAN,
         NEW row \in RowRecord,
         row.version = entity[s].row.version + 1, NEW step \in Asked \cup Doing,
         Profiles!Commit(t, s, live, row, step), UNCHANGED entry,
         step \in Doing => /\ step.of = s /\ step.then = "done" /\ step.pc # "lookup"
                              /\ step.puts \subseteq Profiles!Keys(s)
                           /\ step.got = row \/ step.got = Profiles!Missing,
         step.pc \notin {"answered", "insert"}
  PROVE  DirectoryInv'
  <1>1. entity[s].row.version \in Nat /\ row.version \in Nat /\ row.version > entity[s].row.version
    BY RowNow DEF DirectoryInv
  <1>2. /\ entity' \in [Profiles!Subject -> [live : BOOLEAN, row : RowRecord]]
        /\ entity'[s].row = row /\ entity'[s].live = live
        /\ \A r \in Profiles!Subject \ {s} : entity'[r] = entity[r]
    BY DEF DirectoryInv, DirectoryTypeOK, Profiles!Commit
  <1>3. PICK now \in RowRecord : now = IF live THEN row ELSE Profiles!Missing
    BY Records
  <1>4. /\ Profiles!get(s)' = now
        /\ \A r \in Profiles!Subject \ {s} : Profiles!get(r)' = Profiles!get(r)
    BY <1>2, <1>3 DEF Profiles!get
  <1>5. task'[t] = step
    BY DEF Profiles!Commit
  <1>6. ASSUME NEW u \in Task \ {t}
        PROVE  /\ task[u] \in Asked => task'[u] = task[u]
               /\ task[u] \in Doing =>
                    /\ task'[u] \in Doing /\ task'[u].pc = task[u].pc /\ task'[u].of = task[u].of
                    /\ task'[u].key = task[u].key /\ task'[u].version = task[u].version
                       /\ task'[u].got = task[u].got
                    /\ task'[u].puts = task[u].puts /\ task'[u].then = task[u].then
                    /\ task[u].was \subseteq task'[u].was
                    /\ task[u].of = s /\ task[u].then # "done" => now \in task'[u].was
    <2>1. task'[u] = IF "was" \in DOMAIN task[u] /\ task[u].of = s /\ task[u].then # "done"
                     THEN [task[u] EXCEPT !.was = task[u].was \cup {now}] ELSE task[u]
      BY <1>3 DEF Profiles!Commit
    <2>2. CASE task[u] \in Asked
      BY <2>1, <2>2, TaskKinds
    <2>3. CASE task[u] \in Doing
      <3>1. "was" \in DOMAIN task[u]
        BY <2>3, TaskKinds
      <3> QED
        BY <2>1, <2>3, <3>1, TaskKinds DEF Doing
    <2> QED
      BY <2>2, <2>3 DEF DirectoryInv, DirectoryTypeOK
  <1>7. \A u \in Task : task[u] \in Asked \cup Doing
    BY DEF DirectoryInv, DirectoryTypeOK
  <1>8. DirectoryTypeOK'
    <2>1. task' \in [Task -> Asked \cup Doing]
      <3>1. \A u \in Task : task'[u] \in Asked \cup Doing
        BY <1>5, <1>6, <1>7
      <3> QED
        BY <3>1 DEF Profiles!Commit
    <2>2. \A u \in Task : task'[u] \in Doing => task'[u].puts \subseteq Profiles!Keys(task'[u].of)
      BY <1>5, <1>6, <1>7, TaskKinds DEF DirectoryInv, DirectoryTypeOK
    <2>3. \A r \in Profiles!Subject : entity'[r].live => entity'[r].row.version > 0
      BY <1>1, <1>2 DEF DirectoryInv, DirectoryTypeOK, Profiles!Live
    <2> QED
      BY <1>2, <2>1, <2>2, <2>3 DEF DirectoryInv, DirectoryTypeOK, Profiles!Live
  <1>10. EntriesArePast'
    <2>1. \A r \in Profiles!Subject : \A k \in Profiles!Keys(r) : entry[k] # Profiles!Miss
          => entry[k].version \in Nat
      BY KeysAreOwn DEF DirectoryInv, DirectoryTypeOK, RowRecord
    <2> QED
      BY <1>1, <1>2, <2>1 DEF DirectoryInv, EntriesArePast, Past
  <1>11. LoadsArePast'
    <2>1. SUFFICES ASSUME NEW u \in Task, task'[u] \in Doing PROVE Past(task[u].of, task[u].got)'
      BY DEF LoadsArePast
    <2>2. CASE u = t
      BY <1>1, <1>2, <1>5, <2>1, <2>2, Records DEF Past
    <2>3. CASE u # t
      <3>1. task[u] \in Doing /\ task'[u].of = task[u].of /\ task'[u].got = task[u].got
        BY <1>6, <1>7, <2>1, <2>3, TaskKinds
      <3>2. task[u].of \in Profiles!Subject /\ task[u].got.version \in Nat
        BY <3>1 DEF Doing, RowRecord
      <3> QED
        BY <1>1, <1>2, <3>1, <3>2 DEF DirectoryInv, LoadsArePast, Past
    <2> QED
      BY <2>2, <2>3
  <1>12. ReadsSeeRow'
    <2>1. SUFFICES ASSUME NEW u \in Task, task'[u] \in Doing, task'[u].then # "done"
                   PROVE  /\ Profiles!get(task[u].of)' \in task'[u].was
                          /\ task'[u].pc \in {"cache", "invalidate"} => task'[u].got \in task'[u].was
      BY DEF ReadsSeeRow
    <2>2. u # t
      BY <1>5, <2>1
    <2>3. task[u] \in Doing /\ task[u].then # "done" /\ task'[u].of = task[u].of
      BY <1>6, <1>7, <2>1, <2>2, TaskKinds
    <2>4. task[u].of \in Profiles!Subject
      BY <2>3 DEF Doing
    <2>5. Profiles!get(task[u].of)' \in task'[u].was
      BY <1>4, <1>6, <2>2, <2>3, <2>4 DEF DirectoryInv, ReadsSeeRow, Profiles!get
    <2> QED
      BY <1>6, <2>2, <2>3, <2>5 DEF DirectoryInv, ReadsSeeRow
  <1>13. LookupsAgree'
    <2>1. SUFFICES ASSUME NEW v \in Task, task'[v] \in Doing, task'[v].pc = "lookup"
                   PROVE  /\ task'[v].version > 0 /\ task'[v].version <= entity'[task'[v].of].row.version
                          /\ task'[v].key \in Profiles!Keys(task'[v].of)
                          /\ Agrees(v, entity[task[v].of].row)'
                          /\ \A k \in Profiles!Keys(task'[v].of) : Agrees(v, entry[k])'
                          /\ \A u \in Task : task'[u] \in Doing /\ task'[u].of = task'[v].of
                             => Agrees(v, task[u].got)'
      BY DEF LookupsAgree
    <2>2. v # t
      BY <1>5, <2>1
    <2>3. /\ task[v] \in Doing /\ task[v].pc = "lookup" /\ task'[v].of = task[v].of
             /\ task'[v].version = task[v].version
          /\ task'[v].key = task[v].key /\ task[v].was \subseteq task'[v].was
      BY <1>6, <1>7, <2>1, <2>2, TaskKinds
    <2>4. task[v].of \in Profiles!Subject /\ task[v].version \in Nat
      BY <2>3 DEF Doing
    <2>5. /\ task[v].version > 0 /\ task[v].version <= entity[task[v].of].row.version
          /\ task[v].key \in Profiles!Keys(task[v].of)
          /\ Agrees(v, entity[task[v].of].row)
          /\ \A k \in Profiles!Keys(task[v].of) : Agrees(v, entry[k])
          /\ \A u \in Task : task[u] \in Doing /\ task[u].of = task[v].of => Agrees(v, task[u].got)
      BY <2>3 DEF DirectoryInv, LookupsAgree
    <2>6. task[v].version <= entity'[task[v].of].row.version /\ Agrees(v, entity[task[v].of].row)'
      BY <1>1, <1>2, <2>3, <2>4, <2>5 DEF Agrees
    <2>7. \A k \in Profiles!Keys(task[v].of) : Agrees(v, entry[k])'
      BY <2>3, <2>5 DEF Agrees
    <2>8. ASSUME NEW u \in Task, task'[u] \in Doing, task'[u].of = task[v].of PROVE Agrees(v, task[u].got)'
      <3>1. CASE u = t
        <4>1. task[v].of = s /\ (step.got = row \/ step.got = Profiles!Missing)
          BY <1>5, <2>8, <3>1
        <4>2. step.got.version # task[v].version
          BY <1>1, <2>4, <2>5, <4>1, Records
        <4> QED
          BY <1>5, <2>3, <3>1, <4>2 DEF Agrees
      <3>2. CASE u # t
        <4>1. task[u] \in Doing /\ task[u].of = task[v].of /\ task'[u].got = task[u].got
          BY <1>6, <1>7, <2>8, <3>2, TaskKinds
        <4> QED
          BY <2>3, <2>5, <4>1 DEF Agrees
      <3> QED
        BY <3>1, <3>2
    <2> QED
      BY <2>3, <2>5, <2>6, <2>7, <2>8
  <1>14. Profiles!AnswersAreCurrent'
    <2>1. SUFFICES ASSUME NEW u \in Task, task'[u].pc \in {"answered", "insert"} PROVE task'[u].fresh
      BY DEF Profiles!AnswersAreCurrent
    <2>2. u # t
      BY <1>5, <2>1
    <2>3. task'[u] = task[u]
      BY <1>6, <1>7, <2>1, <2>2, TaskKinds
    <2> QED
      BY <2>1, <2>3 DEF DirectoryInv, Profiles!AnswersAreCurrent
  <1> QED
    BY <1>8, <1>10, <1>11, <1>12, <1>13, <1>14 DEF DirectoryInv

\* A step that leaves the cache alone.
LEMMA Unwritten ==
  ASSUME DirectoryInv, NEW t \in Task, UNCHANGED entry
  PROVE  Rewritten(t)
  BY DEF DirectoryInv, DirectoryTypeOK, Rewritten

\* What the invariant says of a request under way.
LEMMA BusyTask ==
  ASSUME DirectoryInv, NEW t \in Task, task[t].pc \notin {"idle", "answered", "insert"}
  PROVE  /\ task[t] \in Doing /\ task[t].of \in Profiles!Subject
         /\ task[t].puts \subseteq Profiles!Keys(task[t].of)
         /\ Past(task[t].of, task[t].got)
         /\ task[t].then # "done" => /\ Profiles!get(task[t].of) \in task[t].was
                                     /\ task[t].pc \in {"cache", "invalidate"} => task[t].got \in task[t].was
  <1>1. task[t] \in Doing
    BY TaskKinds DEF DirectoryInv, DirectoryTypeOK
  <1> QED
    BY <1>1 DEF DirectoryInv, DirectoryTypeOK, LoadsArePast, ReadsSeeRow, Doing

\* A task ends, or waits for nobody.
LEMMA RestStep ==
  ASSUME DirectoryInv, NEW t \in Task, NEW x \in Asked, task' = [task EXCEPT ![t] = x],
         UNCHANGED <<entity, entry>>,
         x.pc \in {"answered", "insert"} => x.fresh
  PROVE  DirectoryInv'
  BY TaskStep, TaskKinds, Unwritten

\* A read answers with a row it has seen.
LEMMA AnswerStep ==
  ASSUME DirectoryInv, NEW t \in Task, task[t] \in Doing, NEW x,
         task[t].then # "done" => x \in task[t].was, Profiles!Answer(t, x), UNCHANGED <<entity, entry>>
  PROVE  DirectoryInv'
  <1>1. task[t].then \in {"answer", "done"} \cup Organisation /\ task[t].of \in Profiles!Subject
    BY DEF Doing
  <1>2. CASE task[t].then = "done"
    <2>1. task' = [task EXCEPT ![t] = Profiles!NoTask]
      BY <1>2 DEF Profiles!Answer
    <2> QED
      BY <2>1, RestStep DEF Asked, Profiles!NoTask
  <1>3. CASE task[t].then = "answer"
    <2>1. x \in task[t].was
      BY <1>3
    <2>2. task' = [task EXCEPT ![t] = [pc |-> "answered", fresh |-> x \in task[t].was]]
      BY <1>3 DEF Profiles!Answer
    <2>3. task' = [task EXCEPT ![t] = [pc |-> "answered", fresh |-> TRUE]]
      BY <2>1, <2>2
    <2> QED
      BY <2>3, RestStep DEF Asked
  <1>4. CASE task[t].then \notin {"answer", "done"}
    <2>1. x \in task[t].was
      BY <1>4
    <2>2. task' = [task EXCEPT ![t] = IF x = Profiles!Missing THEN Profiles!NoTask
                                      ELSE [pc |-> "insert", of |-> task[t].of, then |-> task[t].then,
                                            fresh |-> x \in task[t].was]]
      BY <1>4 DEF Profiles!Answer
    <2>3. CASE x = Profiles!Missing
      <3>1. task' = [task EXCEPT ![t] = Profiles!NoTask]
        BY <2>2, <2>3
      <3> QED
        BY <3>1, RestStep DEF Asked, Profiles!NoTask
    <2>4. CASE x # Profiles!Missing
      <3>1. task' = [task EXCEPT ![t] = [pc |-> "insert", of |-> task[t].of, then |-> task[t].then,
            fresh |-> TRUE]]
        BY <2>1, <2>2, <2>4
      <3> QED
        BY <1>1, <1>4, <3>1, RestStep DEF Asked
    <2> QED
      BY <2>3, <2>4
  <1> QED
    BY <1>1, <1>2, <1>3, <1>4

\* A read goes to the row.
LEMMA LoadStep ==
  ASSUME DirectoryInv, NEW t \in Task, task[t] \in Doing, task' = [task EXCEPT ![t].pc = "load"],
         UNCHANGED <<entity, entry>>
  PROVE  DirectoryInv'
  <1>1. PICK x : x = [task[t] EXCEPT !.pc = "load"]
    OBVIOUS
  <1>2. /\ x \in Doing /\ x.pc = "load" /\ x.of = task[t].of /\ x.got = task[t].got /\ x.puts = task[t].puts
        /\ x.then = task[t].then /\ x.was = task[t].was
    BY <1>1 DEF Doing
  <1>3. task' = [task EXCEPT ![t] = x]
    BY <1>1
  <1>4. x.puts \subseteq Profiles!Keys(x.of)
    BY <1>2 DEF DirectoryInv, DirectoryTypeOK
  <1>5. x.then # "done" => Profiles!get(x.of) \in x.was
    BY <1>2 DEF DirectoryInv, ReadsSeeRow
  <1> QED
    BY <1>2, <1>3, <1>4, <1>5, TaskStep, Unwritten

\* Every row has a key.
LEMMA KeysOfSubject ==
  ASSUME NEW s \in Profiles!Subject
  PROVE  (CHOOSE k \in Profiles!Keys(s) : TRUE) \in Profiles!Key
  <1>1. \E k \in Profiles!Keys(s) : TRUE
    BY DEF Profiles!Keys
  <1> QED
    BY <1>1, KeysAreOwn

\* What a write is between its statements.
LEMMA WroteIsDoing ==
  ASSUME NEW s \in Profiles!Subject, NEW row \in RowRecord, NEW pc \in {"cache", "update", "delete",
         "invalidate"},
         NEW puts \in SUBSET Profiles!Keys(s)
  PROVE  LET x == Profiles!Wrote(s, row, pc, puts)
         IN  /\ x \in Doing /\ x.of = s /\ x.then = "done" /\ x.pc = pc /\ x.puts = puts /\ x.got = row
  <1>1. puts \in SUBSET Profiles!Key
    BY KeysAreOwn
  <1> QED
    BY <1>1, KeysOfSubject DEF Profiles!Wrote, Doing

\* The version comes first, from the row.
LEMMA versionByIDKeeps ==
  ASSUME DirectoryInv, NEW t \in Task, NEW p \in Person, NEW key \in Profiles!Key,
         Profiles!versionByID(t, p, key)
  PROVE  DirectoryInv'
  <1>1. p \in Profiles!Subject /\ key \in Profiles!Keys(p)
    BY DEF Profiles!Subject, Profiles!versionByID
  <1>2. CASE Profiles!Live(p)
    <2>1. PICK x : x = [pc |-> "lookup", of |-> p, key |-> key, version |-> entity[p].row.version,
                        got |-> Profiles!Miss, puts |-> {}, then |-> "answer", was |-> {Profiles!get(p)}]
      OBVIOUS
    <2>2. x \in Doing
      BY <1>1, <2>1, RowNow, Records DEF DirectoryInv, Doing
    <2>3. task' = [task EXCEPT ![t] = x] /\ UNCHANGED <<entity, entry>>
      BY <1>2, <2>1 DEF Profiles!versionByID, Profiles!Begin
    <2>4. /\ x.of = p /\ x.version = entity[p].row.version /\ x.version > 0 /\ x.puts = {}
             /\ x.got = Profiles!Miss
          /\ x.key = key /\ x.was = {entity[p].row} /\ Profiles!get(p) = entity[p].row /\ x.pc = "lookup"
      BY <1>1, <1>2, <2>1, RowNow DEF DirectoryInv
    <2> QED
      BY <1>1, <2>2, <2>3, <2>4, TaskStep, Unwritten
  <1>3. CASE ~Profiles!Live(p)
    BY <1>3, RestStep DEF Profiles!versionByID, Asked
  <1> QED
    BY <1>2, <1>3

\* The entry is believed only if it is of that version.
LEMMA cachedKeeps ==
  ASSUME DirectoryInv, NEW t \in Task, Profiles!cached(t)
  PROVE  DirectoryInv'
  <1>1. task[t] \in Doing /\ task[t].pc = "lookup"
    BY BusyTask DEF Profiles!cached
  <1>2. CASE Profiles!Current(entry[task[t].key], task[t].version) /\ Profiles!Answer(t, entry[task[t].key])
    <2>1. entry[task[t].key] \in task[t].was
      BY <1>1, <1>2 DEF DirectoryInv, LookupsAgree, Agrees, Profiles!Current
    <2> QED
      BY <1>1, <1>2, <2>1, AnswerStep DEF Profiles!cached
  <1>3. CASE task' = [task EXCEPT ![t].pc = "load"]
    BY <1>1, <1>3, LoadStep DEF Profiles!cached
  <1> QED
    BY <1>2, <1>3 DEF Profiles!cached

\* A tenant's entry comes first.
LEMMA TenantGetKeeps ==
  ASSUME DirectoryInv, NEW t \in Task, NEW o \in Organisation, Profiles!TenantGet(t, o)
  PROVE  DirectoryInv'
  <1>1. o \in Profiles!Subject /\ <<"tenant", o>> \in Profiles!Keys(o) /\ <<"tenant", o>> \in Profiles!Key
    BY KeysOfOwner, KeysAreOwn
  <1>2. PICK x : /\ task' = [task EXCEPT ![t] = x]
                 /\ \/ x = [pc |-> "verify", of |-> o, key |-> <<"tenant", o>>, version |-> 0,
                            got |-> entry[<<"tenant", o>>], puts |-> {}, then |-> "answer",
                            was |-> {Profiles!get(o)}]
                    \/ x = [pc |-> "load", of |-> o, key |-> <<"tenant", o>>, version |-> 0,
                            got |-> Profiles!Miss, puts |-> {}, then |-> "answer", was |-> {Profiles!get(o)}]
    BY DEF Profiles!TenantGet, Profiles!Begin
  <1>3. entry[<<"tenant", o>>] \in RowRecord /\ Profiles!Miss \in RowRecord /\ Profiles!get(o) \in RowRecord
    BY <1>1, RowNow, Records DEF DirectoryInv, DirectoryTypeOK
  <1>4. x \in Doing
    BY <1>1, <1>2, <1>3 DEF Doing
  <1>5. /\ x.of = o /\ x.puts = {} /\ x.pc \in {"verify", "load"} /\ Profiles!get(o) \in x.was
        /\ x.got = Profiles!Miss \/ x.got = entry[<<"tenant", o>>]
    BY <1>2
  <1>6. x.got = Profiles!Miss \/ \E k \in Profiles!Keys(x.of) : x.got = entry[k]
    BY <1>1, <1>5
  <1> QED
    BY <1>2, <1>4, <1>5, <1>6, TaskStep, Unwritten DEF Profiles!TenantGet

\* And is believed only if the row has its version now.
LEMMA CurrentVersionKeeps ==
  ASSUME DirectoryInv, NEW t \in Task, Profiles!CurrentVersion(t)
  PROVE  DirectoryInv'
  <1>1. /\ task[t] \in Doing /\ task[t].pc = "verify" /\ task[t].of \in Profiles!Subject
        /\ Past(task[t].of, task[t].got)
        /\ task[t].then # "done" => Profiles!get(task[t].of) \in task[t].was
    BY BusyTask DEF Profiles!CurrentVersion
  <1>2. CASE ~Profiles!Live(task[t].of)
    <2>1. Profiles!get(task[t].of) = Profiles!Missing /\ Profiles!Answer(t, Profiles!Missing)
      BY <1>1, <1>2 DEF Profiles!CurrentVersion, Profiles!get, Profiles!Live
    <2> QED
      BY <1>1, <2>1, AnswerStep DEF Profiles!CurrentVersion
  <1>3. CASE Profiles!Live(task[t].of) /\ Profiles!Current(task[t].got, entity[task[t].of].row.version)
    <2>1. task[t].got = entity[task[t].of].row
      BY <1>1, <1>3 DEF Past, Profiles!Current
    <2>2. Profiles!get(task[t].of) = task[t].got
      BY <1>3, <2>1 DEF Profiles!get, Profiles!Live
    <2> QED
      BY <1>1, <1>3, <2>2, AnswerStep DEF Profiles!CurrentVersion
  <1>4. CASE Profiles!Live(task[t].of) /\ ~Profiles!Current(task[t].got, entity[task[t].of].row.version)
    BY <1>1, <1>4, LoadStep DEF Profiles!CurrentVersion
  <1> QED
    BY <1>2, <1>3, <1>4

\* The row is loaded.
LEMMA LoadKeeps ==
  ASSUME DirectoryInv, NEW t \in Task, Profiles!Load(t)
  PROVE  DirectoryInv'
  <1>1. /\ task[t] \in Doing /\ task[t].of \in Profiles!Subject
        /\ task[t].then # "done" => Profiles!get(task[t].of) \in task[t].was
    BY BusyTask DEF Profiles!Load
  <1>2. CASE ~Profiles!Live(task[t].of)
    <2>1. Profiles!get(task[t].of) = Profiles!Missing /\ Profiles!Answer(t, Profiles!Missing)
      BY <1>1, <1>2 DEF Profiles!Load, Profiles!get, Profiles!Live
    <2> QED
      BY <1>1, <2>1, AnswerStep DEF Profiles!Load
  <1>3. CASE Profiles!Live(task[t].of)
    <2>1. PICK x : x = [task[t] EXCEPT !.pc = "cache", !.got = Profiles!get(task[t].of),
                                       !.puts = Profiles!Keys(task[t].of)]
      OBVIOUS
    <2>2. Profiles!get(task[t].of) \in RowRecord /\ Profiles!get(task[t].of) = entity[task[t].of].row
          /\ Profiles!Keys(task[t].of) \subseteq Profiles!Key
      BY <1>1, <1>3, RowNow, KeysAreOwn DEF DirectoryInv
    <2>3. /\ x \in Doing /\ x.pc = "cache" /\ x.of = task[t].of /\ x.got = Profiles!get(task[t].of)
          /\ x.puts = Profiles!Keys(task[t].of) /\ x.then = task[t].then /\ x.was = task[t].was
      BY <1>1, <2>1, <2>2 DEF Doing
    <2>4. task' = [task EXCEPT ![t] = x] /\ UNCHANGED <<entity, entry>>
      BY <1>3, <2>1 DEF Profiles!Load
    <2>5. /\ x.puts \subseteq Profiles!Keys(x.of) /\ x.got = entity[x.of].row
          /\ x.then # "done" => Profiles!get(x.of) \in x.was /\ x.got \in x.was
      BY <1>1, <2>2, <2>3
    <2> QED
      BY <2>3, <2>4, <2>5, TaskStep, Unwritten
  <1> QED
    BY <1>2, <1>3

\* What was loaded is cached, however old it has become.
LEMMA cacheUserKeeps ==
  ASSUME DirectoryInv, NEW t \in Task, Profiles!cacheUser(t)
  PROVE  DirectoryInv'
  <1>1. /\ task[t] \in Doing /\ task[t].pc = "cache" /\ task[t].of \in Profiles!Subject
        /\ task[t].puts \subseteq Profiles!Keys(task[t].of)
        /\ task[t].then # "done" => Profiles!get(task[t].of) \in task[t].was /\ task[t].got \in task[t].was
    BY BusyTask DEF Profiles!cacheUser
  <1>2. ASSUME NEW k \in task[t].puts, task' = [task EXCEPT ![t].puts = @ \ {k}], UNCHANGED entity,
               entry' = [entry EXCEPT ![k] = task[t].got] \/ UNCHANGED entry
        PROVE  DirectoryInv'
    <2>1. PICK x : x = [task[t] EXCEPT !.puts = task[t].puts \ {k}]
      OBVIOUS
    <2>2. /\ x \in Doing /\ x.pc = "cache" /\ x.of = task[t].of /\ x.got = task[t].got
          /\ x.puts = task[t].puts \ {k} /\ x.then = task[t].then /\ x.was = task[t].was
      BY <1>1, <2>1 DEF Doing
    <2>3. task' = [task EXCEPT ![t] = x]
      BY <1>2, <2>1
    <2>4. Rewritten(t)
      <3>1. CASE entry' = [entry EXCEPT ![k] = task[t].got]
        <4>1. entry' \in [Profiles!Key -> RowRecord]
          BY <1>1, <3>1 DEF DirectoryInv, DirectoryTypeOK, Doing
        <4>2. \A s \in Profiles!Subject : k \in Profiles!Keys(s) => s = task[t].of
          BY <1>1, <1>2, KeysAreOwn
        <4>3. \A j \in Profiles!Key : entry'[j] = entry[j] \/ (j = k /\ entry'[j] = task[t].got)
          BY <3>1 DEF DirectoryInv, DirectoryTypeOK
        <4> QED
          BY <1>1, <4>1, <4>2, <4>3, KeysAreOwn DEF Rewritten
      <3> QED
        BY <1>2, <3>1, Unwritten
    <2>5. x.puts \subseteq Profiles!Keys(x.of)
      BY <1>1, <2>2
    <2> QED
      BY <1>1, <1>2, <2>2, <2>3, <2>4, <2>5, TaskStep
  <1>3. CASE task[t].puts = {} /\ Profiles!Answer(t, task[t].got) /\ UNCHANGED <<entity, owner, entry>>
    BY <1>1, <1>3, AnswerStep
  <1> QED
    BY <1>2, <1>3 DEF Profiles!cacheUser

\* A user's row is written before its entries.
LEMMA CreateUserKeeps ==
  ASSUME DirectoryInv, NEW t \in Task, NEW p \in Person, Profiles!CreateUser(t, p)
  PROVE  DirectoryInv'
  <1>1. p \in Profiles!Subject /\ entity[p].row.version = 0
    BY DEF Profiles!Subject, Profiles!CreateUser
  <1>2. PICK row \in RowRecord : row = [version |-> 1, status |-> "active"]
    BY DEF RowRecord
  <1>3. PICK x : x = Profiles!Wrote(p, row, "cache", Profiles!Keys(p))
    OBVIOUS
  <1>4. x \in Doing /\ x.of = p /\ x.then = "done" /\ x.pc = "cache" /\ x.puts = Profiles!Keys(p)
        /\ x.got = row
    BY <1>1, <1>3, WroteIsDoing
  <1>5. Profiles!Commit(t, p, TRUE, row, x) /\ UNCHANGED entry
    BY <1>2, <1>3 DEF Profiles!CreateUser
  <1>6. row.version = entity[p].row.version + 1
    BY <1>1, <1>2
  <1> QED
    BY <1>1, <1>4, <1>5, <1>6, CommitStep

\* The owner of a tenant is read the way a user is.
LEMMA ResolveOwnerKeeps ==
  ASSUME DirectoryInv, NEW t \in Task, NEW o \in Organisation, NEW p \in Person,
         Profiles!ResolveOwner(t, o, p)
  PROVE  DirectoryInv'
  <1>1. p \in Profiles!Subject /\ <<"username", p>> \in Profiles!Keys(p) /\ <<"username", p>> \in Profiles!Key
        /\ Profiles!Live(p)
    BY KeysOfOwner, KeysAreOwn DEF Profiles!ResolveOwner
  <1>2. PICK x : x = [pc |-> "lookup", of |-> p, key |-> <<"username", p>>, version |-> entity[p].row.version,
                      got |-> Profiles!Miss, puts |-> {}, then |-> o, was |-> {Profiles!get(p)}]
    OBVIOUS
  <1>3. x \in Doing
    BY <1>1, <1>2, RowNow, Records DEF DirectoryInv, Doing
  <1>4. task' = [task EXCEPT ![t] = x] /\ UNCHANGED <<entity, entry>>
    BY <1>2 DEF Profiles!ResolveOwner
  <1>5. /\ x.of = p /\ x.version = entity[p].row.version /\ x.version > 0 /\ x.puts = {}
           /\ x.got = Profiles!Miss
        /\ x.key = <<"username", p>> /\ x.was = {entity[p].row} /\ Profiles!get(p) = entity[p].row
           /\ x.pc = "lookup"
    BY <1>1, <1>2, RowNow DEF DirectoryInv
  <1> QED
    BY <1>1, <1>3, <1>4, <1>5, TaskStep, Unwritten

\* A tenant's row is written once its owner is known.
LEMMA CreateTenantKeeps ==
  ASSUME DirectoryInv, NEW t \in Task, Profiles!CreateTenant(t)
  PROVE  DirectoryInv'
  <1>1. task[t] \in Asked /\ task[t].pc = "insert"
    BY TaskKinds DEF DirectoryInv, DirectoryTypeOK, Profiles!CreateTenant
  <1>2. task[t].then \in Organisation
    BY <1>1 DEF Asked, Profiles!NoTask
  <1>3. task[t].then \in Profiles!Subject /\ entity[task[t].then].row.version = 0
    BY <1>2, KeysOfOwner DEF Profiles!CreateTenant
  <1>4. PICK row \in RowRecord : row = [version |-> 1, status |-> "active"]
    BY DEF RowRecord
  <1>5. Profiles!Commit(t, task[t].then, TRUE, row, Profiles!NoTask) /\ UNCHANGED entry
    BY <1>4 DEF Profiles!CreateTenant
  <1>6. Profiles!NoTask \in Asked /\ Profiles!NoTask \notin Doing /\ Profiles!NoTask.pc = "idle"
    BY TaskKinds DEF Asked, Profiles!NoTask
  <1>7. row.version = entity[task[t].then].row.version + 1
    BY <1>3, <1>4
  <1> QED
    BY <1>3, <1>5, <1>6, <1>7, CommitStep

\* A write has read the row.
LEMMA WritesKeeps ==
  ASSUME DirectoryInv, NEW t \in Task, NEW s \in Profiles!Subject, NEW pc \in {"update", "delete"},
         Profiles!Writes(t, s, pc), UNCHANGED <<entity, entry>>
  PROVE  DirectoryInv'
  <1>1. PICK w : w = Profiles!Wrote(s, Profiles!Miss, pc, {})
    OBVIOUS
  <1>2. w \in Doing /\ w.of = s /\ w.then = "done" /\ w.pc = pc /\ w.puts = {} /\ w.got = Profiles!Miss
    BY <1>1, WroteIsDoing, Records
  <1>3. PICK x : x = [w EXCEPT !.version = entity[s].row.version]
    OBVIOUS
  <1>4. x \in Doing /\ x.of = s /\ x.then = "done" /\ x.pc = pc /\ x.puts = {} /\ x.got = Profiles!Miss
    BY <1>2, <1>3, RowNow DEF DirectoryInv, Doing
  <1>5. task' = [task EXCEPT ![t] = x]
    BY <1>1, <1>3 DEF Profiles!Writes
  <1> QED
    BY <1>4, <1>5, TaskStep, Unwritten

\* A new version, or a row that is no longer there.
LEMMA RowUpdateKeeps ==
  ASSUME DirectoryInv, NEW t \in Task, NEW status \in UserStatus, Profiles!Update(t, status)
  PROVE  DirectoryInv'
  <1>1. task[t] \in Doing /\ task[t].of \in Profiles!Subject /\ task[t].version \in Nat
    BY BusyTask DEF Profiles!Update, Doing
  <1>2. CASE Profiles!Live(task[t].of) /\ entity[task[t].of].row.version = task[t].version
             /\ Profiles!MayUpdate
    <2>1. PICK row \in RowRecord : row = [version |-> task[t].version + 1, status |-> status]
      <3>1. task[t].version + 1 \in Nat
        BY <1>1
      <3> QED
        BY <3>1 DEF RowRecord
    <2>2. PICK puts \in SUBSET Profiles!Keys(task[t].of) :
            puts = IF task[t].of \in Person THEN Profiles!Keys(task[t].of) ELSE {}
      OBVIOUS
    <2>3. PICK x : x = Profiles!Wrote(task[t].of, row, "invalidate", puts)
      OBVIOUS
    <2>4. x \in Doing /\ x.of = task[t].of /\ x.then = "done" /\ x.pc = "invalidate" /\ x.puts = puts
          /\ x.got = row
      BY <1>1, <2>3, WroteIsDoing
    <2>5. Profiles!Commit(t, task[t].of, TRUE, row, x) /\ UNCHANGED entry
      BY <1>2, <2>1, <2>2, <2>3 DEF Profiles!Update
    <2>6. row.version = entity[task[t].of].row.version + 1
      BY <1>2, <2>1
    <2> QED
      BY <1>1, <2>4, <2>5, <2>6, CommitStep
  <1>3. CASE task' = [task EXCEPT ![t] = Profiles!NoTask] /\ UNCHANGED entity
    BY <1>3, RestStep DEF Profiles!Update, Asked, Profiles!NoTask
  <1> QED
    BY <1>2, <1>3 DEF Profiles!Update

\* A deleted row keeps its version.
LEMMA RowDeleteKeeps ==
  ASSUME DirectoryInv, NEW t \in Task, Profiles!Delete(t)
  PROVE  DirectoryInv'
  <1>1. task[t] \in Doing /\ task[t].of \in Profiles!Subject /\ task[t].version \in Nat
    BY BusyTask DEF Profiles!Delete, Doing
  <1>2. CASE Profiles!Live(task[t].of) /\ entity[task[t].of].row.version = task[t].version
    <2>1. PICK row \in RowRecord : row = [version |-> task[t].version + 1, status |-> "closed"]
      <3>1. task[t].version + 1 \in Nat
        BY <1>1
      <3> QED
        BY <3>1 DEF RowRecord
    <2>2. PICK x : x = Profiles!Wrote(task[t].of, Profiles!Missing, "invalidate", {})
      OBVIOUS
    <2>3. x \in Doing /\ x.of = task[t].of /\ x.then = "done" /\ x.pc = "invalidate" /\ x.puts = {}
          /\ x.got = Profiles!Missing
      BY <1>1, <2>2, WroteIsDoing, Records
    <2>4. Profiles!Commit(t, task[t].of, FALSE, row, x) /\ UNCHANGED entry
      BY <1>2, <2>1, <2>2 DEF Profiles!Delete
    <2>5. row.version = entity[task[t].of].row.version + 1
      BY <1>2, <2>1
    <2> QED
      BY <1>1, <2>3, <2>4, <2>5, CommitStep
  <1>3. CASE task' = [task EXCEPT ![t] = Profiles!NoTask] /\ UNCHANGED entity
    BY <1>3, RestStep DEF Profiles!Delete, Asked, Profiles!NoTask
  <1> QED
    BY <1>2, <1>3 DEF Profiles!Delete

\* Both keys are removed, or neither.
LEMMA invalidateKeeps ==
  ASSUME DirectoryInv, NEW t \in Task, Profiles!invalidate(t)
  PROVE  DirectoryInv'
  <1>1. /\ task[t] \in Doing /\ task[t].of \in Profiles!Subject
        /\ task[t].puts \subseteq Profiles!Keys(task[t].of)
        /\ task[t].then # "done" => Profiles!get(task[t].of) \in task[t].was /\ task[t].got \in task[t].was
    BY BusyTask DEF Profiles!invalidate
  <1>2. PICK x : x = [task[t] EXCEPT !.pc = "cache"]
    OBVIOUS
  <1>3. /\ x \in Doing /\ x.pc = "cache" /\ x.of = task[t].of /\ x.got = task[t].got
        /\ x.puts = task[t].puts /\ x.then = task[t].then /\ x.was = task[t].was
    BY <1>1, <1>2 DEF Doing
  <1>4. task' = [task EXCEPT ![t] = x] /\ UNCHANGED entity
    BY <1>2 DEF Profiles!invalidate
  <1>5. Rewritten(t)
    <2>1. CASE entry' = [k \in Profiles!Key |-> IF k \in Profiles!Keys(task[t].of) THEN Profiles!Miss ELSE entry[k]]
      BY <2>1, KeysAreOwn, Records DEF DirectoryInv, DirectoryTypeOK, Rewritten
    <2> QED
      BY <2>1, Unwritten DEF Profiles!invalidate
  <1> QED
    BY <1>1, <1>3, <1>4, <1>5, TaskStep

\* A request is abandoned.
LEMMA AbandonKeeps ==
  ASSUME DirectoryInv, NEW t \in Task, Profiles!Abandon(t)
  PROVE  DirectoryInv'
  BY RestStep DEF Profiles!Abandon, Asked, Profiles!NoTask

\* No rows and an empty cache.
LEMMA DirectoryInit == Profiles!Init => DirectoryInv
  <1> SUFFICES ASSUME Profiles!Init PROVE DirectoryInv
    OBVIOUS
  <1>1. \A t \in Task : task[t] \in Asked /\ task[t] \notin Doing /\ task[t].pc = "idle"
    BY TaskKinds DEF Profiles!Init, Asked, Profiles!NoTask
  <1>2. DirectoryTypeOK
    BY <1>1, Records DEF Profiles!Init, DirectoryTypeOK, Profiles!Live
  <1>3. EntriesArePast
    BY KeysAreOwn DEF Profiles!Init, EntriesArePast, Past
  <1> QED
    BY <1>1, <1>2, <1>3 DEF DirectoryInv, LoadsArePast, ReadsSeeRow, LookupsAgree, Profiles!AnswersAreCurrent

\* Every step.
LEMMA DirectoryStep == DirectoryInv /\ [Profiles!Next]_Profiles!vars => DirectoryInv'
  <1> SUFFICES ASSUME DirectoryInv, [Profiles!Next]_Profiles!vars PROVE DirectoryInv'
    OBVIOUS
  <1>1. ASSUME NEW t \in Task, NEW p \in Person, NEW k \in Profiles!Key, Profiles!versionByID(t, p, k)
             PROVE DirectoryInv'
    BY <1>1, versionByIDKeeps
  <1>2. ASSUME NEW t \in Task, NEW o \in Organisation, Profiles!TenantGet(t, o) PROVE DirectoryInv'
    BY <1>2, TenantGetKeeps
  <1>3. ASSUME NEW t \in Task, NEW s \in Profiles!Subject, Profiles!UpdateStarts(t, s)
               \/ Profiles!DeleteStarts(t, s)
        PROVE  DirectoryInv'
    BY <1>3, WritesKeeps DEF Profiles!UpdateStarts, Profiles!DeleteStarts
  <1>4. ASSUME NEW t \in Task, NEW p \in Person, Profiles!CreateUser(t, p) PROVE DirectoryInv'
    BY <1>4, CreateUserKeeps
  <1>5. ASSUME NEW t \in Task, NEW o \in Organisation, NEW p \in Person, Profiles!ResolveOwner(t, o, p)
        PROVE  DirectoryInv'
    BY <1>5, ResolveOwnerKeeps
  <1>6. ASSUME NEW t \in Task, NEW status \in UserStatus, Profiles!Update(t, status) PROVE DirectoryInv'
    BY <1>6, RowUpdateKeeps
  <1>7. ASSUME NEW t \in Task,
               \/ Profiles!cached(t) \/ Profiles!CurrentVersion(t) \/ Profiles!Load(t)
                  \/ Profiles!cacheUser(t)
               \/ Profiles!CreateTenant(t) \/ Profiles!Delete(t) \/ Profiles!invalidate(t)
                  \/ Profiles!Abandon(t)
        PROVE  DirectoryInv'
    BY <1>7, cachedKeeps, CurrentVersionKeeps, LoadKeeps, cacheUserKeeps, CreateTenantKeeps, RowDeleteKeeps,
       invalidateKeeps, AbandonKeeps
  <1>8. CASE UNCHANGED Profiles!vars
    BY <1>8 DEF DirectoryInv, DirectoryTypeOK, EntriesArePast, LoadsArePast, Past, ReadsSeeRow,
       LookupsAgree, Agrees,
       Profiles!AnswersAreCurrent, Profiles!Live, Profiles!get, Profiles!vars
  <1> QED
    BY <1>1, <1>2, <1>3, <1>4, <1>5, <1>6, <1>7, <1>8 DEF Profiles!Next

\* For any users, tenants, requests and versions.
LEMMA DirectoryInvariant == Profiles!Spec => []DirectoryInv
  BY DirectoryInit, DirectoryStep, PTL DEF Profiles!Spec

-----------------------------------------------------------------------------
(* The lifecycle of policies.                                              *)

\* A version of a policy.
VersionRecord == [document : Lifecycle!Document, status : {"draft", "published", "archived"}]

\* The row of a policy.
LiveRow == [live : {TRUE}, code : Code, scope : Lifecycle!Scope, published : Nat,
status : {"active", "disabled"},
            version : Nat]

\* The types.
LifecycleTypeOK ==
    /\ policyRow \in [Id -> {Lifecycle!NoRow} \cup LiveRow]
    /\ versionRow \in [Id -> Seq(VersionRecord)]

\* The versions of a row are of its policy, and compile; one of them is published.
Belong(row, versions) ==
    /\ row.published \in DOMAIN versions \cup {0}
    /\ \A n \in DOMAIN versions :
         /\ versions[n].document.code = row.code /\ versions[n].document.scope = row.scope
         /\ versions[n].document.compiles
         /\ versions[n].status = "published" <=> n = row.published

\* So they are of every row; a row that is not there has none.
VersionsBelong ==
    \A i \in Id : IF policyRow[i].live THEN Belong(policyRow[i], versionRow[i]) ELSE DOMAIN versionRow[i] = {}

\* The unique index of policies.
PoliciesAreUnique ==
    \A i, j \in Id :
      policyRow[i].live /\ policyRow[j].live
      /\ policyRow[i].code = policyRow[j].code /\ policyRow[i].scope = policyRow[j].scope => i = j

\* What was reviewed was the row and one of its versions at the time; documents never change.
ReviewIsPast ==
    review.on =>
      /\ review.id \in Id /\ policyRow[review.id].live
      /\ review.row.version \in Nat /\ review.row.version <= policyRow[review.id].version
      /\ review.row.version = policyRow[review.id].version => review.row = policyRow[review.id]
      /\ review.number \in DOMAIN versionRow[review.id]
      /\ versionRow[review.id][review.number].document = review.document

\* The inductive invariant: that snapshots load needs that every version compiles, published or
\* not, for any of them may be next.
LifecycleInv == LifecycleTypeOK /\ VersionsBelong /\ PoliciesAreUnique /\ ReviewIsPast

\* A live row and its versions.
LEMMA RowKinds ==
  ASSUME LifecycleInv, NEW i \in Id
  PROVE  /\ policyRow[i].live => policyRow[i] \in LiveRow
         /\ policyRow[i] \in LiveRow => /\ policyRow[i].live /\ policyRow[i].published \in Nat
                                        /\ policyRow[i].version \in Nat
         /\ versionRow[i] \in Seq(VersionRecord)
         /\ \A n \in DOMAIN versionRow[i] : versionRow[i][n] \in VersionRecord /\ n \in Nat
  <1>1. ~Lifecycle!NoRow.live
    BY DEF Lifecycle!NoRow
  <1>2. policyRow[i] \in {Lifecycle!NoRow} \cup LiveRow /\ versionRow[i] \in Seq(VersionRecord)
    BY DEF LifecycleInv, LifecycleTypeOK
  <1>3. policyRow[i].live => policyRow[i] \in LiveRow
    BY <1>1, <1>2
  <1>4. policyRow[i] \in LiveRow => /\ policyRow[i].live /\ policyRow[i].published \in Nat
                                   /\ policyRow[i].version \in Nat
    BY DEF LiveRow
  <1>5. \A n \in DOMAIN versionRow[i] : versionRow[i][n] \in VersionRecord /\ n \in Nat
    BY <1>2
  <1> QED
    BY <1>2, <1>3, <1>4, <1>5

\* A policy is written: its row, its versions or both.
LEMMA PolicyWrite ==
  ASSUME LifecycleInv, NEW i \in Id, policyRow[i].live, NEW row \in LiveRow,
         NEW versions \in Seq(VersionRecord),
         policyRow' = [policyRow EXCEPT ![i] = row], versionRow' = [versionRow EXCEPT ![i] = versions],
         row.code = policyRow[i].code, row.scope = policyRow[i].scope, row.version = policyRow[i].version + 1,
         Belong(row, versions),
         \A n \in DOMAIN versionRow[i] :
           n \in DOMAIN versions /\ versions[n].document = versionRow[i][n].document,
         UNCHANGED review
  PROVE  LifecycleInv'
  <1>1. policyRow'[i] = row /\ versionRow'[i] = versions /\ row.live
        /\ \A j \in Id \ {i} : policyRow'[j] = policyRow[j] /\ versionRow'[j] = versionRow[j]
    BY DEF LifecycleInv, LifecycleTypeOK, LiveRow
  <1>2. LifecycleTypeOK'
    BY DEF LifecycleInv, LifecycleTypeOK
  <1>3. VersionsBelong'
    BY <1>1 DEF LifecycleInv, VersionsBelong
  <1>4. PoliciesAreUnique'
    BY <1>1 DEF LifecycleInv, PoliciesAreUnique
  <1>5. ReviewIsPast'
    <2>1. SUFFICES ASSUME review.on PROVE ReviewIsPast'
      BY DEF ReviewIsPast
    <2>2. CASE review.id = i
      <3>1. policyRow[i].version \in Nat /\ row.version \in Nat
        BY RowKinds DEF LiveRow
      <3>2. /\ review.row.version \in Nat /\ review.row.version <= policyRow[i].version
            /\ review.number \in DOMAIN versionRow[i]
               /\ versionRow[i][review.number].document = review.document
        BY <2>1, <2>2 DEF LifecycleInv, ReviewIsPast
      <3>3. review.row.version <= row.version /\ review.row.version # row.version
        BY <3>1, <3>2
      <3> QED
        BY <1>1, <2>1, <2>2, <3>2, <3>3 DEF ReviewIsPast
    <2>3. CASE review.id # i
      BY <1>1, <2>1, <2>3 DEF LifecycleInv, ReviewIsPast
    <2> QED
      BY <2>2, <2>3
  <1> QED
    BY <1>2, <1>3, <1>4, <1>5 DEF LifecycleInv

\* A policy is created with its first draft, under a code and scope that nobody has.
LEMMA CreateKeeps ==
  ASSUME LifecycleInv, NEW actor, NEW i \in Id, NEW d \in Lifecycle!Document, Lifecycle!Create(actor, i, d)
  PROVE  LifecycleInv'
  <1>1. PICK row : row = [live |-> TRUE, code |-> d.code, scope |-> d.scope, published |-> 0,
             status |-> "active",
                          version |-> 1]
    OBVIOUS
  <1>2. row \in LiveRow /\ row.live /\ row.code = d.code /\ row.scope = d.scope /\ row.published = 0
    <2>1. d.code \in Code /\ d.scope \in Lifecycle!Scope
      BY DEF Lifecycle!Document
    <2>2. 0 \in Nat /\ 1 \in Nat
      OBVIOUS
    <2> QED
      BY <1>1, <2>1, <2>2 DEF LiveRow
  <1>3. PICK first : first = [document |-> d, status |-> "draft"]
    OBVIOUS
  <1>4. first \in VersionRecord /\ first.document = d /\ first.status = "draft"
    BY <1>3 DEF VersionRecord
  <1>5. <<first>> \in Seq(VersionRecord) /\ DOMAIN <<first>> = {1} /\ <<first>>[1] = first
    BY <1>4
  <1>6. policyRow' = [policyRow EXCEPT ![i] = row] /\ versionRow' = [versionRow EXCEPT ![i] = <<first>>]
        /\ UNCHANGED review /\ ~policyRow[i].live /\ d.compiles /\ ~Lifecycle!Conflicts(d)
    BY <1>1, <1>3 DEF Lifecycle!Create
  <1>7. policyRow'[i] = row /\ versionRow'[i] = <<first>>
        /\ \A j \in Id \ {i} : policyRow'[j] = policyRow[j] /\ versionRow'[j] = versionRow[j]
    BY <1>6 DEF LifecycleInv, LifecycleTypeOK
  <1>8. LifecycleTypeOK'
    BY <1>2, <1>5, <1>6 DEF LifecycleInv, LifecycleTypeOK
  <1>9. Belong(row, <<first>>)
    <2>1. first.status # "published" /\ 1 # row.published
      BY <1>2, <1>4
    <2> QED
      BY <1>2, <1>4, <1>5, <1>6, <2>1 DEF Belong
  <1>10. VersionsBelong'
    BY <1>2, <1>7, <1>9 DEF LifecycleInv, VersionsBelong
  <1>11. PoliciesAreUnique'
    BY <1>2, <1>6, <1>7 DEF LifecycleInv, PoliciesAreUnique, Lifecycle!Conflicts
  <1>12. ReviewIsPast'
    BY <1>6, <1>7 DEF LifecycleInv, ReviewIsPast
  <1> QED
    BY <1>8, <1>10, <1>11, <1>12 DEF LifecycleInv

\* What Written writes.
LEMMA WrittenRow ==
  ASSUME LifecycleInv, NEW i \in Id, NEW old \in LiveRow
  PROVE  \E row \in LiveRow : /\ Lifecycle!Written(i, old) = [policyRow EXCEPT ![i] = row]
                              /\ row.code = old.code /\ row.scope = old.scope /\ row.version = old.version + 1
                              /\ row.published = old.published /\ row.status = old.status
  <1>1. old.version + 1 \in Nat
    BY DEF LiveRow
  <1>2. PICK row : row = [old EXCEPT !.version = old.version + 1]
    OBVIOUS
  <1>3. /\ row \in LiveRow /\ row.code = old.code /\ row.scope = old.scope /\ row.version = old.version + 1
        /\ row.published = old.published /\ row.status = old.status
    BY <1>1, <1>2 DEF LiveRow
  <1>4. Lifecycle!Written(i, old) = [policyRow EXCEPT ![i] = row]
    BY <1>2 DEF Lifecycle!Written
  <1> QED
    BY <1>3, <1>4

\* A draft is added after it has been compiled.
LEMMA CreateVersionKeeps ==
  ASSUME LifecycleInv, NEW actor, NEW i \in Id, NEW v, NEW d \in Lifecycle!Document,
         Lifecycle!CreateVersion(actor, i, v, d)
  PROVE  LifecycleInv'
  <1>1. policyRow[i].live /\ policyRow[i] \in LiveRow /\ versionRow[i] \in Seq(VersionRecord)
        /\ policyRow[i].published \in Nat /\ UNCHANGED review
    BY RowKinds DEF Lifecycle!CreateVersion, Lifecycle!lockPolicy
  <1>2. PICK row \in LiveRow : /\ policyRow' = [policyRow EXCEPT ![i] = row]
                               /\ row.code = policyRow[i].code /\ row.scope = policyRow[i].scope
                               /\ row.version = policyRow[i].version + 1
                                  /\ row.published = policyRow[i].published
    BY <1>1, WrittenRow DEF Lifecycle!CreateVersion
  <1>3. PICK draft : draft = [document |-> d, status |-> "draft"]
    OBVIOUS
  <1>4. draft \in VersionRecord /\ draft.document = d /\ draft.status # "published"
    BY <1>3 DEF VersionRecord
  <1>5. PICK versions : versions = Append(versionRow[i], draft)
    OBVIOUS
  <1>6. /\ versions \in Seq(VersionRecord)
        /\ DOMAIN versions = DOMAIN versionRow[i] \cup {Len(versionRow[i]) + 1}
        /\ \A n \in DOMAIN versionRow[i] : versions[n] = versionRow[i][n]
        /\ versions[Len(versionRow[i]) + 1] = draft
    BY <1>1, <1>4, <1>5
  <1>7. versionRow' = [versionRow EXCEPT ![i] = versions]
    BY <1>3, <1>5 DEF Lifecycle!CreateVersion, Lifecycle!Drafted
  <1>8. Belong(policyRow[i], versionRow[i])
    BY <1>1 DEF LifecycleInv, VersionsBelong
  <1>9. Len(versionRow[i]) + 1 # policyRow[i].published
    <2>1. Len(versionRow[i]) + 1 \notin DOMAIN versionRow[i] /\ Len(versionRow[i]) + 1 # 0
      BY <1>1
    <2> QED
      BY <1>8, <2>1 DEF Belong
  <1>10. d.code = policyRow[i].code /\ d.scope = policyRow[i].scope /\ d.compiles
    BY DEF Lifecycle!CreateVersion
  <1>11. Belong(row, versions)
    BY <1>2, <1>4, <1>6, <1>8, <1>9, <1>10 DEF Belong
  <1> QED
    BY <1>1, <1>2, <1>6, <1>7, <1>11, PolicyWrite

\* What Publication makes of the versions.
LEMMA PublicationOf ==
  ASSUME NEW i, NEW n \in DOMAIN versionRow[i], versionRow[i] \in Seq(VersionRecord),
         \A m \in DOMAIN versionRow[i] : versionRow[i][m] \in VersionRecord
  PROVE  /\ Lifecycle!Publication(i, n) \in Seq(VersionRecord)
         /\ DOMAIN Lifecycle!Publication(i, n) = DOMAIN versionRow[i]
         /\ \A m \in DOMAIN versionRow[i] :
              /\ Lifecycle!Publication(i, n)[m].document = versionRow[i][m].document
              /\ Lifecycle!Publication(i, n)[m].status = "published" <=> m = n
  <1>1. ASSUME NEW m \in DOMAIN versionRow[i]
        PROVE  /\ Lifecycle!Publication(i, n)[m] \in VersionRecord
               /\ Lifecycle!Publication(i, n)[m].document = versionRow[i][m].document
               /\ Lifecycle!Publication(i, n)[m].status = "published" <=> m = n
    BY DEF VersionRecord, Lifecycle!Publication
  <1>2. DOMAIN Lifecycle!Publication(i, n) = DOMAIN versionRow[i]
    BY DEF Lifecycle!Publication
  <1>3. DOMAIN versionRow[i] = 1 .. Len(versionRow[i]) /\ Len(versionRow[i]) \in Nat
    OBVIOUS
  <1>4. Lifecycle!Publication(i, n) \in [1 .. Len(versionRow[i]) -> VersionRecord]
    BY <1>1, <1>3 DEF Lifecycle!Publication
  <1> QED
    BY <1>1, <1>2, <1>3, <1>4

\* A draft is published and the one before it is archived.
LEMMA PublishKeeps ==
  ASSUME LifecycleInv, NEW actor, NEW i \in Id, NEW n, NEW v, Lifecycle!Publish(actor, i, n, v)
  PROVE  LifecycleInv'
  <1>1. /\ policyRow[i].live /\ policyRow[i] \in LiveRow /\ versionRow[i] \in Seq(VersionRecord)
        /\ \A m \in DOMAIN versionRow[i] : versionRow[i][m] \in VersionRecord /\ m \in Nat
        /\ n \in DOMAIN versionRow[i] /\ UNCHANGED review
    BY RowKinds DEF Lifecycle!Publish, Lifecycle!lockPolicy
  <1>2. PICK old : old = [policyRow[i] EXCEPT !.published = n]
    OBVIOUS
  <1>3. /\ old \in LiveRow /\ old.code = policyRow[i].code /\ old.scope = policyRow[i].scope
        /\ old.version = policyRow[i].version /\ old.published = n
    BY <1>1, <1>2 DEF LiveRow
  <1>4. PICK row \in LiveRow : /\ policyRow' = [policyRow EXCEPT ![i] = row]
                               /\ row.code = policyRow[i].code /\ row.scope = policyRow[i].scope
                               /\ row.version = policyRow[i].version + 1 /\ row.published = n
    <2>1. policyRow' = Lifecycle!Written(i, old)
      BY <1>2 DEF Lifecycle!Publish
    <2> QED
      BY <1>3, <2>1, WrittenRow
  <1>5. PICK versions : versions = Lifecycle!Publication(i, n)
    OBVIOUS
  <1>6. versions \in Seq(VersionRecord) /\ DOMAIN versions = DOMAIN versionRow[i]
        /\ \A m \in DOMAIN versionRow[i] : /\ versions[m].document = versionRow[i][m].document
                                           /\ versions[m].status = "published" <=> m = n
    BY <1>1, <1>5, PublicationOf
  <1>7. versionRow' = [versionRow EXCEPT ![i] = versions]
    BY <1>5 DEF Lifecycle!Publish
  <1>8. Belong(policyRow[i], versionRow[i])
    BY <1>1 DEF LifecycleInv, VersionsBelong
  <1>9. Belong(row, versions)
    <2>1. row.published \in DOMAIN versions
      BY <1>1, <1>4, <1>6
    <2>2. ASSUME NEW m \in DOMAIN versions
          PROVE  /\ versions[m].document.code = row.code /\ versions[m].document.scope = row.scope
                 /\ versions[m].document.compiles
      BY <1>4, <1>6, <1>8 DEF Belong
    <2>3. \A m \in DOMAIN versions : versions[m].status = "published" <=> m = row.published
      BY <1>4, <1>6
    <2> QED
      BY <2>1, <2>2, <2>3 DEF Belong
  <1>10. \A m \in DOMAIN versionRow[i] :
           m \in DOMAIN versions /\ versions[m].document = versionRow[i][m].document
    BY <1>6
  <1>11. versions \in Seq(VersionRecord)
    BY <1>6
  <1> QED
    BY <1>1, <1>4, <1>7, <1>9, <1>10, <1>11, PolicyWrite

\* A policy is disabled or enabled.
LEMMA SetStatusKeeps ==
  ASSUME LifecycleInv, NEW actor, NEW i \in Id, NEW v, NEW status \in {"active", "disabled"},
         Lifecycle!SetStatus(actor, i, v, status)
  PROVE  LifecycleInv'
  <1>1. policyRow[i].live /\ policyRow[i] \in LiveRow /\ versionRow[i] \in Seq(VersionRecord)
        /\ UNCHANGED review
    BY RowKinds DEF Lifecycle!SetStatus, Lifecycle!lockPolicy
  <1>2. PICK old : old = [policyRow[i] EXCEPT !.status = status]
    OBVIOUS
  <1>3. /\ old \in LiveRow /\ old.code = policyRow[i].code /\ old.scope = policyRow[i].scope
        /\ old.version = policyRow[i].version /\ old.published = policyRow[i].published
    BY <1>1, <1>2 DEF LiveRow
  <1>4. PICK row \in LiveRow : /\ policyRow' = [policyRow EXCEPT ![i] = row]
                               /\ row.code = policyRow[i].code /\ row.scope = policyRow[i].scope
                               /\ row.version = policyRow[i].version + 1
                                  /\ row.published = policyRow[i].published
    <2>1. policyRow' = Lifecycle!Written(i, old)
      BY <1>2 DEF Lifecycle!SetStatus
    <2> QED
      BY <1>3, <2>1, WrittenRow
  <1>5. Belong(row, versionRow[i])
    BY <1>1, <1>4 DEF Belong, LifecycleInv, VersionsBelong
  <1>6. versionRow' = [versionRow EXCEPT ![i] = versionRow[i]]
    BY DEF Lifecycle!SetStatus, LifecycleInv, LifecycleTypeOK
  <1> QED
    BY <1>1, <1>4, <1>5, <1>6, PolicyWrite

\* Simulate reads the row and a version, and writes nothing.
LEMMA ReviewKeeps ==
  ASSUME LifecycleInv, NEW actor, NEW i \in Id, NEW n, Lifecycle!Review(actor, i, n)
  PROVE  LifecycleInv'
  <1>1. policyRow[i].live /\ policyRow[i].version \in Nat /\ n \in DOMAIN versionRow[i]
    BY RowKinds DEF Lifecycle!Review
  <1>2. /\ review'.id = i /\ review'.row = policyRow[i] /\ review'.number = n
        /\ review'.document = versionRow[i][n].document
        /\ UNCHANGED <<policyRow, versionRow>>
    BY DEF Lifecycle!Review
  <1>3. ReviewIsPast'
    BY <1>1, <1>2 DEF ReviewIsPast
  <1> QED
    BY <1>2, <1>3 DEF LifecycleInv, LifecycleTypeOK, VersionsBelong, Belong, PoliciesAreUnique

\* A reviewer gives up.
LEMMA GiveUpKeeps ==
  ASSUME LifecycleInv, Lifecycle!GiveUp
  PROVE  LifecycleInv'
  BY DEF LifecycleInv, LifecycleTypeOK, VersionsBelong, Belong, PoliciesAreUnique, ReviewIsPast,
     Lifecycle!GiveUp,
     Lifecycle!NoReview

\* No policies.
LEMMA LifecycleInit == Lifecycle!Init => LifecycleInv
  <1> SUFFICES ASSUME Lifecycle!Init PROVE LifecycleInv
    OBVIOUS
  <1>1. \A i \in Id : policyRow[i] = Lifecycle!NoRow /\ ~policyRow[i].live
    BY DEF Lifecycle!Init, Lifecycle!NoRow
  <1>2. \A i \in Id : versionRow[i] = <<>> /\ DOMAIN versionRow[i] = {}
        /\ versionRow[i] \in Seq(VersionRecord)
    BY DEF Lifecycle!Init
  <1>3. LifecycleTypeOK
    BY <1>1, <1>2 DEF Lifecycle!Init, LifecycleTypeOK
  <1>4. ReviewIsPast
    BY DEF Lifecycle!Init, Lifecycle!NoReview, ReviewIsPast
  <1> QED
    <2>1. VersionsBelong
      BY <1>1, <1>2 DEF VersionsBelong
    <2>2. PoliciesAreUnique
      BY <1>1 DEF PoliciesAreUnique
    <2> QED
      BY <1>3, <1>4, <2>1, <2>2 DEF LifecycleInv

\* What was reviewed is what is published, if the row's version is still the one that was read.
LEMMA ReviewedStep ==
  ASSUME LifecycleInv, Lifecycle!PublishReviewed
  PROVE  /\ policyRow[review.id].published = review.row.published
         /\ policyRow[review.id].status = review.row.status
         /\ versionRow'[review.id][review.number].document = review.document
         /\ LifecycleInv'
  <1>1. /\ review.on /\ Lifecycle!Publish(review.actor, review.id, review.number, review.row.version)
        /\ review.id \in Id
    BY DEF LifecycleInv, ReviewIsPast, Lifecycle!PublishReviewed
  <1>2. policyRow[review.id].version = review.row.version
    BY <1>1 DEF Lifecycle!Publish, Lifecycle!lockPolicy
  <1>3. review.row = policyRow[review.id]
    BY <1>1, <1>2 DEF LifecycleInv, ReviewIsPast
  <1>4. versionRow[review.id] \in Seq(VersionRecord) /\ review.number \in DOMAIN versionRow[review.id]
        /\ \A m \in DOMAIN versionRow[review.id] : versionRow[review.id][m] \in VersionRecord /\ m \in Nat
    BY <1>1, RowKinds DEF LifecycleInv, ReviewIsPast
  <1>5. versionRow'[review.id] = Lifecycle!Publication(review.id, review.number)
    BY <1>1 DEF LifecycleInv, LifecycleTypeOK, Lifecycle!Publish
  <1>6. versionRow'[review.id][review.number].document = review.document
    BY <1>1, <1>4, <1>5, PublicationOf DEF LifecycleInv, ReviewIsPast
  <1>7. LifecycleInv'
    BY <1>1, PublishKeeps
  <1> QED
    BY <1>3, <1>6, <1>7

\* Every step.
LEMMA LifecycleStep ==
  LifecycleInv /\ [Lifecycle!Next]_Lifecycle!vars =>
    LifecycleInv' /\ (Lifecycle!PublishReviewed =>
                        /\ policyRow[review.id].published = review.row.published
                        /\ policyRow[review.id].status = review.row.status
                        /\ versionRow'[review.id][review.number].document = review.document)
  <1> SUFFICES ASSUME LifecycleInv, [Lifecycle!Next]_Lifecycle!vars PROVE LifecycleInv'
    BY ReviewedStep
  <1>1. ASSUME NEW actor \in Lifecycle!Scope, NEW i \in Id, NEW d \in Lifecycle!Document,
               Lifecycle!Create(actor, i, d)
        PROVE  LifecycleInv'
    BY <1>1, CreateKeeps
  <1>2. ASSUME NEW actor \in Lifecycle!Scope, NEW i \in Id, NEW d \in Lifecycle!Document,
               NEW v \in 1 .. MaxPolicyWrites, Lifecycle!CreateVersion(actor, i, v, d)
        PROVE  LifecycleInv'
    BY <1>2, CreateVersionKeeps
  <1>3. ASSUME NEW actor \in Lifecycle!Scope, NEW i \in Id, NEW v \in 1 .. MaxPolicyWrites,
               NEW n \in 1 .. MaxVersions,
               Lifecycle!Publish(actor, i, n, v)
        PROVE  LifecycleInv'
    BY <1>3, PublishKeeps
  <1>4. ASSUME NEW actor \in Lifecycle!Scope, NEW i \in Id, NEW v \in 1 .. MaxPolicyWrites,
               NEW status \in {"active", "disabled"}, Lifecycle!SetStatus(actor, i, v, status)
        PROVE  LifecycleInv'
    BY <1>4, SetStatusKeeps
  <1>5. ASSUME NEW actor \in Lifecycle!Scope, NEW i \in Id, NEW n \in 1 .. MaxVersions,
               Lifecycle!Review(actor, i, n)
        PROVE  LifecycleInv'
    BY <1>5, ReviewKeeps
  <1>6. ASSUME UNCHANGED <<policyRow, versionRow, review>> PROVE LifecycleInv'
    BY <1>6 DEF LifecycleInv, LifecycleTypeOK, VersionsBelong, Belong, PoliciesAreUnique, ReviewIsPast
  <1>7. ASSUME NEW t \in Tenant, Lifecycle!SetTenant(t) PROVE LifecycleInv'
    BY <1>6, <1>7 DEF Lifecycle!SetTenant
  <1>8. CASE UNCHANGED Lifecycle!vars
    BY <1>6, <1>8 DEF Lifecycle!vars
  <1> QED
    BY <1>1, <1>2, <1>3, <1>4, <1>5, <1>7, <1>8, ReviewedStep, GiveUpKeeps DEF Lifecycle!Next

-----------------------------------------------------------------------------

\* What is published of a row compiles, and is of its code and scope.
LEMMA DocumentsAccepted ==
    ASSUME LifecycleInv, NEW i \in Lifecycle!Loaded(policyRow, versionRow)
    PROVE  /\ i \in Id /\ policyRow[i].live /\ Belong(policyRow[i], versionRow[i])
           /\ Lifecycle!Accepted(policyRow[i], Lifecycle!DocumentOf(i, policyRow, versionRow))
  <1>1. i \in Id /\ policyRow[i].live /\ policyRow[i].published \in DOMAIN versionRow[i]
    BY DEF Lifecycle!Loaded
  <1>2. Belong(policyRow[i], versionRow[i])
    BY <1>1 DEF LifecycleInv, VersionsBelong
  <1> QED
    BY <1>1, <1>2 DEF Belong, Lifecycle!Accepted, Lifecycle!DocumentOf

\* What is published loads, unless there is too much of it.
LEMMA SnapshotLoads == LifecycleInv => Lifecycle!SnapshotLoads
  <1> SUFFICES ASSUME LifecycleInv PROVE Lifecycle!SnapshotLoads
    OBVIOUS
  <1>1. ASSUME NEW i \in Id, policyRow[i].live
        PROVE  \A n \in DOMAIN versionRow[i] :
                  versionRow[i][n].status = "published" <=> n = policyRow[i].published
    BY <1>1 DEF LifecycleInv, VersionsBelong, Belong
  <1>2. \A i \in Lifecycle!Loaded(policyRow, versionRow) :
           Lifecycle!Accepted(policyRow[i], Lifecycle!DocumentOf(i, policyRow, versionRow))
    BY DocumentsAccepted
  <1>3. Lifecycle!Snapshot(policyRow, versionRow).loads \/ Lifecycle!TooLarge(policyRow, versionRow)
    BY <1>2 DEF Lifecycle!Snapshot
  <1> QED
    BY <1>1, <1>3 DEF Lifecycle!SnapshotLoads

\* The publication of a draft replaces the document of its code and scope.
LEMMA SimulationPredicts == LifecycleInv => Lifecycle!SimulationPredicts
  <1> SUFFICES ASSUME LifecycleInv, NEW i \in Id, NEW n \in DOMAIN versionRow[i],
                      NEW after, after = Lifecycle!Written(i, [policyRow[i] EXCEPT !.published = n]),
                      NEW all, all = [versionRow EXCEPT ![i] = Lifecycle!Publication(i, n)],
                      policyRow[i].status = "active", policyRow[i].scope \in tenantActive \cup {"global"},
                      versionRow[i][n].status = "draft",
                      Lifecycle!Snapshot(policyRow, versionRow).loads, ~Lifecycle!TooLarge(after, all)
               PROVE  Lifecycle!Snapshot(after, all)
                        = [loads |-> TRUE, documents |-> Lifecycle!SimulateVersion(i, n)]
    BY DEF Lifecycle!SimulationPredicts
  <1>1. /\ policyRow[i].live /\ policyRow[i] \in LiveRow /\ versionRow[i] \in Seq(VersionRecord)
        /\ \A m \in DOMAIN versionRow[i] : versionRow[i][m] \in VersionRecord /\ m \in Nat
        /\ Belong(policyRow[i], versionRow[i])
    BY RowKinds DEF LifecycleInv, VersionsBelong
  <1>2. PICK old : old = [policyRow[i] EXCEPT !.published = n]
    OBVIOUS
  <1>3. /\ old \in LiveRow /\ old.code = policyRow[i].code /\ old.scope = policyRow[i].scope
        /\ old.published = n /\ old.status = policyRow[i].status
    BY <1>1, <1>2 DEF LiveRow
  <1>4. PICK row \in LiveRow : /\ Lifecycle!Written(i, old) = [policyRow EXCEPT ![i] = row]
                               /\ row.code = policyRow[i].code /\ row.scope = policyRow[i].scope
                               /\ row.published = n /\ row.status = "active"
    BY <1>3, WrittenRow
  <1>5. PICK versions : versions = Lifecycle!Publication(i, n)
    OBVIOUS
  <1>6. DOMAIN versions = DOMAIN versionRow[i]
        /\ \A m \in DOMAIN versionRow[i] : /\ versions[m].document = versionRow[i][m].document
                                           /\ versions[m].status = "published" <=> m = n
    BY <1>1, <1>5, PublicationOf
  <1>7. after = [policyRow EXCEPT ![i] = row]
    BY <1>2, <1>4
  <1>8. all = [versionRow EXCEPT ![i] = versions]
    BY <1>5
  <1>9. /\ after[i] = row /\ all[i] = versions
        /\ \A j \in Id \ {i} : after[j] = policyRow[j] /\ all[j] = versionRow[j]
    BY <1>7, <1>8 DEF LifecycleInv, LifecycleTypeOK
  <1>10. /\ i \in Lifecycle!Loaded(after, all)
         /\ \A j \in Id \ {i} : j \in Lifecycle!Loaded(after, all) <=> j \in Lifecycle!Loaded(policyRow,
            versionRow)
    <2>1. row.live /\ row.status = "active" /\ row.scope \in tenantActive \cup {"global"}
          /\ row.published \in DOMAIN versions /\ versions[row.published].status = "published"
      BY <1>1, <1>4, <1>6 DEF LiveRow
    <2>2. i \in Lifecycle!Loaded(after, all)
      BY <1>9, <2>1 DEF Lifecycle!Loaded
    <2>3. ASSUME NEW j \in Id \ {i}
          PROVE  j \in Lifecycle!Loaded(after, all) <=> j \in Lifecycle!Loaded(policyRow, versionRow)
      <3>1. after[j] = policyRow[j] /\ all[j] = versionRow[j]
        BY <1>9
      <3> QED
        BY <3>1 DEF Lifecycle!Loaded
    <2> QED
      BY <2>2, <2>3
  <1> DEFINE Doc == versionRow[i][n].document
             Others == {Lifecycle!DocumentOf(j, policyRow, versionRow) :
                          j \in Lifecycle!Loaded(policyRow, versionRow) \ {i}}
             Now == {Lifecycle!DocumentOf(j, policyRow, versionRow) :
                          j \in Lifecycle!Loaded(policyRow, versionRow)}
             Then == {Lifecycle!DocumentOf(j, after, all) : j \in Lifecycle!Loaded(after, all)}
  <1>11. Doc.code = policyRow[i].code /\ Doc.scope = policyRow[i].scope
    BY <1>1 DEF Belong
  <1>12. Then = Others \cup {Doc}
    <2>1. Lifecycle!Loaded(after, all) \subseteq Id /\ Lifecycle!Loaded(policyRow, versionRow) \subseteq Id
      BY DEF Lifecycle!Loaded
    <2>2. Lifecycle!DocumentOf(i, after, all) = Doc
      BY <1>4, <1>6, <1>9 DEF Lifecycle!DocumentOf
    <2>3. \A j \in Id \ {i} :
             Lifecycle!DocumentOf(j, after, all) = Lifecycle!DocumentOf(j, policyRow, versionRow)
      BY <1>9 DEF Lifecycle!DocumentOf
    <2> QED
      BY <1>10, <2>1, <2>2, <2>3
  <1>13. \A x \in Others : x.code # Doc.code \/ x.scope # Doc.scope
    <2>1. SUFFICES ASSUME NEW j \in Lifecycle!Loaded(policyRow, versionRow) \ {i}
                   PROVE  \/ Lifecycle!DocumentOf(j, policyRow, versionRow).code # Doc.code
                          \/ Lifecycle!DocumentOf(j, policyRow, versionRow).scope # Doc.scope
      OBVIOUS
    <2>2. j \in Id /\ j # i /\ policyRow[j].live
          /\ Lifecycle!Accepted(policyRow[j], Lifecycle!DocumentOf(j, policyRow, versionRow))
      BY DocumentsAccepted
    <2> QED
      BY <1>1, <1>11, <2>2 DEF LifecycleInv, PoliciesAreUnique, Lifecycle!Accepted
  <1>14. ASSUME NEW x \in Now, x.code # Doc.code \/ x.scope # Doc.scope
         PROVE  x \in Others
    <2>1. PICK j \in Lifecycle!Loaded(policyRow, versionRow) :
             x = Lifecycle!DocumentOf(j, policyRow, versionRow)
      OBVIOUS
    <2>2. Lifecycle!Accepted(policyRow[j], x)
      BY <2>1, DocumentsAccepted
    <2>3. j # i
      BY <1>11, <1>14, <2>2 DEF Lifecycle!Accepted
    <2> QED
      BY <2>1, <2>3
  <1>15. Others \subseteq Now
    OBVIOUS
  <1>16. Lifecycle!SimulateVersion(i, n) = Others \cup {Doc}
    <2>1. Lifecycle!Snapshot(policyRow, versionRow).documents = Now
      BY DEF Lifecycle!Snapshot, Lifecycle!NoSnapshot
    <2>2. Lifecycle!SimulateVersion(i, n) = {x \in Now : x.code # Doc.code \/ x.scope # Doc.scope} \cup {Doc}
      BY <2>1 DEF Lifecycle!SimulateVersion, Lifecycle!replacePolicy
    <2> HIDE DEF Doc, Others, Now
    <2> QED
      BY <1>13, <1>14, <1>15, <2>2
  <1>17. ASSUME NEW j \in Lifecycle!Loaded(after, all)
         PROVE  Lifecycle!Accepted(after[j], Lifecycle!DocumentOf(j, after, all))
    <2>1. CASE j = i
      BY <1>1, <1>4, <1>6, <1>9, <2>1 DEF Belong, Lifecycle!Accepted, Lifecycle!DocumentOf
    <2>2. CASE j # i
      <3>1. j \in Id \ {i} /\ j \in Lifecycle!Loaded(policyRow, versionRow)
        BY <1>10, <2>2 DEF Lifecycle!Loaded
      <3>2. Lifecycle!Accepted(policyRow[j], Lifecycle!DocumentOf(j, policyRow, versionRow))
        BY <3>1, DocumentsAccepted
      <3> QED
        BY <1>9, <3>1, <3>2 DEF Lifecycle!DocumentOf
    <2> QED
      BY <2>1, <2>2
  <1>18. Lifecycle!Snapshot(after, all) = [loads |-> TRUE, documents |-> Then]
    BY <1>17 DEF Lifecycle!Snapshot
  <1> QED
    BY <1>12, <1>16, <1>18

\* What is published loads unless it is beyond a limit of loadAllPublished, and a simulation predicts
\* what its publication loads within the limits (Publish, SimulateVersion): for any policies,
\* versions, reviewers, sizes and limits.
THEOREM LifecycleSound == Lifecycle!Spec => []Lifecycle!LifecycleIsSound
  <1>1. LifecycleInv => Lifecycle!LifecycleIsSound
    BY SnapshotLoads, SimulationPredicts DEF Lifecycle!LifecycleIsSound
  <1> QED
    BY <1>1, LifecycleInit, LifecycleStep, PTL DEF Lifecycle!Spec

\* PublishesWhatWasReviewed: the version that is published is the one its manager saw last, as no
\* draft changed it in between (PublishReviewed checks the version it was given).
THEOREM ReviewedIsPublished == Lifecycle!Spec => PublishesWhatWasReviewed
  BY LifecycleInit, LifecycleStep, PTL
     DEF Lifecycle!Spec, PublishesWhatWasReviewed, Lifecycle!PublishesWhatWasReviewed

-----------------------------------------------------------------------------
(* Listings.                                                               *)

\* Whose rows a listing shows (the WHERE of its statement).
KindsOf(w) ==
    CASE w.name \in {"jobs", "configs", "accounts", "users", "all tenants", "dictionaries", "applications",
                     "permissions", "resources"} -> Pages!Kind
      [] w.name \in {"public configs", "options", "actions", "platform grants"} -> {"own", "other", "shared"}
      [] w.name = "grantable" -> {"own", "other"}
      [] w.name \in {"ceiling", "operation log", "security log"} -> {"own", "closed"}
      [] w.name \in {"platform grantable", "system log", "system security log"} -> {"shared"}
      [] w.name \in {"policies", "versions"} -> IF w.caller = "tenant" THEN {"own", "shared"} ELSE {"shared"}
      [] w.name = "files" -> IF w.caller = "tenant" THEN {"own"} ELSE {"shared"}
      [] OTHER -> {"own"}

\* How a listing is sorted (its ORDER BY).
OrderOf(w) ==
    IF w.sorts # <<>> THEN w.sorts \o <<Pages!Asc("id")>>
    ELSE CASE w.name \in {"applications", "options", "available page", "available", "departments",
                          "permissions", "navigation"} -> <<Pages!Asc("at"), Pages!Asc("id")>>
           [] w.name \in {"configs", "public configs"} -> <<Pages!Asc("at"), Pages!Asc("key")>>
           [] w.name \in {"items", "actions"} -> <<Pages!Asc("at"), Pages!Asc("key"), Pages!Asc("id")>>
           [] w.name \in {"jobs", "grantable", "ceiling", "resources", "platform grantable"} ->
                  <<Pages!Asc("key"), Pages!Asc("id")>>
           [] w.name = "dictionaries" -> <<Pages!Asc("key")>>
           [] w.name = "versions" -> <<Pages!Desc("key")>>
           [] w.name \in {"platform grants", "operation log", "system log", "security log",
                          "system security log"} -> <<Pages!Desc("at"), Pages!Desc("id")>>
           [] OTHER -> Pages!Newest

\* The rows of a table.
Table == [ListRow -> [live : BOOLEAN, kind : Pages!Kind, at : Nat]]

\* What the client may have asked for: the orders it may choose name no column twice.
Sorts == {<<>>, <<Pages!Desc("at")>>}

\* A walk of a client that was let in.
Walk == [pc : {"asked", "counted", "answered", "reading", "done"}, name : Pages!Name,
caller : Pages!Everybody,
         sorts : Sorts, size : Nat \ {0}, page : Nat \ {0}, total : Nat, seen : Seq(ListRow),
         start : SUBSET ListRow, left : BOOLEAN, wrote : BOOLEAN, torn : BOOLEAN]

\* The rows of the listing w in the table t.
Listed(t, w) == {r \in ListRow : t[r].live /\ t[r].kind \in KindsOf(w)}

\* The value of a column, of which key and id differ from row to row.
ColumnIn(t, r, column) == CASE column = "at" -> t[r].at [] column = "key" -> -r [] OTHER -> r

\* a comes before b in the table t.
Precedes(t, a, b, by) ==
    \E i \in DOMAIN by :
      /\ \A j \in 1..(i - 1) : ColumnIn(t, a, by[j].column) = ColumnIn(t, b, by[j].column)
      /\ IF by[i].desc THEN ColumnIn(t, a, by[i].column) > ColumnIn(t, b, by[i].column)
                       ELSE ColumnIn(t, a, by[i].column) < ColumnIn(t, b, by[i].column)

\* How many rows of the listing w come before r.
Rank(t, w, r) == Cardinality({x \in Listed(t, w) : Precedes(t, x, r, OrderOf(w))})

\* The orders that a column decides whose values differ from row to row.
Decisive == {by \in Seq([column : {"at", "key", "id"}, desc : BOOLEAN]) :
               \E i \in DOMAIN by : by[i].column \in {"key", "id"}}

\* The rows of the pages that were read.
ReadSoFar(w) == IF w.pc \in {"asked", "counted"} THEN (w.page - 1) * w.size ELSE w.page * w.size

\* What a sequence shows.
Elements(s) == {s[i] : i \in DOMAIN s}

\* The rows that the client has seen.
Seen(w) == Elements(w.seen)

\* The types: a walk has begun, was refused or is none yet.
WalkTypeOK == /\ table \in Table /\ walk \in Walk \cup {[pc |-> "idle"], [pc |-> "refused"]}
              /\ walk \in Walk /\ walk.sorts # <<>> => walk.name \in Pages!Sortable

\* Nothing that was there has left: the rows of the beginning are still listed, and the client has
\* seen those among them that come first, as many as it has read.
PagesInv ==
    ~walk.left =>
      /\ walk.start \subseteq Listed(table, walk)
      /\ walk.pc \in {"asked", "counted", "answered"} =>
           \A r \in walk.start : Rank(table, walk, r) < ReadSoFar(walk) => r \in Seen(walk)

\* The count is of the rows that the page is read from, unless something was written in between.
TotalInv ==
    /\ walk.pc = "counted" /\ ~walk.torn => walk.total = Cardinality(Listed(table, walk))
    /\ walk.pc = "answered" /\ ~walk.torn /\ ~walk.left /\ walk.total <= ReadSoFar(walk) =>
         walk.start \subseteq Seen(walk)

\* Where nothing was written, each page is as long as it can be.
StillInv ==
    ~walk.wrote =>
      /\ walk.start = Listed(table, walk)
      /\ walk.pc \in {"asked", "counted", "answered"} =>
           Len(walk.seen) = IF ReadSoFar(walk) <= Cardinality(walk.start) THEN ReadSoFar(walk)
                            ELSE Cardinality(walk.start)
      /\ walk.pc \in {"counted", "answered"} => walk.total = Cardinality(walk.start)

\* The inductive invariant.
WalkInv ==
    /\ WalkTypeOK
    /\ walk \in Walk => PagesInv /\ TotalInv /\ StillInv
    /\ Pages!WalksAreComplete

-----------------------------------------------------------------------------

\* The naturals that are smaller than another.
Less == {ss \in Nat \X Nat : ss[1] < ss[2]}

\* The order of the naturals is well-founded.
LEMMA LessIsWellFounded == IsWellFoundedOn(Less, Nat)
  BY NatLessThanWellFounded DEF OpToRel, Less

\* A set of naturals that is not empty has a least element.
LEMMA LeastNat ==
  ASSUME NEW T \in SUBSET Nat, T # {}
  PROVE  \E n \in T : \A m \in T : n <= m
  <1>1. \E n \in T : \A m \in T : <<m, n>> \notin Less
    BY LessIsWellFounded, WFMin
  <1>2. \A n, m \in T : <<m, n>> \notin Less => n <= m
    BY DEF Less
  <1> QED
    BY <1>1, <1>2

\* Listing counts with the library's Cardinality.
LEMMA PagesCardinality == \A S : Pages!Cardinality(S) = Cardinality(S)
  BY DEF Pages!Cardinality, Cardinality

\* Any set of rows can be counted.
LEMMA RowsAreFinite ==
    ASSUME NEW S \in SUBSET ListRow PROVE IsFiniteSet(S) /\ Cardinality(S) \in Nat
  BY ListingAssumption, FS_Subset, FS_CardinalityType

\* The listings of Listing show what KindsOf and OrderOf say.
LEMMA ListIs ==
    ASSUME NEW w, w.name \in Pages!Name, w.caller \in Pages!Everybody, w.sorts \in Sorts,
           w.sorts # <<>> => w.name \in Pages!Sortable
    PROVE  /\ Pages!List(w.name, w.caller, w.sorts).rows = Listed(table, w)
           /\ Pages!List(w.name, w.caller, w.sorts).by = OrderOf(w)
  <1>1. CASE w.name = "jobs"
    <2>1. CASE w.sorts = <<>>
      BY <1>1, <2>1
         DEF Pages!List, Pages!JobDefinitions, Pages!Paged, Pages!definitionOrder, Pages!ById,
             Pages!Of, Listed, KindsOf, OrderOf
    <2>2. CASE w.sorts # <<>>
      <3>1. OrderOf(w) = w.sorts \o <<Pages!Asc("id")>>
        BY <1>1, <2>2 DEF OrderOf
      <3>2. Pages!List(w.name, w.caller, w.sorts).rows = Listed(table, w)
        BY <1>1, <2>2 DEF Pages!List, Pages!JobDefinitions, Pages!Paged, Pages!Of, Listed, KindsOf
      <3>3. Pages!List(w.name, w.caller, w.sorts).by = w.sorts \o <<Pages!Asc("id")>>
        BY <1>1, <2>2
           DEF Pages!List, Pages!JobDefinitions, Pages!Paged, Pages!definitionOrder, Pages!ById
      <3> QED
        BY <3>1, <3>2, <3>3
    <2> QED
      BY <2>1, <2>2
  <1>2. CASE w.name = "runs"
    <2>1. CASE w.sorts = <<>>
      BY <1>2, <2>1
         DEF Pages!List, Pages!JobRuns, Pages!Paged, Pages!runOrder, Pages!ById, Pages!Of, Listed,
             KindsOf, OrderOf, Pages!Newest
    <2>2. CASE w.sorts # <<>>
      <3>1. OrderOf(w) = w.sorts \o <<Pages!Asc("id")>>
        BY <1>2, <2>2 DEF OrderOf
      <3>2. Pages!List(w.name, w.caller, w.sorts).rows = Listed(table, w)
        BY <1>2, <2>2 DEF Pages!List, Pages!JobRuns, Pages!Paged, Pages!Of, Listed, KindsOf
      <3>3. Pages!List(w.name, w.caller, w.sorts).by = w.sorts \o <<Pages!Asc("id")>>
        BY <1>2, <2>2 DEF Pages!List, Pages!JobRuns, Pages!Paged, Pages!runOrder, Pages!ById
      <3> QED
        BY <3>1, <3>2, <3>3
    <2> QED
      BY <2>1, <2>2
  <1>3. CASE w.name = "configs"
    BY <1>3
       DEF Pages!List, Pages!Configs, Pages!Paged, Pages!Of, Listed, KindsOf, OrderOf,
           Pages!Everybody, Pages!Sortable
  <1>4. CASE w.name = "public configs"
    BY <1>4
       DEF Pages!List, Pages!PublicConfigs, Pages!Whole, Pages!Of, Listed, KindsOf, OrderOf,
           Pages!Everybody, Pages!Sortable
  <1>5. CASE w.name = "accounts"
    BY <1>5
       DEF Pages!List, Pages!ServiceAccounts, Pages!Paged, Pages!Of, Listed, KindsOf, OrderOf,
           Pages!Everybody, Pages!Sortable
  <1>6. CASE w.name = "users"
    BY <1>6
       DEF Pages!List, Pages!Users, Pages!Paged, Pages!UserRows, Pages!Of, Listed, KindsOf,
           OrderOf, Pages!Everybody, Pages!Sortable
  <1>7. CASE w.name = "tenants"
    BY <1>7
       DEF Pages!List, Pages!Tenants, Pages!TenantRows, Pages!Paged, Pages!Of, Listed, KindsOf,
           OrderOf, Pages!Sortable
  <1>8. CASE w.name = "all tenants"
    BY <1>8
       DEF Pages!List, Pages!AllTenants, Pages!TenantRows, Pages!Paged, Pages!Of, Listed, KindsOf,
           OrderOf, Pages!Sortable
  <1>9. CASE w.name = "available page"
    BY <1>9
       DEF Pages!List, Pages!AvailablePage, Pages!Paged, Pages!Of, Listed, KindsOf, OrderOf,
           Pages!Everybody, Pages!Sortable
  <1>10. CASE w.name = "available"
    BY <1>10
       DEF Pages!List, Pages!Available, Pages!AvailablePage, Pages!Paged, Pages!Of, Listed,
           KindsOf, OrderOf, Pages!Everybody, Pages!Sortable
  <1>11. CASE w.name = "dictionaries"
    BY <1>11
       DEF Pages!List, Pages!DictionaryDefinitions, Pages!Paged, Pages!Of, Listed, KindsOf,
           OrderOf, Pages!Everybody, Pages!Sortable
  <1>12. CASE w.name = "items"
    BY <1>12
       DEF Pages!List, Pages!DictionaryItems, Pages!Paged, Pages!Of, Listed, KindsOf, OrderOf,
           Pages!Everybody, Pages!Sortable
  <1>13. CASE w.name = "applications"
    <2>1. CASE w.sorts = <<>>
      BY <1>13, <2>1
         DEF Pages!List, Pages!ApplicationPage, Pages!Paged, Pages!applicationOrder, Pages!ById,
             Pages!Of, Listed, KindsOf, OrderOf
    <2>2. CASE w.sorts # <<>>
      <3>1. OrderOf(w) = w.sorts \o <<Pages!Asc("id")>>
        BY <1>13, <2>2 DEF OrderOf
      <3>2. Pages!List(w.name, w.caller, w.sorts).rows = Listed(table, w)
        BY <1>13, <2>2
           DEF Pages!List, Pages!ApplicationPage, Pages!Paged, Pages!Of, Listed, KindsOf
      <3>3. Pages!List(w.name, w.caller, w.sorts).by = w.sorts \o <<Pages!Asc("id")>>
        BY <1>13, <2>2
           DEF Pages!List, Pages!ApplicationPage, Pages!Paged, Pages!applicationOrder, Pages!ById
      <3> QED
        BY <3>1, <3>2, <3>3
    <2> QED
      BY <2>1, <2>2
  <1>14. CASE w.name = "options"
    <2>1. CASE w.sorts = <<>>
      BY <1>14, <2>1
         DEF Pages!List, Pages!ApplicationOptions, Pages!Paged, Pages!dictionaryOrder, Pages!ById,
             Pages!Of, Listed, KindsOf, OrderOf
    <2>2. CASE w.sorts # <<>>
      <3>1. OrderOf(w) = w.sorts \o <<Pages!Asc("id")>>
        BY <1>14, <2>2 DEF OrderOf
      <3>2. Pages!List(w.name, w.caller, w.sorts).rows = Listed(table, w)
        BY <1>14, <2>2
           DEF Pages!List, Pages!ApplicationOptions, Pages!Paged, Pages!Of, Listed, KindsOf
      <3>3. Pages!List(w.name, w.caller, w.sorts).by = w.sorts \o <<Pages!Asc("id")>>
        BY <1>14, <2>2
           DEF Pages!List, Pages!ApplicationOptions, Pages!Paged, Pages!dictionaryOrder,
               Pages!ById
      <3> QED
        BY <3>1, <3>2, <3>3
    <2> QED
      BY <2>1, <2>2
  <1>15. CASE w.name = "grants"
    <2>1. CASE w.sorts = <<>>
      BY <1>15, <2>1
         DEF Pages!List, Pages!GrantPage, Pages!Paged, Pages!grantOrder, Pages!ById, Pages!Of,
             Listed, KindsOf, OrderOf, Pages!Newest
    <2>2. CASE w.sorts # <<>>
      <3>1. OrderOf(w) = w.sorts \o <<Pages!Asc("id")>>
        BY <1>15, <2>2 DEF OrderOf
      <3>2. Pages!List(w.name, w.caller, w.sorts).rows = Listed(table, w)
        BY <1>15, <2>2 DEF Pages!List, Pages!GrantPage, Pages!Paged, Pages!Of, Listed, KindsOf
      <3>3. Pages!List(w.name, w.caller, w.sorts).by = w.sorts \o <<Pages!Asc("id")>>
        BY <1>15, <2>2 DEF Pages!List, Pages!GrantPage, Pages!Paged, Pages!grantOrder, Pages!ById
      <3> QED
        BY <3>1, <3>2, <3>3
    <2> QED
      BY <2>1, <2>2
  <1>16. CASE w.name = "roles"
    BY <1>16
       DEF Pages!List, Pages!pageRoles, Pages!Paged, Pages!Of, Listed, KindsOf, OrderOf,
           Pages!Sortable
  <1>17. CASE w.name = "assignable roles"
    BY <1>17
       DEF Pages!List, Pages!RoleAssignmentCandidates, Pages!pageRoles, Pages!Paged, Pages!Of,
           Listed, KindsOf, OrderOf, Pages!Sortable
  <1>18. CASE w.name = "administrators"
    BY <1>18
       DEF Pages!List, Pages!PlatformAdministratorCandidates, Pages!pageAdministratorCandidates,
           Pages!Paged, Pages!Of, Listed, KindsOf, OrderOf, Pages!Everybody, Pages!Sortable
  <1>19. CASE w.name = "own administrators"
    BY <1>19
       DEF Pages!List, Pages!TenantAdministratorCandidates, Pages!pageAdministratorCandidates,
           Pages!Paged, Pages!Of, Listed, KindsOf, OrderOf, Pages!Everybody, Pages!Sortable
  <1>20. CASE w.name = "grantable"
    BY <1>20
       DEF Pages!List, Pages!TenantGrantablePermissions, Pages!Paged, Pages!Of, Listed, KindsOf,
           OrderOf, Pages!Sortable
  <1>21. CASE w.name = "ceiling"
    BY <1>21
       DEF Pages!List, Pages!TenantPermissionCeiling, Pages!Whole, Pages!Of, Listed, KindsOf,
           OrderOf, Pages!Sortable
  <1>22. CASE w.name = "members"
    BY <1>22
       DEF Pages!List, Pages!Members, Pages!PageMembers, Pages!Paged, Pages!Of, Listed, KindsOf,
           OrderOf, Pages!Sortable
  <1>23. CASE w.name = "departments"
    BY <1>23
       DEF Pages!List, Pages!Departments, Pages!Whole, Pages!Of, Listed, KindsOf, OrderOf,
           Pages!Sortable
  <1>24. CASE w.name = "permissions"
    BY <1>24
       DEF Pages!List, Pages!Permissions, Pages!Whole, Pages!Of, Listed, KindsOf, OrderOf,
           Pages!Everybody, Pages!Sortable
  <1>25. CASE w.name = "navigation"
    BY <1>25
       DEF Pages!List, Pages!Navigations, Pages!Whole, Pages!Of, Listed, KindsOf, OrderOf,
           Pages!Everybody, Pages!Sortable
  <1>26. CASE w.name = "resources"
    BY <1>26
       DEF Pages!List, Pages!Resources, Pages!pageConditions, Pages!Paged, Pages!Of, Listed,
           KindsOf, OrderOf, Pages!Everybody, Pages!Sortable
  <1>27. CASE w.name = "actions"
    BY <1>27
       DEF Pages!List, Pages!Actions, Pages!pageConditions, Pages!Paged, Pages!Of, Listed,
           KindsOf, OrderOf, Pages!Everybody, Pages!Sortable
  <1>28. CASE w.name = "platform grants"
    BY <1>28
       DEF Pages!List, Pages!PlatformGrants, Pages!Paged, Pages!Of, Listed, KindsOf, OrderOf,
           Pages!Everybody, Pages!Sortable
  <1>29. CASE w.name = "platform grantable"
    BY <1>29
       DEF Pages!List, Pages!GrantablePermissions, Pages!Paged, Pages!Of, Listed, KindsOf,
           OrderOf, Pages!Everybody, Pages!Sortable
  <1>30. CASE w.name = "policies"
    BY <1>30
       DEF Pages!List, Pages!Policies, Pages!Paged, Pages!visiblePolicies, Pages!Of, Listed,
           KindsOf, OrderOf, Pages!Everybody, Pages!Sortable
  <1>31. CASE w.name = "versions"
    BY <1>31
       DEF Pages!List, Pages!Versions, Pages!Paged, Pages!visiblePolicies, Pages!Of, Listed,
           KindsOf, OrderOf, Pages!Everybody, Pages!Sortable
  <1>32. CASE w.name = "operation log"
    BY <1>32
       DEF Pages!List, Pages!OperationLogs, Pages!Logs, Pages!Paged, Pages!Of, Listed, KindsOf,
           OrderOf, Pages!Everybody, Pages!Sortable
  <1>33. CASE w.name = "system log"
    BY <1>33
       DEF Pages!List, Pages!SystemOperationLogs, Pages!Logs, Pages!Paged, Pages!Of, Listed,
           KindsOf, OrderOf, Pages!Everybody, Pages!Sortable
  <1>34. CASE w.name = "security log"
    BY <1>34
       DEF Pages!List, Pages!SecurityLogs, Pages!Logs, Pages!Paged, Pages!Of, Listed, KindsOf,
           OrderOf, Pages!Everybody, Pages!Sortable
  <1>35. CASE w.name = "system security log"
    BY <1>35
       DEF Pages!List, Pages!SystemSecurityLogs, Pages!Logs, Pages!Paged, Pages!Of, Listed,
           KindsOf, OrderOf, Pages!Everybody, Pages!Sortable
  <1>36. CASE w.name = "files"
    BY <1>36
       DEF Pages!List, Pages!Files, Pages!Paged, Pages!Of, Listed, KindsOf, OrderOf,
           Pages!Everybody, Pages!Sortable
  <1> QED
    BY <1>1, <1>2, <1>3, <1>4, <1>5, <1>6, <1>7, <1>8, <1>9, <1>10, <1>11, <1>12, <1>13, <1>14,
       <1>15, <1>16, <1>17, <1>18, <1>19, <1>20, <1>21, <1>22, <1>23, <1>24, <1>25, <1>26, <1>27,
       <1>28, <1>29, <1>30, <1>31, <1>32, <1>33, <1>34, <1>35, <1>36
       DEF Pages!Name

\* Every listing is sorted by a list of columns that tells any two rows apart.
LEMMA OrderDecides ==
    ASSUME NEW w, w.name \in Pages!Name, w.sorts \in Sorts
    PROVE  OrderOf(w) \in Decisive
  <1> DEFINE R == [column : {"at", "key", "id"}, desc : BOOLEAN]
  <1>1. PICK by : by = OrderOf(w)
    OBVIOUS
  <1>2. \/ by = w.sorts \o <<Pages!Asc("id")>> /\ w.sorts # <<>>
        \/ by = <<Pages!Asc("at"), Pages!Asc("id")>> \/ by = <<Pages!Asc("at"), Pages!Asc("key")>>
        \/ by = <<Pages!Asc("at"), Pages!Asc("key"), Pages!Asc("id")>>
           \/ by = <<Pages!Asc("key"), Pages!Asc("id")>>
        \/ by = <<Pages!Asc("key")>> \/ by = <<Pages!Desc("key")>>
        \/ by = <<Pages!Desc("at"), Pages!Desc("id")>> \/ by = Pages!Newest
    <2>1. CASE w.sorts # <<>>
      BY <1>1, <2>1 DEF OrderOf
    <2>2. CASE w.sorts = <<>>
      BY <1>1, <2>2 DEF OrderOf
    <2> QED
      BY <2>1, <2>2
  <1>3. /\ \A column \in {"at", "key", "id"} : Pages!Asc(column) \in R /\ Pages!Desc(column) \in R
        /\ \A column : Pages!Asc(column).column = column /\ Pages!Desc(column).column = column
    BY DEF Pages!Asc, Pages!Desc
  <1>4. CASE by = w.sorts \o <<Pages!Asc("id")>> /\ w.sorts # <<>>
    <2>1. w.sorts = <<Pages!Desc("at")>>
      BY <1>4 DEF Sorts
    <2>2. <<Pages!Desc("at")>> \in Seq(R) /\ <<Pages!Asc("id")>> \in Seq(R)
      BY <1>3
    <2>3. by \in Seq(R) /\ Len(by) = 2 /\ by[2] = Pages!Asc("id")
      BY <1>4, <2>1, <2>2
    <2>4. 2 \in DOMAIN by /\ by[2].column = "id"
      BY <1>3, <2>3
    <2> QED
      BY <1>1, <2>3, <2>4 DEF Decisive
  <1>5. ASSUME NEW x \in R, NEW y \in R, NEW z \in R
        PROVE  /\ x.column \in {"key", "id"} => <<x>> \in Decisive
               /\ y.column \in {"key", "id"} => <<x, y>> \in Decisive
               /\ z.column \in {"key", "id"} => <<x, y, z>> \in Decisive
    <2>1. ASSUME x.column \in {"key", "id"} PROVE <<x>> \in Decisive
      <3>1. <<x>> \in Seq(R) /\ 1 \in DOMAIN <<x>> /\ <<x>>[1] = x
        OBVIOUS
      <3> QED
        BY <2>1, <3>1 DEF Decisive
    <2>2. ASSUME y.column \in {"key", "id"} PROVE <<x, y>> \in Decisive
      <3>1. <<x, y>> \in Seq(R) /\ 2 \in DOMAIN <<x, y>> /\ <<x, y>>[2] = y
        OBVIOUS
      <3> QED
        BY <2>2, <3>1 DEF Decisive
    <2>3. ASSUME z.column \in {"key", "id"} PROVE <<x, y, z>> \in Decisive
      <3>1. <<x, y, z>> \in Seq(R) /\ 3 \in DOMAIN <<x, y, z>> /\ <<x, y, z>>[3] = z
        OBVIOUS
      <3> QED
        BY <2>3, <3>1 DEF Decisive
    <2> QED
      BY <2>1, <2>2, <2>3
  <1> HIDE DEF R
  <1> QED
    BY <1>1, <1>2, <1>3, <1>4, <1>5 DEF Pages!Newest

\* No row comes before itself, and of two different rows one comes before the other.
LEMMA OrderIsTotal ==
    ASSUME NEW t \in Table, NEW by \in Decisive, NEW a \in ListRow, NEW b \in ListRow
    PROVE  /\ ~Precedes(t, a, a, by)
           /\ a # b => Precedes(t, a, b, by) \/ Precedes(t, b, a, by)
  <1> DEFINE V(r, i) == ColumnIn(t, r, by[i].column)
  <1>1. \A r \in ListRow, i \in DOMAIN by : V(r, i) \in Int
    BY ListingAssumption DEF Table, ColumnIn
  <1>2. ~Precedes(t, a, a, by)
    BY <1>1 DEF Precedes
  <1>3. ASSUME a # b PROVE Precedes(t, a, b, by) \/ Precedes(t, b, a, by)
    <2> DEFINE D == {i \in DOMAIN by : V(a, i) # V(b, i)}
    <2>1. DOMAIN by = 1..Len(by) /\ Len(by) \in Nat
      OBVIOUS
    <2>2. D \in SUBSET Nat /\ D # {}
      <3>1. PICK i \in DOMAIN by : by[i].column \in {"key", "id"}
        BY DEF Decisive
      <3>2. V(a, i) # V(b, i)
        BY <1>3, <3>1, ListingAssumption DEF ColumnIn
      <3> QED
        BY <2>1, <3>1, <3>2
    <2>3. PICK i \in D : \A j \in D : i <= j
      <3> HIDE DEF D
      <3> QED
        BY <2>2, LeastNat
    <2>4. \A j \in 1..(i - 1) : V(a, j) = V(b, j)
      BY <2>1, <2>3
    <2>5. V(a, i) < V(b, i) \/ V(b, i) < V(a, i)
      BY <1>1, <2>3
    <2>6. V(a, i) \in Int /\ V(b, i) \in Int /\ i \in DOMAIN by
      BY <1>1, <2>3
    <2>7. by[i].desc \in BOOLEAN
      <3>1. by[i] \in [column : {"at", "key", "id"}, desc : BOOLEAN]
        BY <2>6, <2>1, ElementOfSeq DEF Decisive
      <3> QED
        BY <3>1
    <2> QED
      BY <2>4, <2>5, <2>6, <2>7 DEF Precedes
  <1> QED
    BY <1>2, <1>3

\* What the database may answer lists each row once, after as many rows as come before it.
LEMMA AnswerRanks ==
    ASSUME table \in Table, NEW by \in Decisive, NEW S \in SUBSET ListRow, NEW s \in Pages!OrderedBy(S, by)
    PROVE  /\ s \in Seq(ListRow) /\ Len(s) = Cardinality(S)
           /\ \A r \in S : \E i \in 1..Len(s) : s[i] = r
              /\ Cardinality({x \in S : Precedes(table, x, r, by)}) = i - 1
  <1> DEFINE n == Cardinality(S)
  <1>1. n \in Nat /\ IsFiniteSet(S)
    BY RowsAreFinite
  <1>2. /\ s \in [1..n -> S] /\ \A i, j \in 1..n : i # j => s[i] # s[j]
        /\ \A i, j \in 1..n : i < j => ~Pages!Before(s[j], s[i], by)
    BY PagesCardinality DEF Pages!OrderedBy, Pages!SetToSeqs
  <1>3. \A a, b : Pages!Before(a, b, by) = Precedes(table, a, b, by)
    BY DEF Pages!Before, Precedes, Pages!ColumnValue, ColumnIn
  <1>4. s \in Seq(ListRow) /\ Len(s) = n
    BY <1>1, <1>2
  <1>5. \A r \in S : \E i \in 1..n : s[i] = r
    <2>1. s \in Injection(1..n, S)
      BY <1>2 DEF Injection, IsInjective
    <2>2. IsFiniteSet(1..n) /\ Cardinality(1..n) = n
      BY <1>1, FS_Interval
    <2>3. s \in Surjection(1..n, S)
      BY <2>1, <2>2, <1>1, FS_Injection
    <2> QED
      BY <2>3 DEF Surjection
  <1>6. ASSUME NEW i \in 1..n PROVE Cardinality({x \in S : Precedes(table, x, s[i], by)}) = i - 1
    <2> DEFINE B == {x \in S : Precedes(table, x, s[i], by)}
    <2>1. \A j \in 1..n : s[j] \in B <=> j < i
      <3> SUFFICES ASSUME NEW j \in 1..n PROVE s[j] \in B <=> j < i
        OBVIOUS
      <3>1. s[i] \in ListRow /\ s[j] \in ListRow /\ s[j] \in S
        BY <1>2
      <3>2. CASE j = i
        BY <3>1, <3>2, OrderIsTotal
      <3>3. CASE i < j
        BY <3>1, <3>3, <1>2, <1>3
      <3>4. CASE j < i
        <4>1. ~Precedes(table, s[i], s[j], by) /\ s[i] # s[j]
          BY <3>4, <1>2, <1>3
        <4> QED
          BY <4>1, <3>1, <3>4, OrderIsTotal
      <3> QED
        BY <3>2, <3>3, <3>4
    <2> DEFINE f == [j \in 1..(i - 1) |-> s[j]]
    <2>2. f \in Bijection(1..(i - 1), B)
      <3>1. \A j \in 1..(i - 1) : j \in 1..n /\ j < i
        BY <1>1
      <3>2. f \in [1..(i - 1) -> B]
        BY <2>1, <3>1
      <3>3. \A j, k \in 1..(i - 1) : f[j] = f[k] => j = k
        BY <1>2, <3>1
      <3>4. \A x \in B : \E j \in 1..(i - 1) : f[j] = x
        <4> SUFFICES ASSUME NEW x \in B PROVE \E j \in 1..(i - 1) : f[j] = x
          OBVIOUS
        <4>1. PICK j \in 1..n : s[j] = x
          BY <1>5
        <4>2. j < i
          BY <4>1, <2>1
        <4>3. j \in 1..(i - 1)
          BY <4>2, <1>1
        <4> QED
          BY <4>1, <4>3
      <3> HIDE DEF f, B
      <3>5. DOMAIN f = 1..(i - 1)
        BY <3>2
      <3> QED
        BY <3>2, <3>3, <3>4, <3>5 DEF Bijection, Injection, Surjection, IsInjective
    <2>3. ExistsBijection(1..(i - 1), B)
      BY <2>2 DEF ExistsBijection
    <2>4. IsFiniteSet(1..(i - 1)) /\ Cardinality(1..(i - 1)) = i - 1
      <3>1. 1 \in Int /\ i - 1 \in Int /\ i >= 1
        BY <1>1
      <3>2. IsFiniteSet(1..(i - 1)) /\ Cardinality(1..(i - 1)) = IF 1 > i - 1 THEN 0 ELSE i - 1 - 1 + 1
        BY <3>1, FS_Interval
      <3> QED
        BY <3>1, <3>2
    <2> QED
      BY <2>3, <2>4, FS_Bijection
  <1> QED
    BY <1>4, <1>5, <1>6

\* A page is the part of the answer that LIMIT and OFFSET cut out of it.
LEMMA LimitIs ==
    ASSUME NEW s \in Seq(ListRow), NEW from \in Nat, NEW n \in Nat
    PROVE  /\ Pages!Limit(s, from, n) \in Seq(ListRow)
           /\ Len(Pages!Limit(s, from, n)) = IF Len(s) <= from THEN 0
                                             ELSE IF Len(s) < from + n THEN Len(s) - from ELSE n
           /\ \A i \in 1..Len(s) : from < i /\ i <= from + n =>
                s[i] \in Elements(Pages!Limit(s, from, n))
  <1> DEFINE m == IF Len(s) < from + n THEN Len(s) ELSE from + n
  <1> DEFINE p == SubSeq(s, from + 1, m)
  <1>1. Pages!Limit(s, from, n) = p
    BY DEF Pages!Limit
  <1>2. m \in Nat /\ m <= Len(s) /\ m <= from + n /\ (m = Len(s) \/ m = from + n) /\ Len(s) \in Nat
    OBVIOUS
  <1> HIDE DEF m
  <1>3. \A i \in (from + 1)..m : s[i] \in ListRow
    BY <1>2
  <1>4. /\ p \in Seq(ListRow)
        /\ Len(p) = IF from + 1 <= m THEN m - (from + 1) + 1 ELSE 0
        /\ \A i \in 1..(m - (from + 1) + 1) : p[i] = s[from + 1 + i - 1]
    BY <1>2, <1>3
  <1> HIDE DEF p
  <1>5. Len(p) = IF Len(s) <= from THEN 0 ELSE IF Len(s) < from + n THEN Len(s) - from ELSE n
    BY <1>2, <1>4
  <1>6. ASSUME NEW i \in 1..Len(s), from < i, i <= from + n PROVE s[i] \in Elements(p)
    <2>1. i <= m
      BY <1>2, <1>6
    <2>2. i - from \in 1..(m - (from + 1) + 1) /\ from + 1 + (i - from) - 1 = i
      BY <2>1, <1>2, <1>6
    <2>3. p[i - from] = s[i]
      BY <2>2, <1>4
    <2>4. i - from \in 1..Len(p) /\ DOMAIN p = 1..Len(p)
      BY <2>2, <1>4, <1>2
    <2> QED
      BY <2>3, <2>4 DEF Elements
  <1> QED
    BY <1>1, <1>4, <1>5, <1>6

-----------------------------------------------------------------------------

\* What the types say of a walk that has begun.
LEMMA WalkFacts ==
    ASSUME WalkTypeOK, walk \in Walk
    PROVE  /\ walk.pc \in {"asked", "counted", "answered", "reading", "done"}
           /\ walk.size \in Nat \ {0} /\ walk.page \in Nat \ {0} /\ walk.total \in Nat
           /\ walk.seen \in Seq(ListRow) /\ walk.start \in SUBSET ListRow
           /\ walk.left \in BOOLEAN /\ walk.wrote \in BOOLEAN /\ walk.torn \in BOOLEAN
           /\ ReadSoFar(walk) \in Nat /\ (walk.page - 1) * walk.size \in Nat /\ walk.page * walk.size \in Nat
           /\ (walk.page - 1) * walk.size + walk.size = walk.page * walk.size
           /\ Pages!Current.rows = Listed(table, walk) /\ Pages!Current.by = OrderOf(walk)
           /\ OrderOf(walk) \in Decisive /\ Listed(table, walk) \in SUBSET ListRow
  <1>1. walk.name \in Pages!Name /\ walk.caller \in Pages!Everybody /\ walk.sorts \in Sorts
        /\ (walk.sorts # <<>> => walk.name \in Pages!Sortable)
    BY DEF Walk, WalkTypeOK
  <1>2. /\ walk.pc \in {"asked", "counted", "answered", "reading", "done"}
        /\ walk.size \in Nat \ {0} /\ walk.page \in Nat \ {0} /\ walk.total \in Nat
        /\ walk.seen \in Seq(ListRow) /\ walk.start \in SUBSET ListRow
        /\ walk.left \in BOOLEAN /\ walk.wrote \in BOOLEAN /\ walk.torn \in BOOLEAN
    BY DEF Walk
  <1>3. ASSUME NEW m \in Nat \ {0}, NEW n \in Nat \ {0}
        PROVE  (m - 1) * n \in Nat /\ m * n \in Nat /\ (m - 1) * n + n = m * n
    <2>1. m - 1 \in Nat
      OBVIOUS
    <2> QED
      BY <2>1
  <1>4. ReadSoFar(walk) \in Nat
    BY <1>2, <1>3 DEF ReadSoFar
  <1>5. Pages!Current.rows = Listed(table, walk) /\ Pages!Current.by = OrderOf(walk)
    BY <1>1, ListIs DEF Pages!Current
  <1> QED
    BY <1>1, <1>2, <1>3, <1>4, <1>5, OrderDecides DEF Listed

\* Ask: a walk begins with nothing read and everything listed still there.
LEMMA AskKeeps ==
    ASSUME WalkInv, NEW name \in Pages!Name, NEW caller \in Pages!Everybody, NEW size \in Int,
           NEW sorts \in {<<>>, <<Pages!Desc("at")>>, <<Pages!Asc("at"), Pages!Desc("at")>>},
           Pages!Ask(name, caller, sorts, size)
    PROVE  WalkInv'
  <1>1. CASE walk' = [pc |-> "refused"]
    BY <1>1 DEF WalkInv, WalkTypeOK, Walk, Pages!Ask, Pages!WalksAreComplete
  <1>2. CASE walk' # [pc |-> "refused"]
    <2> DEFINE list == Pages!List(name, caller, sorts)
    <2> DEFINE w == [pc |-> IF list.paged THEN "asked" ELSE "reading", name |-> name, caller |-> caller,
                     sorts |-> sorts, size |-> Pages!Normalize(size), page |-> 1, total |-> 0, seen |-> <<>>,
                     start |-> list.rows, left |-> FALSE, wrote |-> FALSE, torn |-> FALSE]
    <2>1. walk' = w /\ Pages!ValidSize(size) /\ Pages!Distinct(sorts) /\ table' = table
          /\ (sorts # <<>> => name \in Pages!Sortable)
      BY <1>2 DEF Pages!Ask
    <2>2. sorts \in Sorts
      <3>1. ~Pages!Distinct(<<Pages!Asc("at"), Pages!Desc("at")>>)
        BY DEF Pages!Distinct, Pages!Asc, Pages!Desc
      <3> QED
        BY <2>1, <3>1 DEF Sorts
    <2>3. w.name = name /\ w.caller = caller /\ w.sorts = sorts
      OBVIOUS
    <2>4. Pages!List(w.name, w.caller, w.sorts).rows = Listed(table, w)
      <3> HIDE DEF w
      <3> QED
        BY <2>1, <2>2, <2>3, ListIs
    <2>5. list.rows = Listed(table, w) /\ list.rows \in SUBSET ListRow
      BY <2>3, <2>4 DEF Listed
    <2>6. Pages!Normalize(size) \in Nat \ {0}
      BY <2>1, ListingAssumption DEF Pages!ValidSize, Pages!Normalize
    <2>7. w \in Walk /\ w.pc \in {"asked", "reading"} /\ w.page = 1 /\ w.seen = <<>> /\ w.start = list.rows
          /\ w.size \in Nat
      BY <2>1, <2>2, <2>5, <2>6 DEF Walk
    <2> HIDE DEF w, list
    <2>8. WalkTypeOK'
      BY <2>1, <2>3, <2>7 DEF WalkInv, WalkTypeOK
    <2>9. w.pc = "asked" => ReadSoFar(w) = 0
      BY <2>7 DEF ReadSoFar
    <2>10. \A r \in w.start : Rank(table, w, r) \in Nat
      BY RowsAreFinite DEF Rank, Listed
    <2>11. Cardinality(w.start) \in Nat
      BY RowsAreFinite, <2>5, <2>7
    <2>12. PagesInv' /\ TotalInv' /\ StillInv'
      BY <2>1, <2>5, <2>7, <2>9, <2>10, <2>11 DEF PagesInv, TotalInv, StillInv
    <2>13. Pages!WalksAreComplete'
      BY <2>1, <2>7 DEF Pages!WalksAreComplete
    <2> QED
      BY <2>8, <2>12, <2>13 DEF WalkInv
  <1> QED
    BY <1>1, <1>2

\* What a step leaves as it is keeps what it decides.
LEMMA SameListing ==
    ASSUME walk \in Walk, walk'.name = walk.name, walk'.caller = walk.caller, walk'.sorts = walk.sorts
    PROVE  /\ OrderOf(walk') = OrderOf(walk) /\ KindsOf(walk') = KindsOf(walk)
           /\ \A t : Listed(t, walk') = Listed(t, walk)
           /\ \A t, r : Rank(t, walk', r) = Rank(t, walk, r)
  BY DEF Listed, KindsOf, Rank, OrderOf

\* Count: the total is of the rows as they are now.
LEMMA CountKeeps ==
    ASSUME WalkInv, Pages!Count PROVE WalkInv'
  <1>1. walk \in Walk /\ walk.pc = "asked" /\ WalkTypeOK
    BY DEF WalkInv, WalkTypeOK, Pages!Count
  <1>2. walk' = [walk EXCEPT !.pc = "counted", !.total = Cardinality(Listed(table, walk)), !.torn = FALSE]
        /\ table' = table
    BY <1>1, WalkFacts, PagesCardinality DEF Pages!Count
  <1>3. Cardinality(Listed(table, walk)) \in Nat
    BY <1>1, WalkFacts, RowsAreFinite
  <1>4. walk' \in Walk /\ walk'.pc = "counted" /\ walk'.total = Cardinality(Listed(table, walk))
        /\ walk'.name = walk.name /\ walk'.caller = walk.caller /\ walk'.sorts = walk.sorts
        /\ walk'.page = walk.page /\ walk'.size = walk.size /\ walk'.seen = walk.seen
           /\ walk'.start = walk.start
        /\ walk'.left = walk.left /\ walk'.wrote = walk.wrote
    BY <1>1, <1>2, <1>3 DEF Walk
  <1>5. Listed(table, walk') = Listed(table, walk) /\ ReadSoFar(walk') = ReadSoFar(walk)
        /\ Seen(walk') = Seen(walk)
        /\ \A r : Rank(table, walk', r) = Rank(table, walk, r)
    BY <1>1, <1>4, SameListing DEF ReadSoFar, Seen
  <1>6. PagesInv' /\ TotalInv' /\ StillInv'
    BY <1>1, <1>2, <1>4, <1>5 DEF WalkInv, PagesInv, TotalInv, StillInv
  <1> QED
    BY <1>1, <1>2, <1>4, <1>6 DEF WalkInv, WalkTypeOK, Pages!WalksAreComplete

\* Two sequences after each other show what they show.
LEMMA SeenTogether ==
    ASSUME NEW s \in Seq(ListRow), NEW p \in Seq(ListRow)
    PROVE  /\ s \o p \in Seq(ListRow) /\ Len(s \o p) = Len(s) + Len(p)
           /\ Elements(s) \subseteq Elements(s \o p) /\ Elements(p) \subseteq Elements(s \o p)
  <1>1. /\ s \o p \in Seq(ListRow) /\ Len(s \o p) = Len(s) + Len(p)
        /\ \A k \in 1..(Len(s) + Len(p)) : (s \o p)[k] = IF k <= Len(s) THEN s[k] ELSE p[k - Len(s)]
    OBVIOUS
  <1>2. /\ DOMAIN s = 1..Len(s) /\ DOMAIN p = 1..Len(p) /\ DOMAIN (s \o p) = 1..(Len(s) + Len(p))
        /\ Len(s) \in Nat /\ Len(p) \in Nat
    BY <1>1
  <1>3. ASSUME NEW i \in DOMAIN s PROVE i \in DOMAIN (s \o p) /\ (s \o p)[i] = s[i]
    BY <1>1, <1>2
  <1>4. ASSUME NEW j \in DOMAIN p PROVE Len(s) + j \in DOMAIN (s \o p) /\ (s \o p)[Len(s) + j] = p[j]
    <2>1. Len(s) + j \in 1..(Len(s) + Len(p)) /\ ~(Len(s) + j <= Len(s)) /\ Len(s) + j - Len(s) = j
      BY <1>2
    <2> QED
      BY <1>1, <1>2, <2>1
  <1>5. Elements(s) \subseteq Elements(s \o p)
    <2> SUFFICES ASSUME NEW x \in Elements(s) PROVE x \in Elements(s \o p)
      OBVIOUS
    <2>1. PICK i \in DOMAIN s : s[i] = x
      BY DEF Elements
    <2> QED
      BY <2>1, <1>3 DEF Elements
  <1>6. Elements(p) \subseteq Elements(s \o p)
    <2> SUFFICES ASSUME NEW x \in Elements(p) PROVE x \in Elements(s \o p)
      OBVIOUS
    <2>1. PICK j \in DOMAIN p : p[j] = x
      BY DEF Elements
    <2> QED
      BY <2>1, <1>4 DEF Elements
  <1> QED
    BY <1>1, <1>5, <1>6

\* Select: the page holds the rows whose rank is between what was read and its end.
LEMMA SelectKeeps ==
    ASSUME WalkInv, Pages!Select PROVE WalkInv'
  <1> DEFINE S == Listed(table, walk)
             n == Cardinality(S)
             from == (walk.page - 1) * walk.size
             upto == walk.page * walk.size
  <1>1. walk \in Walk /\ walk.pc = "counted" /\ WalkTypeOK /\ table' = table /\ table \in Table
    BY DEF WalkInv, WalkTypeOK, Pages!Select
  <1>2. PICK s \in Pages!OrderedBy(S, OrderOf(walk)) :
          walk' = [walk EXCEPT !.pc = "answered", !.seen = @ \o Pages!Limit(s, from, walk.size)]
    BY <1>1, WalkFacts DEF Pages!Select, Pages!Offset
  <1>3. /\ s \in Seq(ListRow) /\ Len(s) = n /\ n \in Nat
        /\ \A r \in S : \E i \in 1..n : s[i] = r /\ Rank(table, walk, r) = i - 1
    <2>1. OrderOf(walk) \in Decisive /\ S \in SUBSET ListRow
      BY <1>1, WalkFacts
    <2>2. n \in Nat
      BY <2>1, RowsAreFinite
    <2> QED
      BY <1>1, <2>1, <2>2, AnswerRanks DEF Rank
  <1>4. /\ from \in Nat /\ walk.size \in Nat /\ upto \in Nat /\ from + walk.size = upto
        /\ walk.seen \in Seq(ListRow) /\ ReadSoFar(walk) = from /\ walk.start \in SUBSET ListRow
    BY <1>1, WalkFacts DEF ReadSoFar
  <1> HIDE DEF S, n, from, upto
  <1>5. PICK p : p = Pages!Limit(s, from, walk.size)
    OBVIOUS
  <1>6. /\ p \in Seq(ListRow)
        /\ Len(p) = IF n <= from THEN 0 ELSE IF n < upto THEN n - from ELSE walk.size
        /\ \A i \in 1..n : from < i /\ i <= upto => s[i] \in Elements(p)
    <2>1. /\ Pages!Limit(s, from, walk.size) \in Seq(ListRow)
          /\ Len(Pages!Limit(s, from, walk.size)) = IF Len(s) <= from THEN 0
                                                  ELSE IF Len(s) < from + walk.size THEN Len(s) - from ELSE walk.size
          /\ \A i \in 1..Len(s) : from < i /\ i <= from + walk.size =>
               s[i] \in Elements(Pages!Limit(s, from, walk.size))
      <3>1. s \in Seq(ListRow) /\ from \in Nat /\ walk.size \in Nat
        BY <1>3, <1>4
      <3> QED
        BY <3>1, LimitIs
    <2> QED
      BY <2>1, <1>3, <1>4, <1>5
  <1>7. /\ walk.seen \o p \in Seq(ListRow) /\ Len(walk.seen \o p) = Len(walk.seen) + Len(p)
        /\ Seen(walk) \subseteq Elements(walk.seen \o p) /\ Elements(p) \subseteq Elements(walk.seen \o p)
    BY <1>4, <1>6, SeenTogether DEF Seen
  <1>8. walk' \in Walk /\ walk'.pc = "answered" /\ walk'.seen = walk.seen \o p
        /\ walk'.name = walk.name /\ walk'.caller = walk.caller /\ walk'.sorts = walk.sorts
        /\ walk'.page = walk.page /\ walk'.size = walk.size /\ walk'.start = walk.start
        /\ walk'.left = walk.left /\ walk'.wrote = walk.wrote /\ walk'.torn = walk.torn
           /\ walk'.total = walk.total
    BY <1>1, <1>2, <1>5, <1>7 DEF Walk
  <1>9. /\ Listed(table, walk') = S /\ ReadSoFar(walk') = upto
        /\ \A r : Rank(table, walk', r) = Rank(table, walk, r)
        /\ Seen(walk') = Elements(walk.seen \o p)
    BY <1>1, <1>8, SameListing DEF ReadSoFar, Seen, S, upto
  <1>10. ASSUME ~walk.left PROVE /\ walk.start \subseteq S
                                 /\ \A r \in walk.start : Rank(table, walk, r) < upto => r \in Seen(walk')
    <2>1. walk.start \subseteq S /\ \A r \in walk.start : Rank(table, walk, r) < from => r \in Seen(walk)
      BY <1>1, <1>4, <1>10 DEF WalkInv, PagesInv, S
    <2> SUFFICES ASSUME NEW r \in walk.start, Rank(table, walk, r) < upto PROVE r \in Seen(walk')
      BY <2>1
    <2>2. PICK i \in 1..n : s[i] = r /\ Rank(table, walk, r) = i - 1
      BY <1>3, <2>1
    <2>3. CASE i - 1 < from
      BY <2>1, <2>2, <2>3, <1>7, <1>9
    <2>4. CASE ~(i - 1 < from)
      <3>1. from < i /\ i <= upto
        BY <2>2, <2>4, <1>3, <1>4
      <3> QED
        BY <2>2, <3>1, <1>6, <1>7, <1>9
    <2> QED
      BY <2>3, <2>4
  <1>11. ASSUME ~walk.torn, ~walk.left, walk.total <= upto PROVE walk.start \subseteq Seen(walk')
    <2>1. walk.total = n
      BY <1>1, <1>11 DEF WalkInv, TotalInv, S, n
    <2> SUFFICES ASSUME NEW r \in walk.start PROVE r \in Seen(walk')
      OBVIOUS
    <2>2. PICK i \in 1..n : Rank(table, walk, r) = i - 1
      BY <1>3, <1>10, <1>11
    <2>3. Rank(table, walk, r) < upto
      BY <2>1, <2>2, <1>11, <1>3, <1>4
    <2> QED
      BY <2>3, <1>10, <1>11
  <1>12. ASSUME ~walk.wrote
         PROVE  /\ walk.start = S /\ walk.total = n
                /\ Len(walk.seen \o p) = IF upto <= n THEN upto ELSE n
    <2>1. walk.start = S /\ walk.total = n /\ Len(walk.seen) = IF from <= n THEN from ELSE n
      BY <1>1, <1>4, <1>12 DEF WalkInv, StillInv, S, n
    <2>2. PICK m \in Nat : m = walk.size
      BY <1>4
    <2>3. Len(p) = IF n <= from THEN 0 ELSE IF n < upto THEN n - from ELSE m
      BY <2>2, <1>6
    <2>4. n \in Nat /\ from \in Nat /\ upto \in Nat /\ from + m = upto
      BY <2>2, <1>3, <1>4
    <2>5. Len(walk.seen) + Len(p) = IF upto <= n THEN upto ELSE n
      BY <2>1, <2>3, <2>4
    <2> QED
      BY <2>1, <2>5, <1>7
  <1>13. PagesInv'
    BY <1>1, <1>8, <1>9, <1>10 DEF PagesInv
  <1>14. TotalInv'
    BY <1>8, <1>9, <1>11 DEF TotalInv
  <1>15. StillInv'
    BY <1>1, <1>8, <1>9, <1>12 DEF StillInv, n
  <1> QED
    BY <1>1, <1>8, <1>13, <1>14, <1>15 DEF WalkInv, WalkTypeOK, Pages!WalksAreComplete

\* NextPage: a walk ends when the total says that everything was read.
LEMMA NextPageKeeps ==
    ASSUME WalkInv, Pages!NextPage PROVE WalkInv'
  <1>1. walk \in Walk /\ walk.pc = "answered" /\ WalkTypeOK /\ table' = table
    BY DEF WalkInv, WalkTypeOK, Pages!NextPage
  <1>2. /\ walk.page \in Nat \ {0} /\ walk.page + 1 \in Nat \ {0} /\ walk.page + 1 - 1 = walk.page
        /\ walk.page * walk.size \in Nat /\ ReadSoFar(walk) = walk.page * walk.size /\ walk.total \in Nat
        /\ walk.start \in SUBSET ListRow
    BY <1>1, WalkFacts DEF ReadSoFar
  <1>3. PagesInv /\ TotalInv /\ StillInv
    BY <1>1 DEF WalkInv
  <1>4. CASE walk' = [walk EXCEPT !.pc = "asked", !.page = @ + 1]
    <2>1. walk' \in Walk /\ walk'.pc = "asked" /\ walk'.page = walk.page + 1 /\ walk'.size = walk.size
          /\ walk'.name = walk.name /\ walk'.caller = walk.caller /\ walk'.sorts = walk.sorts
          /\ walk'.seen = walk.seen /\ walk'.start = walk.start
          /\ walk'.left = walk.left /\ walk'.wrote = walk.wrote
      BY <1>1, <1>2, <1>4 DEF Walk
    <2>2. /\ Listed(table, walk') = Listed(table, walk) /\ \A r : Rank(table, walk', r) = Rank(table, walk, r)
          /\ Seen(walk') = Seen(walk) /\ ReadSoFar(walk') = ReadSoFar(walk)
      BY <1>1, <1>2, <2>1, SameListing DEF Seen, ReadSoFar
    <2>3. PagesInv' /\ TotalInv' /\ StillInv'
      BY <1>1, <1>3, <2>1, <2>2 DEF PagesInv, TotalInv, StillInv
    <2> QED
      BY <1>1, <2>1, <2>3 DEF WalkInv, WalkTypeOK, Pages!WalksAreComplete
  <1>5. CASE walk' = [walk EXCEPT !.pc = "done"] /\ ~(walk.page * walk.size < walk.total)
    <2>1. walk' \in Walk /\ walk'.pc = "done" /\ walk'.total = walk.total
          /\ walk'.name = walk.name /\ walk'.caller = walk.caller /\ walk'.sorts = walk.sorts
          /\ walk'.seen = walk.seen /\ walk'.start = walk.start
          /\ walk'.left = walk.left /\ walk'.wrote = walk.wrote /\ walk'.torn = walk.torn
      BY <1>1, <1>5 DEF Walk
    <2>2. Listed(table, walk') = Listed(table, walk)
      BY <1>1, <2>1, SameListing
    <2>3. PagesInv' /\ TotalInv' /\ StillInv'
      BY <1>1, <1>3, <2>1, <2>2 DEF PagesInv, TotalInv, StillInv
    <2>4. walk.total <= ReadSoFar(walk)
      BY <1>2, <1>5
    <2>5. ~walk.left /\ ~walk.torn => walk.start \subseteq Seen(walk)
      BY <1>1, <1>3, <2>4 DEF TotalInv
    <2>6. ~walk.wrote => Len(walk.seen) = Cardinality(walk.start) /\ walk.total = Len(walk.seen)
      <3>1. Cardinality(walk.start) \in Nat
        BY <1>2, RowsAreFinite
      <3> QED
        BY <1>1, <1>2, <1>3, <2>4, <3>1 DEF StillInv
    <2>7. Pages!WalksAreComplete'
      BY <2>1, <2>5, <2>6, PagesCardinality DEF Pages!WalksAreComplete, Seen, Elements
    <2> QED
      BY <1>1, <2>1, <2>3, <2>7 DEF WalkInv, WalkTypeOK
  <1> QED
    BY <1>4, <1>5 DEF Pages!NextPage

\* ReadWhole: a list without pages is everything that is listed, or is refused.
LEMMA ReadWholeKeeps ==
    ASSUME WalkInv, Pages!ReadWhole PROVE WalkInv'
  <1> DEFINE S == Listed(table, walk)
             n == Cardinality(S)
  <1>1. walk \in Walk /\ walk.pc = "reading" /\ WalkTypeOK /\ table' = table /\ table \in Table
    BY DEF WalkInv, WalkTypeOK, Pages!ReadWhole
  <1>2. PICK s \in Pages!OrderedBy(S, OrderOf(walk)) :
          LET answer == Pages!Complete(Pages!Limit(s, 0, MaxListRows + 1))
          IN  walk' = IF answer = <<>> THEN [pc |-> "refused"]
                      ELSE [walk EXCEPT !.pc = "done", !.seen = answer[1], !.total = Len(answer[1])]
    BY <1>1, WalkFacts DEF Pages!ReadWhole
  <1>3. /\ s \in Seq(ListRow) /\ Len(s) = n /\ n \in Nat /\ S \in SUBSET ListRow
        /\ \A r \in S : \E i \in 1..n : s[i] = r
    <2>1. OrderOf(walk) \in Decisive /\ S \in SUBSET ListRow
      BY <1>1, WalkFacts
    <2>2. n \in Nat
      BY <2>1, RowsAreFinite
    <2>3. /\ s \in Seq(ListRow) /\ Len(s) = Cardinality(S)
          /\ \A r \in S : \E i \in 1..Len(s) :
               s[i] = r /\ Cardinality({x \in S : Precedes(table, x, r, OrderOf(walk))}) = i - 1
      <3> HIDE DEF S
      <3> QED
        BY <1>1, <2>1, AnswerRanks
    <2> HIDE DEF S
    <2> QED
      BY <2>1, <2>2, <2>3
  <1> HIDE DEF S, n
  <1>4. PICK p : p = Pages!Limit(s, 0, MaxListRows + 1)
    OBVIOUS
  <1>5. /\ p \in Seq(ListRow)
           /\ Len(p) = IF n <= 0 THEN 0 ELSE IF n < 0 + (MaxListRows + 1) THEN n - 0 ELSE MaxListRows + 1
        /\ \A i \in 1..n : 0 < i /\ i <= 0 + (MaxListRows + 1) => s[i] \in Elements(p)
    <2>1. 0 \in Nat /\ MaxListRows + 1 \in Nat
      BY ListingAssumption
    <2> QED
      <3>1. /\ Pages!Limit(s, 0, MaxListRows + 1) \in Seq(ListRow)
            /\ Len(Pages!Limit(s, 0, MaxListRows + 1)) =
                 IF Len(s) <= 0 THEN 0 ELSE IF Len(s) < 0 + (MaxListRows + 1) THEN Len(s) - 0 ELSE MaxListRows + 1
            /\ \A i \in 1..Len(s) : 0 < i /\ i <= 0 + (MaxListRows + 1) =>
                 s[i] \in Elements(Pages!Limit(s, 0, MaxListRows + 1))
        BY <1>3, <2>1, LimitIs
      <3> QED
        BY <3>1, <1>3, <1>4
  <1>6. CASE Len(p) > MaxListRows
    <2>1. walk' = [pc |-> "refused"]
      BY <1>2, <1>4, <1>6 DEF Pages!Complete
    <2> QED
      BY <1>1, <2>1 DEF WalkInv, WalkTypeOK, Walk, Pages!WalksAreComplete
  <1>7. CASE ~(Len(p) > MaxListRows)
    <2>1. walk' = [walk EXCEPT !.pc = "done", !.seen = p, !.total = Len(p)]
      <3>1. Pages!Complete(p) = <<p>> /\ <<p>> # <<>> /\ <<p>>[1] = p
        BY <1>7 DEF Pages!Complete
      <3> QED
        BY <1>2, <1>4, <3>1
    <2>2. Len(p) = n /\ S \subseteq Elements(p)
      <3>1. Len(p) = n /\ n <= MaxListRows
        BY <1>3, <1>5, <1>7, ListingAssumption
      <3>2. \A i \in 1..n : 0 < i /\ i <= 0 + (MaxListRows + 1)
        BY <1>3, <3>1, ListingAssumption
      <3> QED
        BY <1>3, <1>5, <3>1, <3>2
    <2>3. walk' \in Walk /\ walk'.pc = "done" /\ walk'.total = n /\ walk'.seen = p
          /\ walk'.name = walk.name /\ walk'.caller = walk.caller /\ walk'.sorts = walk.sorts
          /\ walk'.start = walk.start
          /\ walk'.left = walk.left /\ walk'.wrote = walk.wrote /\ walk'.torn = walk.torn
      BY <1>1, <1>3, <1>5, <2>1, <2>2 DEF Walk
    <2>4. Listed(table, walk') = Listed(table, walk)
      BY <1>1, <2>3, SameListing
    <2>5. /\ ~walk.left => walk.start \subseteq S
          /\ ~walk.wrote => walk.start = S
      BY <1>1 DEF WalkInv, PagesInv, StillInv, S
    <2>6. PagesInv' /\ TotalInv' /\ StillInv'
      BY <1>1, <2>3, <2>4, <2>5 DEF PagesInv, TotalInv, StillInv, S
    <2>7. Pages!WalksAreComplete'
      BY <2>2, <2>3, <2>5, PagesCardinality DEF Pages!WalksAreComplete, Elements, n
    <2> QED
      BY <1>1, <2>3, <2>6, <2>7 DEF WalkInv, WalkTypeOK
  <1> QED
    BY <1>6, <1>7

\* A write that takes no row away and moves none only adds to what comes before a row.
LEMMA WriteKeeps ==
    ASSUME WalkInv, NEW r \in ListRow, NEW row \in [live : BOOLEAN, kind : Pages!Kind, at : Nat],
           NEW gone \in BOOLEAN,
           gone \/ ~table[r].live, Pages!Write(r, row, gone)
    PROVE  WalkInv'
  <1>1. walk \in Walk /\ walk.pc \in {"asked", "counted", "answered", "reading"} /\ WalkTypeOK
        /\ table \in Table
    BY DEF WalkInv, WalkTypeOK, Pages!Write, Pages!Walking
  <1>2. /\ table' = [table EXCEPT ![r] = row]
        /\ walk' = [walk EXCEPT !.wrote = TRUE, !.left = @ \/ (gone /\ r \in Listed(table, walk)),
                                !.torn = @ \/ walk.pc = "counted"]
    BY <1>1, WalkFacts DEF Pages!Write
  <1>3. table' \in Table
    BY <1>1, <1>2 DEF Table
  <1>4. walk' \in Walk /\ walk'.pc = walk.pc /\ walk'.wrote
        /\ (~walk'.left => ~walk.left /\ ~(gone /\ r \in Listed(table, walk)))
        /\ (~walk'.torn => ~walk.torn /\ walk.pc # "counted")
        /\ walk'.name = walk.name /\ walk'.caller = walk.caller /\ walk'.sorts = walk.sorts
        /\ walk'.page = walk.page /\ walk'.size = walk.size /\ walk'.seen = walk.seen
           /\ walk'.start = walk.start
        /\ walk'.total = walk.total
    BY <1>1, <1>2 DEF Walk
  <1>5. /\ OrderOf(walk') = OrderOf(walk) /\ KindsOf(walk') = KindsOf(walk)
        /\ Seen(walk') = Seen(walk) /\ ReadSoFar(walk') = ReadSoFar(walk)
        /\ Listed(table', walk') = Listed(table', walk) /\ \A x : Rank(table', walk', x) = Rank(table',
           walk, x)
    BY <1>1, <1>4, SameListing DEF Seen, ReadSoFar
  <1>6. ASSUME ~walk'.left
        PROVE  /\ r \notin Listed(table, walk) /\ Listed(table, walk) \subseteq Listed(table', walk)
               /\ \A x \in Listed(table, walk) : Rank(table, walk, x) <= Rank(table', walk, x)
    <2>1. r \notin Listed(table, walk)
      BY <1>4, <1>6 DEF Listed
    <2>2. \A x \in Listed(table, walk) : x \in ListRow /\ x # r /\ table'[x] = table[x]
      BY <1>1, <1>2, <2>1 DEF Listed
    <2>3. Listed(table, walk) \subseteq Listed(table', walk)
      BY <2>2 DEF Listed
    <2>4. ASSUME NEW x \in Listed(table, walk) PROVE Rank(table, walk, x) <= Rank(table', walk, x)
      <3> DEFINE A == {y \in Listed(table, walk) : Precedes(table, y, x, OrderOf(walk))}
                 B == {y \in Listed(table', walk) : Precedes(table', y, x, OrderOf(walk))}
      <3>1. ASSUME NEW y \in Listed(table, walk), Precedes(table, y, x, OrderOf(walk))
            PROVE  Precedes(table', y, x, OrderOf(walk))
        <4>1. \A column : /\ ColumnIn(table', y, column) = ColumnIn(table, y, column)
                          /\ ColumnIn(table', x, column) = ColumnIn(table, x, column)
          BY <2>2, <2>4, <3>1 DEF ColumnIn
        <4> QED
          BY <3>1, <4>1 DEF Precedes
      <3>2. A \subseteq B
        BY <2>3, <3>1
      <3>3. B \in SUBSET ListRow /\ A \in SUBSET ListRow
        BY DEF Listed
      <3>4. IsFiniteSet(B)
        BY <3>3, RowsAreFinite
      <3>5. Cardinality(A) <= Cardinality(B)
        <4> HIDE DEF A, B
        <4> QED
          BY <3>2, <3>4, FS_Subset
      <3> QED
        BY <3>5 DEF Rank
    <2> QED
      BY <2>1, <2>3, <2>4
  <1>7. PagesInv'
    <2> SUFFICES ASSUME ~walk'.left PROVE PagesInv'
      BY DEF PagesInv
    <2>1. PagesInv /\ ~walk.left
      BY <1>1, <1>4 DEF WalkInv
    <2>2. walk'.start \subseteq Listed(table', walk')
      BY <2>1, <1>4, <1>5, <1>6 DEF PagesInv
    <2>3. ASSUME walk.pc \in {"asked", "counted", "answered"}, NEW x \in walk.start,
                 Rank(table', walk', x) < ReadSoFar(walk')
          PROVE  x \in Seen(walk')
      <3>1. x \in Listed(table, walk) /\ Rank(table, walk, x) <= Rank(table', walk', x)
        BY <2>1, <2>3, <1>5, <1>6 DEF PagesInv
      <3>2. Rank(table, walk, x) \in Nat /\ Rank(table', walk', x) \in Nat /\ ReadSoFar(walk) \in Nat
        <4>1. ReadSoFar(walk) \in Nat
          BY <1>1, WalkFacts
        <4> QED
          BY <4>1, RowsAreFinite DEF Rank, Listed
      <3>3. Rank(table, walk, x) < ReadSoFar(walk)
        BY <3>1, <3>2, <2>3, <1>5
      <3> QED
        BY <3>3, <2>1, <2>3, <1>5 DEF PagesInv
    <2> QED
      BY <2>2, <2>3, <1>4 DEF PagesInv
  <1>8. TotalInv' /\ StillInv'
    <2>1. TotalInv
      BY <1>1 DEF WalkInv
    <2> QED
      BY <2>1, <1>4, <1>5 DEF TotalInv, StillInv
  <1> QED
    BY <1>1, <1>3, <1>4, <1>7, <1>8 DEF WalkInv, WalkTypeOK, Pages!WalksAreComplete

\* Nobody has asked for anything.
LEMMA WalkBegins == Pages!Init => WalkInv
  <1> SUFFICES ASSUME Pages!Init PROVE WalkInv
    OBVIOUS
  <1>1. walk = [pc |-> "idle"]
    BY DEF Pages!Init, Pages!NoWalk
  <1>2. table \in Table
    <2>1. PICK kind \in {"own", "shared"} : table = [r \in ListRow |-> [live |-> r # 3, kind |-> kind,
               at |-> 1]]
      BY DEF Pages!Init
    <2>2. \A r \in ListRow : [live |-> r # 3, kind |-> kind, at |-> 1] \in [live : BOOLEAN,
          kind : Pages!Kind, at : Nat]
      BY DEF Pages!Kind
    <2> QED
      BY <2>1, <2>2 DEF Table
  <1> QED
    BY <1>1, <1>2 DEF WalkInv, WalkTypeOK, Walk, Pages!WalksAreComplete

\* Every step of the client and of the others keeps the invariant.
LEMMA WalkStep == WalkInv /\ [Pages!Next]_(Pages!vars) => WalkInv'
  <1> SUFFICES ASSUME WalkInv, [Pages!Next]_(Pages!vars) PROVE WalkInv'
    OBVIOUS
  <1>1. ASSUME NEW name \in Pages!Name, NEW caller \in Pages!Everybody, NEW size \in -1..(MaxPageSize + 1),
               NEW sorts \in {<<>>, <<Pages!Desc("at")>>, <<Pages!Asc("at"), Pages!Desc("at")>>},
               Pages!Ask(name, caller, sorts, size)
        PROVE  WalkInv'
    <2>1. size \in Int
      OBVIOUS
    <2> QED
      BY <1>1, <2>1, AskKeeps
  <1>2. ASSUME NEW r \in ListRow, Pages!Delete(r) PROVE WalkInv'
    <2>1. table \in Table
      BY DEF WalkInv, WalkTypeOK
    <2>2. [table[r] EXCEPT !.live = FALSE] \in [live : BOOLEAN, kind : Pages!Kind, at : Nat]
      BY <2>1 DEF Table
    <2> QED
      BY <1>2, <2>2, WriteKeeps DEF Pages!Delete
  <1>3. ASSUME NEW r \in ListRow, NEW kind \in {"own", "closed"}, NEW at \in 1..2,
               Pages!Insert(r, kind, at) \/ Pages!Change(r, kind, at)
        PROVE  WalkInv'
    <2>1. [live |-> TRUE, kind |-> kind, at |-> at] \in [live : BOOLEAN, kind : Pages!Kind, at : Nat]
      BY DEF Pages!Kind
    <2>2. CASE Pages!Insert(r, kind, at)
      BY <2>1, <2>2, WriteKeeps DEF Pages!Insert
    <2>3. CASE Pages!Change(r, kind, at)
      BY <2>1, <2>3, WriteKeeps DEF Pages!Change
    <2> QED
      BY <1>3, <2>2, <2>3
  <1>4. CASE UNCHANGED Pages!vars
    BY <1>4
       DEF Pages!vars, WalkInv, WalkTypeOK, PagesInv, TotalInv, StillInv, Pages!WalksAreComplete
  <1> QED
    BY <1>1, <1>2, <1>3, <1>4, CountKeeps, SelectKeeps, NextPageKeeps, ReadWholeKeeps
       DEF Pages!Next

\* WalksAreComplete of Listing.
THEOREM WalksComplete == Pages!Spec => []Pages!WalksAreComplete
  <1>1. WalkInv => Pages!WalksAreComplete
    BY DEF WalkInv
  <1> QED
    BY <1>1, WalkBegins, WalkStep, PTL DEF Pages!Spec

-----------------------------------------------------------------------------
(* All that is read.                                                       *)

\* ReadsAreCurrent: reads of the platform's settings and of the profiles, cached or not, are told what
\* was so at some moment of the read, the policies that were published load within the limits of a load,
\* and a client that walks the pages of a listing misses no row that was there.
THEOREM ReadsCurrent ==
    Configuration!Spec /\ Profiles!Spec /\ Lifecycle!Spec /\ Pages!Spec => []ReadsAreCurrent
  <1>1. ConfigInv => Configuration!ConfigIsSound
    BY DEF ConfigInv, Configuration!ConfigIsSound
  <1>2. DirectoryInv => Profiles!AnswersAreCurrent
    BY DEF DirectoryInv
  <1>3. /\ Configuration!ConfigIsSound /\ Profiles!AnswersAreCurrent /\ Lifecycle!LifecycleIsSound
        /\ Pages!WalksAreComplete
        => ReadsAreCurrent
    BY DEF ReadsAreCurrent
  <1> QED
    BY <1>1, <1>2, <1>3, ConfigInvariant, DirectoryInvariant, LifecycleSound, WalksComplete, PTL
=============================================================================
