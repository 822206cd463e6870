---------------------------- MODULE Transactions ----------------------------
(***************************************************************************)
(* Transactor.Within (database/transaction.go).  The triggers of the       *)
(* schema sign every row with the actor of the session, which Within sets. *)
(* PostgreSQL forgets it with the transaction.  In MySQL it is a variable  *)
(* of the connection: it survives a rollback and the return to the pool,   *)
(* where the next transaction would sign with it, so Within clears it and  *)
(* gives up the connection when it cannot.                                 *)
(***************************************************************************)
EXTENDS Naturals

CONSTANTS
    Connection,     \* the pool
    Work,           \* callers of Within
    Actor           \* principals

VARIABLES
    dialect,        \* mysql | postgres
    conn,           \* connections
    work,           \* calls of Within
    signed          \* the last row each caller wrote: who wrote, who signed

txVars == <<dialect, conn, work, signed>>

Nobody == "nobody"

NoWork == [pc |-> "idle"]

TxInit == /\ dialect \in {"mysql", "postgres"}
          /\ conn = [c \in Connection |-> [state |-> "pooled", actor |-> Nobody]]
          /\ work = [w \in Work |-> NoWork]
          /\ signed = {}

Of(w) == work[w].conn

\* The connection is taken and the transaction begins.  From here on a MySQL
\* variable counts as set, although nothing has been sent yet.
BeginTx(w, c, actor) ==
    /\ work[w].pc = "idle" /\ conn[c].state = "pooled"
    /\ conn' = [conn EXCEPT ![c].state = "taken"]
    /\ work' = [work EXCEPT ![w] = [pc |-> "set", conn |-> c, actor |-> actor, cancelled |-> FALSE,
                                    mysqlActorSet |-> dialect = "mysql"]]
    /\ UNCHANGED <<dialect, signed>>

\* The caller goes away: database/sql ends the transaction, and every later
\* statement of it fails without being sent.
ContextEnds(w) ==
    /\ work[w].pc \in {"set", "fn", "clear", "commit"} /\ ~work[w].cancelled
    /\ work' = [work EXCEPT ![w].cancelled = TRUE]
    /\ UNCHANGED <<dialect, conn, signed>>

Steps(w, pc) == [work EXCEPT ![w].pc = pc]

Assign(w, actor) == [conn EXCEPT ![Of(w)].actor = actor]

\* Mutant: the variable counts as set once the statement has succeeded.
SetFailed_Unset(w) == [work EXCEPT ![w].pc = "cleanup", ![w].mysqlActorSet = FALSE]

\* A statement that reports an error may have been applied all the same.
SetFailed(w) == Steps(w, "cleanup")

\* setAuditActor: a caller without a principal writes nothing.
setAuditActor(w) ==
    /\ work[w].pc = "set"
    /\ \/ /\ work[w].actor # Nobody /\ ~work[w].cancelled
          /\ conn' = Assign(w, work[w].actor) /\ work' = Steps(w, "fn")
       \/ /\ work[w].actor # Nobody /\ ~work[w].cancelled
          /\ conn' = Assign(w, work[w].actor) /\ work' = SetFailed(w)
       \/ conn' = conn /\ work' = SetFailed(w)
    /\ UNCHANGED <<dialect, signed>>

\* fn writes, or fails, or panics.
Fn(w) ==
    /\ work[w].pc = "fn"
    /\ \/ /\ ~work[w].cancelled
          /\ signed' = {<<work[w].actor, conn[Of(w)].actor>>} \cup {s \in signed : s[1] # work[w].actor}
          /\ work' = Steps(w, "clear")
       \/ work' = Steps(w, "cleanup") /\ UNCHANGED signed
    /\ UNCHANGED <<dialect, conn>>

\* The variable is cleared before the commit; PostgreSQL needs no clearing.
Clear(w) ==
    /\ work[w].pc = "clear"
    /\ \/ /\ dialect = "mysql" /\ ~work[w].cancelled
          /\ conn' = Assign(w, Nobody)
          /\ work' = [work EXCEPT ![w].pc = "commit", ![w].mysqlActorSet = FALSE]
       \/ dialect = "mysql" /\ conn' = conn /\ work' = Steps(w, "cleanup")
       \/ dialect = "postgres" /\ conn' = conn /\ work' = Steps(w, "commit")
    /\ UNCHANGED <<dialect, signed>>

\* Whether it succeeds or not, the transaction is over.
Commit(w) ==
    /\ work[w].pc = "commit"
    /\ work' = Steps(w, "cleanup") /\ UNCHANGED <<dialect, conn, signed>>

\* Mutant: a connection that could not be cleared goes back to the pool.
Uncleared_Pooled == "pooled"

\* conn.Raw with ErrBadConn: the pool drops the connection.
Uncleared == "gone"

\* What the end of a transaction leaves of the session.
Forgets(c) == IF dialect = "postgres" THEN Nobody ELSE conn[c].actor

\* The deferred function: clear if it counts as set, roll back, and give the
\* connection back or drop it.  The clearing has its own two seconds, but the
\* transaction may be over.
Cleanup(w) ==
    /\ work[w].pc = "cleanup"
    /\ \/ /\ ~work[w].mysqlActorSet
          /\ conn' = [conn EXCEPT ![Of(w)] = [state |-> "pooled", actor |-> Forgets(Of(w))]]
       \/ /\ work[w].mysqlActorSet /\ ~work[w].cancelled
          /\ conn' = [conn EXCEPT ![Of(w)] = [state |-> "pooled", actor |-> Nobody]]
       \/ /\ work[w].mysqlActorSet
          /\ conn' = [conn EXCEPT ![Of(w)].state = Uncleared]
    /\ work' = [work EXCEPT ![w] = NoWork]
    /\ UNCHANGED <<dialect, signed>>

\* The pool opens a new connection for one it dropped.
Reconnect(c) ==
    /\ conn[c].state = "gone"
    /\ conn' = [conn EXCEPT ![c] = [state |-> "pooled", actor |-> Nobody]]
    /\ UNCHANGED <<dialect, work, signed>>

TxNext == \/ \E w \in Work :
               \/ \E c \in Connection, actor \in Actor \cup {Nobody} : BeginTx(w, c, actor)
               \/ ContextEnds(w) \/ setAuditActor(w) \/ Fn(w) \/ Clear(w) \/ Commit(w) \/ Cleanup(w)
          \/ \E c \in Connection : Reconnect(c)

TxSpec == TxInit /\ [][TxNext]_txVars

-----------------------------------------------------------------------------

\* Every row is signed by the one who wrote it, and no connection waits in the
\* pool with somebody's name: reads and statements outside Within use the pool
\* too, and a failed, cancelled or half-applied transaction must leave nothing.
ActorsAreOwn == /\ \A s \in signed : s[1] = s[2]
                /\ \A c \in Connection : conn[c].state = "pooled" => conn[c].actor = Nobody
=============================================================================
