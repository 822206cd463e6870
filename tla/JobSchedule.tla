---------------------------- MODULE JobSchedule -----------------------------
(***************************************************************************)
(* Scheduled jobs: their definitions (scheduler/definition_service.go) and *)
(* the cron of each replica (scheduler/scheduler.go), which is rebuilt from*)
(* the active definitions when the replica starts, when it is notified of a*)
(* change and periodically.  A rebuild reads all rows, stages every one,   *)
(* and replaces all entries or none.  A fired job runs under a lock of its *)
(* code in Redis; the lock may be lost while the handler works on.         *)
(*                                                                         *)
(* Replicas differ in the handlers that they know: a rolling deployment    *)
(* brings definitions that the old release cannot stage.                   *)
(***************************************************************************)
EXTENDS Naturals, FiniteSets, FiniteSetsExt

CONSTANTS
    Job,           \* ids of definitions; a definition keeps its code
    Replica,
    Handler,
    Known,         \* the handlers that a replica has registered
    MaxActive,     \* maxActiveScheduledJobs
    MaxWrites,     \* bound of the writes of definitions
    MaxExecutions  \* bound of the handlers that run at a time

VARIABLES
    job,           \* scheduled_jobs
    replica,       \* the life of a replica: its refresh loop and its cron
    jobLock,       \* the jobs whose lock is held in Redis
    execution      \* the handlers that run

vars == <<job, replica, jobLock, execution>>

-----------------------------------------------------------------------------

NoJob == [live |-> FALSE, version |-> 0]

\* The definitions that are active, with the version that names their content.
Active == {[id |-> j, version |-> job[j].version, handler |-> job[j].handler] :
             j \in {i \in Job : job[i].live /\ job[i].status = "active"}}

NotLoaded == [read |-> FALSE, rows |-> {}]

Down == [stage |-> "down", entries |-> {}, loaded |-> NotLoaded]

Init == /\ job = [j \in Job |-> NoJob]
        /\ replica = [n \in Replica |-> Down]
        /\ jobLock = {}
        /\ execution = {}

-----------------------------------------------------------------------------
(* Definitions: serializable transactions, answered by replica n.  Notify  *)
(* only lets the next refresh of that replica come early, and a refresh may*)
(* come at any time here.                                                  *)

\* Bound of the model.
MayWrite == MapThenSumSet(LAMBDA j : job[j].version, Job) < MaxWrites

\* validateDefinition and HandlerRegistry.Resolve.
validDefinition(n, handler) == handler \in Known[n]

Create(n, j, handler, status) ==
    /\ replica[n].stage = "up" /\ validDefinition(n, handler)
    /\ job[j] = NoJob /\ MayWrite
    /\ job' = [job EXCEPT ![j] = [live |-> TRUE, version |-> 1, handler |-> handler, status |-> status]]
    /\ UNCHANGED <<replica, jobLock, execution>>

Update(n, j, version, handler, status) ==
    /\ replica[n].stage = "up" /\ validDefinition(n, handler)
    /\ job[j].live /\ job[j].version = version /\ MayWrite
    /\ job' = [job EXCEPT ![j] = [live |-> TRUE, version |-> version + 1, handler |-> handler,
                                  status |-> status]]
    /\ UNCHANGED <<replica, jobLock, execution>>

Delete(n, j, version) ==
    /\ replica[n].stage = "up"
    /\ job[j].live /\ job[j].version = version /\ MayWrite
    /\ job' = [job EXCEPT ![j] = [live |-> FALSE, version |-> version + 1]]
    /\ UNCHANGED <<replica, jobLock, execution>>

-----------------------------------------------------------------------------
(* The refresh of a replica.                                               *)

\* loadActiveDefinitions refuses more rows than the bound.
loadActiveDefinitions(n) ==
    /\ replica[n].stage \in {"starting", "up"} /\ replica[n].loaded = NotLoaded
    /\ Cardinality(Active) <= MaxActive
    /\ replica' = [replica EXCEPT ![n].loaded = [read |-> TRUE, rows |-> Active]]
    /\ UNCHANGED <<job, jobLock, execution>>

\* Every definition is valid and has a handler here.
Stages(n) == replica[n].loaded.read /\ \A d \in replica[n].loaded.rows : d.handler \in Known[n]

\* Mutant: the entries of definitions that are gone stay.
Refresh_Adds(n) ==
    /\ Stages(n) /\ replica[n].stage \in {"starting", "up"}
    /\ replica' = [replica EXCEPT ![n].entries = @ \cup replica[n].loaded.rows, ![n].loaded = NotLoaded,
                                  ![n].stage = "up"]
    /\ execution' = {[e EXCEPT !.entry = e.entry /\ e.replica # n] : e \in execution}
    /\ UNCHANGED <<job, jobLock>>

\* All entries are replaced; what still runs belongs to an entry that is no longer there.
Refresh(n) ==
    /\ Stages(n) /\ replica[n].stage \in {"starting", "up"}
    /\ replica' = [replica EXCEPT ![n].entries = replica[n].loaded.rows, ![n].loaded = NotLoaded,
                                  ![n].stage = "up"]
    /\ execution' = {[e EXCEPT !.entry = e.entry /\ e.replica # n] : e \in execution}
    /\ UNCHANGED <<job, jobLock>>

\* A refresh fails: the entries stay; a replica that starts does not.  After a failed load
\* nothing has been read.
RefreshFails(n) ==
    /\ replica[n].stage \in {"starting", "up"}
    /\ replica' = [replica EXCEPT ![n] = IF @.stage = "starting" THEN Down
                                         ELSE [@ EXCEPT !.loaded = NotLoaded]]
    /\ UNCHANGED <<job, jobLock, execution>>

start(n) ==
    /\ replica[n].stage = "down" /\ \A e \in execution : e.replica # n
    /\ replica' = [replica EXCEPT ![n].stage = "starting"]
    /\ UNCHANGED <<job, jobLock, execution>>

-----------------------------------------------------------------------------
(* Executions.                                                             *)

\* entry: the entry that fired it is still there; kept: the lock is still the execution's.
Executing(n, d) == [replica |-> n, job |-> d.id, entry |-> TRUE, kept |-> TRUE]

\* SkipIfStillRunning: the handler that the same entry started still runs.
StillRunning(n, d) == \E e \in execution : e.replica = n /\ e.job = d.id /\ e.entry

\* Mutant: the lock is of the replica.
TryLock_Local(n, d) == \A e \in execution : e.replica = n => e.job # d.id

TryLock(n, d) == d.id \notin jobLock

\* An entry fires and its lock is free; when it is not, a skipped run is recorded.
execute(n, d) ==
    /\ replica[n].stage = "up" /\ d \in replica[n].entries
    /\ ~StillRunning(n, d) /\ TryLock(n, d) /\ Cardinality(execution) < MaxExecutions
    /\ execution' = execution \cup {Executing(n, d)}
    /\ jobLock' = jobLock \cup {d.id}
    /\ UNCHANGED <<job, replica>>

\* The handler returns, fails or panics; the run is recorded and the lock released, if it is
\* still the execution's.
recordRun(e) ==
    /\ e \in execution
    /\ execution' = execution \ {e}
    /\ jobLock' = IF e.kept THEN jobLock \ {e.job} ELSE jobLock
    /\ UNCHANGED <<job, replica>>

\* The lock expires or Redis loses it; the handler may not have noticed.
LoseLock(e) ==
    /\ e \in execution /\ e.kept
    /\ execution' = (execution \ {e}) \cup {[e EXCEPT !.kept = FALSE]}
    /\ jobLock' = jobLock \ {e.job}
    /\ UNCHANGED <<job, replica>>

-----------------------------------------------------------------------------
(* The end of a replica: the context is cancelled, the cron stops firing,  *)
(* and stop waits for the refresh loop and for the handlers.               *)

stop(n) ==
    /\ replica[n].stage = "up"
    /\ replica' = [replica EXCEPT ![n].stage = "stopping"]
    /\ UNCHANGED <<job, jobLock, execution>>

\* The refresh loop ends: its context is cancelled, so that nothing more is replaced.
LoopEnds(n) ==
    /\ replica[n].stage = "stopping" /\ replica[n].loaded # NotLoaded
    /\ replica' = [replica EXCEPT ![n].loaded = NotLoaded]
    /\ UNCHANGED <<job, jobLock, execution>>

\* Mutant: stop does not wait for the cron.
Stopped_AtOnce(n) ==
    /\ replica[n].stage = "stopping" /\ replica[n].loaded = NotLoaded
    /\ replica' = [replica EXCEPT ![n] = [Down EXCEPT !.stage = "stopped"]]
    /\ UNCHANGED <<job, jobLock, execution>>

\* stop returns without an error.
Stopped(n) ==
    /\ replica[n].stage = "stopping" /\ replica[n].loaded = NotLoaded
    /\ \A e \in execution : e.replica # n
    /\ replica' = [replica EXCEPT ![n] = [Down EXCEPT !.stage = "stopped"]]
    /\ UNCHANGED <<job, jobLock, execution>>

\* The process is gone: at the end of a stop, at its deadline, or at any time.
Dies(n) ==
    /\ replica[n].stage # "down"
    /\ replica' = [replica EXCEPT ![n] = Down]
    /\ execution' = {e \in execution : e.replica # n}
    /\ UNCHANGED <<job, jobLock>>

\* The lock of an execution that is gone ends with its TTL.
LockExpires(j) ==
    /\ j \in jobLock /\ \A e \in execution : e.job = j => ~e.kept
    /\ jobLock' = jobLock \ {j}
    /\ UNCHANGED <<job, replica, execution>>

Next == \/ \E n \in Replica, j \in Job :
             \/ \E h \in Handler, status \in {"active", "disabled"} :
                  \/ Create(n, j, h, status)
                  \/ \E v \in 1..MaxWrites : Update(n, j, v, h, status)
             \/ \E v \in 1..MaxWrites : Delete(n, j, v)
        \/ \E n \in Replica : \/ loadActiveDefinitions(n) \/ Refresh(n) \/ RefreshFails(n)
                              \/ start(n) \/ stop(n) \/ LoopEnds(n)
                              \/ Stopped(n) \/ Dies(n)
                              \/ \E d \in replica[n].entries : execute(n, d)
        \/ \E e \in execution : recordRun(e) \/ LoseLock(e)
        \/ \E j \in Job : LockExpires(j)

\* The loop of a replica ticks for ever, and the database is not always away.
Fairness ==
    \A n \in Replica : /\ WF_vars(loadActiveDefinitions(n)) /\ SF_vars(Refresh(n))
                       /\ WF_vars(replica[n].loaded.read /\ ~Stages(n) /\ RefreshFails(n))

Spec == Init /\ [][Next]_vars /\ Fairness

-----------------------------------------------------------------------------
(* Properties.                                                             *)

\* A job runs once at a time, on all replicas together, unless its lock was lost: entries that a
\* refresh replaced while their handler ran, and other replicas, only skip.
OneRunPerJob ==
    \A e, f \in execution : e.job = f.job /\ e.kept /\ f.kept => e = f

\* A replica that was told to stop and answered without an error runs nothing and has no refresh
\* under way.
StopIsClean ==
    \A n \in Replica : replica[n].stage = "stopped" =>
       replica[n].loaded = NotLoaded /\ \A e \in execution : e.replica # n

\* Both of them.
ScheduleIsSound == OneRunPerJob /\ StopIsClean

\* The definitions can be loaded and staged on a replica.
Loadable(n) == Cardinality(Active) <= MaxActive /\ \A d \in Active : d.handler \in Known[n]

\* A replica that stays up ends with the entries of the active definitions and no others, at
\* their last versions, although notifications reach only the replica that made a change and
\* refreshes fail, if it is able to load them.
EntriesFollowDefinitions ==
    \A n \in Replica : <>[](replica[n].stage = "up" /\ Loadable(n)) => <>[](replica[n].entries = Active)
=============================================================================
