----------------------------- MODULE ManualRuns -----------------------------
(***************************************************************************)
(* Manually triggered scheduled jobs (internal/scheduler): a trigger       *)
(* commits a queued run with its dispatch event; the event's consumer      *)
(* marks the run dispatched; manual workers of all replicas claim runs     *)
(* under a lease, execute them under the job's lock, which cron also       *)
(* takes, and write the final status with a completion event.              *)
(*                                                                         *)
(* All runs are of one job, so they contend for one lock "cron:<code>".    *)
(* A run is the number of its rank in (created_at, id).                    *)
(***************************************************************************)
EXTENDS Naturals, FiniteSets

CONSTANTS
    Runs,      \* ids of scheduled_job_runs rows, ranked by (created_at, id)
    Invalid,   \* runs whose snapshot fails validation, or whose handler is gone
    Workers,   \* manualLoop goroutines of all replicas
    Cron,      \* a cron execution of the same job
    None,      \* no owner, no lock holder
    Restarts   \* subset of BOOLEAN: whether replicas stop and start again

ASSUME RunsAssumption == Runs \subseteq Nat \ {0} /\ Invalid \subseteq Runs
ASSUME ActorsAssumption == None \notin Workers /\ Cron \notin Workers /\ Cron # None
                           /\ Restarts \subseteq BOOLEAN

VARIABLES
    run,        \* scheduled_job_runs
    sent,       \* runs whose dispatch event is committed: the stream may deliver it
                \* any number of times, from then on
    worker,     \* what each worker claimed and how far it got
    prefer,     \* preferExpired of each worker
    lock,       \* holder of cron:<code>
    completed,  \* completion events recorded per run
    restarts    \* whether replicas restart in this execution; it never changes

manualVars == <<run, sent, worker, prefer, lock, completed>>

Final == {"success", "error", "skipped"}

NoRun == 0

Run == [status : {"absent", "queued", "running"} \cup Final,
        dispatched : BOOLEAN,
        owner : Workers \cup {None},  \* lease_owner
        leased : BOOLEAN]             \* lease_until is in the future

\* latest: nobody claimed the run after this worker did.  lost: the renewal
\* failed and cancelled the handler.
manualRun == [pc : {"idle", "waiting", "executing", "done"}, run : Runs \cup {NoRun},
              result : Final, lost : BOOLEAN, latest : BOOLEAN]

Idle == [pc |-> "idle", run |-> NoRun, result |-> "error", lost |-> FALSE, latest |-> FALSE]

Absent == [status |-> "absent", dispatched |-> FALSE, owner |-> None, leased |-> FALSE]

ManualInit == /\ run = [r \in Runs |-> Absent]
              /\ sent = {}
              /\ worker = [w \in Workers |-> Idle]
              /\ prefer = [w \in Workers |-> TRUE]
              /\ lock = None
              /\ completed = [r \in Runs |-> 0]
              /\ restarts \in Restarts

-----------------------------------------------------------------------------
(* Submission and dispatch.                                                *)

\* One transaction: the queued run, its dispatch event and the operation event.
Trigger(r) ==
    /\ run[r].status = "absent"
    /\ run' = [run EXCEPT ![r].status = "queued"]
    /\ sent' = sent \cup {r}
    /\ UNCHANGED <<worker, prefer, lock, completed>>

\* Mutant: the UPDATE matches any run of that id and queues it again.
Dispatched_Requeued(row) == [row EXCEPT !.status = "queued", !.dispatched = TRUE]

\* UPDATE ... WHERE status='queued' AND dispatched_at IS NULL: a repeated delivery
\* finds nothing to change and is acknowledged.
Dispatched(row) == IF row.status = "queued" THEN [row EXCEPT !.dispatched = TRUE] ELSE row

consumeManual(r) ==
    /\ r \in sent
    /\ run' = [run EXCEPT ![r] = Dispatched(@)]
    /\ UNCHANGED <<sent, worker, prefer, lock, completed>>

-----------------------------------------------------------------------------
(* Claiming.                                                               *)

Queued == {r \in Runs : run[r].status = "queued" /\ run[r].dispatched}

\* Mutant: only a lease somebody gave back can be taken.
Expired_Unowned == {r \in Runs : run[r].status = "running" /\ run[r].owner = None}

Expired == {r \in Runs : run[r].status = "running" /\ ~run[r].leased}

\* The row a claim selects, given the rows other transactions hold locked: queued
\* runs by age, expired ones by lease_until, an order this model leaves open.
OldestQueued(skip) == {r \in Queued \ skip : \A s \in Queued \ skip : r <= s}

\* Mutant: an expired run always goes first.
Selected_ExpiredFirst(w, skip) ==
    IF Expired \ skip # {} THEN Expired \ skip ELSE OldestQueued(skip)

Selected(w, skip) ==
    IF prefer[w]
    THEN IF Expired \ skip # {} THEN Expired \ skip ELSE OldestQueued(skip)
    ELSE IF Queued \ skip # {} THEN OldestQueued(skip) ELSE Expired \ skip

\* Mutant: one workerID for all workers of the process.
LeaseOwner_PerProcess(w) == CHOOSE x \in Workers : TRUE

\* workerID is a new uuid for every claim.  A worker forgets a claim before it makes
\* another, so its own name identifies the claim.
LeaseOwner(w) == w

Superseded(r) == [x \in Workers |-> IF worker[x].run = r THEN [worker[x] EXCEPT !.latest = FALSE]
                                                          ELSE worker[x]]

\* The run and its snapshot are taken under the row lock, and preferExpired toggles.
claimManual(w, r, skip) ==
    /\ worker[w].pc = "idle"
    /\ Cardinality(skip) < Cardinality(Workers)
    /\ r \in Selected(w, skip)
    /\ run' = [run EXCEPT ![r].status = "running", ![r].owner = LeaseOwner(w), ![r].leased = TRUE]
    /\ worker' = [Superseded(r) EXCEPT ![w] =
                    [pc |-> IF r \in Invalid THEN "done" ELSE "waiting", run |-> r,
                     result |-> "error", lost |-> FALSE, latest |-> TRUE]]
    /\ prefer' = [prefer EXCEPT ![w] = ~@]
    /\ UNCHANGED <<sent, lock, completed>>

-----------------------------------------------------------------------------
(* Execution.                                                              *)

Acquire(w) ==
    /\ worker[w].pc = "waiting" /\ ~worker[w].lost
    /\ lock = None
    /\ lock' = w
    /\ worker' = [worker EXCEPT ![w].pc = "executing"]
    /\ UNCHANGED <<run, sent, prefer, completed>>

\* The deadline, a lost lease or a failing lock ends the attempts to lock the job.
GiveUp(w) ==
    /\ worker[w].pc = "waiting"
    /\ worker' = [worker EXCEPT ![w].pc = "done", ![w].result = "error"]
    /\ UNCHANGED <<run, sent, prefer, lock, completed>>

Unlocked(x) == IF lock = x THEN None ELSE lock

\* The handler returns, fails or panics; a handler that ignored the cancellation of
\* its context, or lost the job's lock, does not count as a success.
Return(w, result) ==
    /\ worker[w].pc = "executing"
    /\ worker[w].lost \/ lock # w => result # "success"
    /\ worker' = [worker EXCEPT ![w].pc = "done", ![w].result = result]
    /\ lock' = Unlocked(w)
    /\ UNCHANGED <<run, sent, prefer, completed>>

\* Mutant: a row is renewed and finished by its id alone.
HoldsLease_ById(w) == worker[w].run # NoRun

\* WHERE id=? AND status='running' AND lease_owner=? AND lease_until>now
HoldsLease(w) == LET row == run[worker[w].run] IN
                 row.status = "running" /\ row.owner = LeaseOwner(w) /\ row.leased

\* A renewal that succeeds changes nothing but a lease_until in the future; one that
\* fails, or cannot reach the database in time, cancels the handler.
renewManual(w, reached) ==
    /\ worker[w].pc \in {"waiting", "executing"}
    /\ ~(reached /\ HoldsLease(w))
    /\ worker' = [worker EXCEPT ![w].lost = TRUE]
    /\ UNCHANGED <<run, sent, prefer, lock, completed>>

\* executeManual returns without a status when the lease was lost.
LeaveRun(w) ==
    /\ worker[w].pc = "done" /\ worker[w].lost
    /\ worker' = [worker EXCEPT ![w] = Idle]
    /\ UNCHANGED <<run, sent, prefer, lock, completed>>

Counted(n) == IF n < 2 THEN n + 1 ELSE n

\* One transaction: the final status under the lease, and the completion event.  When
\* it fails or finds no row the run stays as it is.
finishManual(w, ok) ==
    LET r == worker[w].run IN
    /\ worker[w].pc = "done" /\ ~worker[w].lost
    /\ IF ok /\ HoldsLease(w)
       THEN /\ run' = [run EXCEPT ![r].status = worker[w].result,
                                  ![r].owner = None, ![r].leased = FALSE]
            /\ completed' = [completed EXCEPT ![r] = Counted(@)]
       ELSE UNCHANGED <<run, completed>>
    /\ worker' = [worker EXCEPT ![w] = Idle]
    /\ UNCHANGED <<sent, prefer, lock>>

\* Shutdown or death of the replica: no status is written; the lock is given back, or
\* runs out later.
Stop(w) ==
    /\ restarts
    /\ worker[w].pc # "idle" \/ ~prefer[w]
    /\ worker' = [worker EXCEPT ![w] = Idle]
    /\ prefer' = [prefer EXCEPT ![w] = TRUE]
    /\ lock' \in {lock, Unlocked(w)}
    /\ UNCHANGED <<run, sent, completed>>

-----------------------------------------------------------------------------
(* Cron, and time.                                                         *)

\* A cron execution tries the lock once; if it is taken the execution is skipped.
CronStart ==
    /\ lock = None
    /\ lock' = Cron
    /\ UNCHANGED <<run, sent, worker, prefer, completed>>

CronEnd ==
    /\ lock = Cron
    /\ lock' = None
    /\ UNCHANGED <<run, sent, worker, prefer, completed>>

\* The lock of a holder that is gone, or that cannot reach Redis, runs out.
LockExpires ==
    /\ lock # None
    /\ lock' = None
    /\ UNCHANGED <<run, sent, worker, prefer, completed>>

LeaseExpires(r) ==
    /\ run[r].leased
    /\ run' = [run EXCEPT ![r].leased = FALSE]
    /\ UNCHANGED <<sent, worker, prefer, lock, completed>>

-----------------------------------------------------------------------------
RunStep(r) == Trigger(r) \/ consumeManual(r) \/ LeaseExpires(r)

WorkerStep(w) == \/ \E r \in Runs, skip \in SUBSET Runs : claimManual(w, r, skip)
                 \/ Acquire(w) \/ GiveUp(w) \/ LeaveRun(w) \/ Stop(w)
                 \/ \E result \in Final : Return(w, result)
                 \/ \E b \in BOOLEAN : renewManual(w, b) \/ finishManual(w, b)

ManualNext == \/ \E r \in Runs : RunStep(r)
              \/ \E w \in Workers : WorkerStep(w)
              \/ CronStart \/ CronEnd \/ LockExpires

ManualSpec == ManualInit /\ [][ManualNext /\ UNCHANGED restarts]_<<manualVars, restarts>>

\* The stream redelivers an event until it is acknowledged; a worker polls whenever it
\* is idle; an execution ends by its deadline; leases run out.
ManualFairness ==
    /\ \A r \in Runs : WF_manualVars(consumeManual(r)) /\ WF_manualVars(LeaseExpires(r))
    /\ \A w \in Workers :
         /\ WF_manualVars(\E r \in Runs : claimManual(w, r, {}))
         /\ WF_manualVars(GiveUp(w) \/ Return(w, "error") \/ LeaveRun(w) \/ finishManual(w, TRUE))

ManualFairSpec == ManualSpec /\ ManualFairness

-----------------------------------------------------------------------------
(* Properties.                                                             *)

\* Rows, claims and the lock have their types.
ManualTypeOK == /\ run \in [Runs -> Run]
                /\ sent \subseteq Runs
                /\ worker \in [Workers -> manualRun]
                /\ prefer \in [Workers -> BOOLEAN]
                /\ lock \in Workers \cup {Cron, None}
                /\ completed \in [Runs -> 0 .. 2]

\* A run has its completion event exactly when it has its final status, and never two:
\* stale workers, retries and rolled back completions included (finishManual).
CompletedOnce ==
    \A r \in Runs : completed[r] = IF run[r].status \in Final THEN 1 ELSE 0

\* The final status is the outcome of the run's latest claim: a worker that lost its
\* lease never decides it, however late it comes back.
ByLatestClaim ==
    \A w \in Workers :
       LET r == worker[w].run IN
       worker[w].pc = "done" /\ worker'[w].pc = "idle" /\ run'[r] # run[r]
          => worker[w].latest /\ ~worker[w].lost /\ run'[r].status = worker[w].result

Rank(s) == CASE s = "absent" -> 0 [] s = "queued" -> 1 [] s = "running" -> 2 [] OTHER -> 3

\* A run only moves forward, and a finished one is never touched again, so a repeated
\* dispatch cannot execute it a second time.
Forward ==
    \A r \in Runs : /\ Rank(run[r].status) <= Rank(run'[r].status)
                    /\ run[r].status \in Final => run'[r] = run[r]

\* Both, of every step: the latest claim of a run decides it, once and for all.
LatestClaimDecides == [][ByLatestClaim /\ Forward]_manualVars

\* A dispatched run is claimed eventually, even if other runs keep losing their leases
\* and are claimed again and again: preferExpired alternates (manualLoop).  It holds
\* while replicas stay up, for every restart prefers expired runs again.
QueuedIsClaimed == ~restarts => \A r \in Runs : r \in Queued ~> r \notin Queued

\* A worker that is given the chance again and again executes a run and finishes it
\* within its lease (renewed every third of its length), and expired runs are taken by
\* lease_until, so none is passed over for ever.
Persistence ==
    \A w \in Workers :
       /\ \A r \in Runs : SF_manualVars(claimManual(w, r, {}))
       /\ SF_manualVars((GiveUp(w) \/ Return(w, "success")) /\ ~worker[w].lost /\ HoldsLease(w))
       /\ SF_manualVars(finishManual(w, TRUE) /\ HoldsLease(w))

\* Every accepted trigger ends in a final status, restarts, lost leases and rolled back
\* completions notwithstanding.
RunsFinish == Persistence => \A r \in Runs : run[r].status = "queued" ~> run[r].status \in Final
=============================================================================
