---------------------------- MODULE MCBackground ----------------------------
(***************************************************************************)
(* The background work that must get somewhere, one component at a time:   *)
(* part, which never changes, says which component an execution is about.  *)
(* The fairness is the components' own.  Strong fairness of actions of     *)
(* different components is stated in one conjunct, which says the same,    *)
(* for a part never changes, and costs TLC one case and not several.       *)
(***************************************************************************)
EXTENDS Background, TLC

VARIABLES
    part,
    run, sent, worker, prefer, lock, completed, restarts,   \* ManualRuns
    definition, replica, jobLock, execution                 \* JobSchedule

auditAll == <<allVars, txOps>>
manualAll == <<run, sent, worker, prefer, lock, completed, restarts>>
jobAll == <<definition, replica, jobLock, execution>>
runtimeAll == <<phase, opened, started, unit, budget>>

vars == <<part, auditAll, syncVars, manualAll, jobAll, runtimeAll>>

Manual == INSTANCE ManualRuns WITH
    Runs <- 1 .. 2, Invalid <- {}, Workers <- {"w1"}, Cron <- "cron", None <- "none", Restarts <- BOOLEAN

\* This release lacks the handler y; only one definition may be active.
Jobs == INSTANCE JobSchedule WITH
    Job <- {"j1", "j2"}, Replica <- {"b"}, Handler <- {"x", "y"},
    Known <- [b |-> {"x"}], MaxActive <- 1, MaxWrites <- 2, MaxExecutions <- 2, job <- definition

Parts == {"audit", "sync", "manual", "finishing", "jobs", "process"}

Init == /\ part \in Parts
        /\ AuditInit /\ SyncInit /\ Manual!ManualInit /\ Jobs!Init /\ Process!Init
        /\ part # "audit" => txOps = {}
        /\ part \notin {"manual", "finishing"} => ~restarts

\* A step of one component leaves the others alone.
InAudit(A) == part = "audit" /\ A /\ UNCHANGED <<part, txOps, syncVars, manualAll, jobAll, runtimeAll>>

InSync(A) == part = "sync" /\ A /\ UNCHANGED <<part, auditAll, manualAll, jobAll, runtimeAll>>

InManual(parts, A) ==
    part \in parts /\ A /\ UNCHANGED <<part, restarts, auditAll, syncVars, jobAll, runtimeAll>>

InJobs(A) == part = "jobs" /\ A /\ UNCHANGED <<part, auditAll, syncVars, manualAll, runtimeAll>>

InProcess(A) == part = "process" /\ A /\ UNCHANGED <<part, auditAll, syncVars, manualAll, jobAll>>

Next == \/ InAudit(AuditNext)
        \/ InSync(SyncNext)
        \/ InManual({"manual", "finishing"}, Manual!ManualNext)
        \/ InJobs(Jobs!Next)
        \/ InProcess(Process!Next)

-----------------------------------------------------------------------------

AuditFair ==
    /\ \A e \in Events : WF_vars(InAudit(Publish(e)))
    /\ \A m \in Messages : WF_vars(InAudit(AckWaitOver(m)))
    /\ \A c \in Consumers : /\ WF_vars(InAudit(\E m \in Messages : Receive(c, m)))
                           /\ WF_vars(InAudit(consume(c) \/ Ack(c) \/ Lose(c)))

Claims(r) == Manual!claimManual("w1", r, {})

ManualFair ==
    LET In(A) == InManual({"manual", "finishing"}, A) IN
    /\ \A r \in 1 .. 2 : /\ WF_vars(In(Manual!consumeManual(r))) /\ WF_vars(In(Manual!LeaseExpires(r)))
    /\ WF_vars(In(\E r \in 1 .. 2 : Claims(r)))
    /\ WF_vars(In(\/ Manual!GiveUp("w1") \/ Manual!Return("w1", "error")
                  \/ Manual!LeaveRun("w1") \/ Manual!finishManual("w1", TRUE)))

ProcessFair ==
    /\ WF_vars(InProcess(Process!Down)) /\ WF_vars(InProcess(Process!Up))
    /\ WF_vars(InProcess(Process!OutOfTime)) /\ WF_vars(InProcess(Process!ConsumeAgain))

\* Weak fairness of the replicas' loops.
LoopsFair ==
    /\ \A n \in Nodes : /\ WF_vars(InSync(PollFailed(n)))
                        /\ \A a \in SyncActors : WF_vars(InSync(RefreshFails(n, a)))
    /\ WF_vars(InJobs(Jobs!loadActiveDefinitions("b")))
    /\ WF_vars(InJobs(replica["b"].loaded.read /\ ~Jobs!Stages("b") /\ Jobs!RefreshFails("b")))

\* Strong fairness: of PolicySync, of JobSchedule, and of the workers that execute a
\* manual run and finish it within its lease (Persistence of ManualRuns).
StronglyFair ==
    LET Finishing(A) == InManual({"finishing"}, A) IN
    \A n \in Nodes :
      /\ SF_vars(InSync(ReadRevision(n, TRUE)) \/ Finishing(Claims(1)) \/ InJobs(Jobs!Refresh("b")))
      /\ SF_vars(InSync(Compare(n)) \/ Finishing(Claims(2)))
      /\ SF_vars(\/ InSync(Load(n, Runner))
                 \/ Finishing(/\ Manual!GiveUp("w1") \/ Manual!Return("w1", "success")
                              /\ ~worker["w1"].lost /\ Manual!HoldsLease("w1")))
      /\ SF_vars(\/ InSync(Install(n, Runner))
                 \/ Finishing(Manual!finishManual("w1", TRUE) /\ Manual!HoldsLease("w1")))
      /\ \A t \in Threads : SF_vars(InSync(Load(n, t))) /\ SF_vars(InSync(Install(n, t)))

Spec == Init /\ [][Next]_vars /\ AuditFair /\ ManualFair /\ ProcessFair /\ LoopsFair /\ StronglyFair

-----------------------------------------------------------------------------
\* Converges of PolicySync: once changes stop, every replica serves the last one
\* again and again, or nothing if this release cannot compile it.
SyncConverges == part = "sync" => Converges

\* QueuedIsClaimed and RunsFinish of ManualRuns: a dispatched run is claimed eventually,
\* even if other runs keep losing their leases, while replicas stay up; and every accepted
\* trigger ends in a final status, restarts, lost leases and rolled back completions
\* notwithstanding.
RunsProgress ==
    /\ Manual!QueuedIsClaimed
    /\ part = "finishing" => \A r \in 1 .. 2 : run[r].status = "queued" ~> run[r].status \in Manual!Final

\* EntriesFollowDefinitions of JobSchedule: a replica that stays up ends with the
\* entries of the active definitions and no others, if it is able to load them.
EntriesFollowDefinitions == part = "jobs" => Jobs!EntriesFollowDefinitions
=============================================================================
