-------------------------- MODULE SchedulerProofs ---------------------------
(***************************************************************************)
(* CompletedOnce and LatestClaimDecides for any number of runs and         *)
(* workers, with and without restarts. That the latest claim decides is    *)
(* not inductive: it needs that a worker which still owns the row of its   *)
(* run is the one that claimed it last, and that only a running row is     *)
(* under a lease.                                                          *)
(*                                                                         *)
(* ScheduleIsSound for any number of definitions, handlers and replicas:   *)
(* the invariant says what a replica has read of a definition relative to  *)
(* its row, at each point of a refresh.                                    *)
(***************************************************************************)
EXTENDS ManualRuns, Services, TLAPS

-----------------------------------------------------------------------------
(* Manual runs.                                                            *)

\* A row y whose run has c completion events.
RowOK(y, c) == /\ y.leased => y.status = "running"
               /\ c = IF y.status \in Final THEN 1 ELSE 0

\* What worker w does, x, with the rows rs: a claim that still owns its row is the latest one.
ClaimOK(w, x, rs) ==
    x.pc # "idle" => /\ x.run \in Runs
                     /\ rs[x.run].status = "running" /\ rs[x.run].owner = w => x.latest

ManualInv == /\ ManualTypeOK
             /\ \A r \in Runs : RowOK(run[r], completed[r])
             /\ \A w \in Workers : ClaimOK(w, worker[w], run)

\* What a step does, once more: who decides, and that rows go forward.
Decides == ByLatestClaim /\ Forward

-----------------------------------------------------------------------------
(* Rows and claims.                                                        *)

\* Trigger.
LEMMA RowQueued ==
    ASSUME NEW y \in Run
    PROVE  /\ [y EXCEPT !.status = "queued"] \in Run
           /\ [y EXCEPT !.status = "queued"].status = "queued"
           /\ [y EXCEPT !.status = "queued"].owner = y.owner
           /\ [y EXCEPT !.status = "queued"].leased <=> y.leased
  BY DEF Run, Final

\* consumeManual.
LEMMA RowDispatched ==
    ASSUME NEW y \in Run
    PROVE  /\ Dispatched(y) \in Run /\ Dispatched(y).status = y.status
           /\ Dispatched(y).owner = y.owner /\ (Dispatched(y).leased <=> y.leased)
           /\ y.status # "queued" => Dispatched(y) = y
  BY DEF Run, Final, Dispatched

\* LeaseExpires.
LEMMA RowUnleased ==
    ASSUME NEW y \in Run
    PROVE  /\ [y EXCEPT !.leased = FALSE] \in Run
           /\ [y EXCEPT !.leased = FALSE].status = y.status
           /\ [y EXCEPT !.leased = FALSE].owner = y.owner
           /\ ~[y EXCEPT !.leased = FALSE].leased
  BY DEF Run

\* claimManual.
LEMMA RowClaimed ==
    ASSUME NEW y \in Run, NEW w \in Workers
    PROVE  /\ [y EXCEPT !.status = "running", !.owner = w, !.leased = TRUE] \in Run
           /\ [y EXCEPT !.status = "running", !.owner = w, !.leased = TRUE].status = "running"
           /\ [y EXCEPT !.status = "running", !.owner = w, !.leased = TRUE].owner = w
  BY DEF Run

\* finishManual.
LEMMA RowFinished ==
    ASSUME NEW y \in Run, NEW s \in Final
    PROVE  /\ [y EXCEPT !.status = s, !.owner = None, !.leased = FALSE] \in Run
           /\ [y EXCEPT !.status = s, !.owner = None, !.leased = FALSE].status = s
           /\ [y EXCEPT !.status = s, !.owner = None, !.leased = FALSE].owner = None
           /\ ~[y EXCEPT !.status = s, !.owner = None, !.leased = FALSE].leased
  BY DEF Run, Final

\* A worker goes on with another stage.
LEMMA ClaimGoesOn ==
    ASSUME NEW x \in manualRun, NEW p \in {"idle", "waiting", "executing", "done"}
    PROVE  /\ [x EXCEPT !.pc = p] \in manualRun
           /\ [x EXCEPT !.pc = p].pc = p
           /\ [x EXCEPT !.pc = p].run = x.run
           /\ [x EXCEPT !.pc = p].latest <=> x.latest
  BY DEF manualRun

\* A worker ends with a result.
LEMMA ClaimEnds ==
    ASSUME NEW x \in manualRun, NEW s \in Final
    PROVE  /\ [x EXCEPT !.pc = "done", !.result = s] \in manualRun
           /\ [x EXCEPT !.pc = "done", !.result = s].run = x.run
           /\ [x EXCEPT !.pc = "done", !.result = s].latest <=> x.latest
  BY DEF manualRun

\* A worker whose renewal fails.
LEMMA ClaimLost ==
    ASSUME NEW x \in manualRun
    PROVE  /\ [x EXCEPT !.lost = TRUE] \in manualRun
           /\ [x EXCEPT !.lost = TRUE].pc = x.pc
           /\ [x EXCEPT !.lost = TRUE].run = x.run
           /\ [x EXCEPT !.lost = TRUE].latest <=> x.latest
  BY DEF manualRun

\* A worker whose run another worker claims.
LEMMA ClaimSuperseded ==
    ASSUME NEW x \in manualRun
    PROVE  /\ [x EXCEPT !.latest = FALSE] \in manualRun
           /\ [x EXCEPT !.latest = FALSE].pc = x.pc
           /\ [x EXCEPT !.latest = FALSE].run = x.run
  BY DEF manualRun

\* An idle worker has claimed nothing.
LEMMA IdleClaim == Idle \in manualRun /\ Idle.pc = "idle"
  BY DEF Idle, manualRun, Final

\* Forward, of one row.
LEMMA RankGrows ==
    ASSUME NEW y \in Run, NEW z \in Run,
           \/ z = y \/ z.status = y.status
           \/ y.status = "absent" /\ z.status = "queued"
           \/ y.status \in {"queued", "running"} /\ z.status = "running"
           \/ y.status = "running" /\ z.status \in Final
    PROVE  Rank(y.status) <= Rank(z.status)
<1>1. ASSUME NEW s \in {"absent", "queued", "running"} \cup Final PROVE Rank(s) \in 0 .. 3
  BY <1>1 DEF Rank, Final
<1>2. /\ Rank("absent") = 0 /\ Rank("queued") = 1 /\ Rank("running") = 2
      /\ Rank("success") = 3 /\ Rank("error") = 3 /\ Rank("skipped") = 3
  BY DEF Rank
<1>3. y.status \in {"absent", "queued", "running"} \cup Final
  BY DEF Run
<1> QED
  BY <1>1, <1>2, <1>3 DEF Final

-----------------------------------------------------------------------------
(* Steps of one row or one worker.                                         *)

\* The types of what a step touches.
LEMMA ManualTypes ==
    ASSUME ManualInv
    PROVE  /\ \A r \in Runs : run[r] \in Run /\ RowOK(run[r], completed[r]) /\ completed[r] \in 0 .. 2
           /\ \A w \in Workers : worker[w] \in manualRun /\ ClaimOK(w, worker[w], run)
           /\ DOMAIN run = Runs /\ DOMAIN worker = Workers
  BY DEF ManualInv, ManualTypeOK

\* A row changes, not to running and not to another owner; workers go on as they were.
LEMMA RowStep ==
    ASSUME ManualInv, NEW r \in Runs, NEW y \in Run, run' = [run EXCEPT ![r] = y],
           y.status = run[r].status \/ (run[r].status = "absent" /\ y.status = "queued"),
           y.owner = run[r].owner, y.leased => run[r].leased, run[r].status \in Final => y = run[r],
           sent' \subseteq Runs, UNCHANGED <<worker, prefer, lock, completed>>
    PROVE  ManualInv' /\ Decides
<1>1. /\ run' \in [Runs -> Run] /\ run'[r] = y /\ \A q \in Runs : q # r => run'[q] = run[q]
  BY DEF ManualInv, ManualTypeOK
<1>2. ManualTypeOK'
  BY <1>1 DEF ManualInv, ManualTypeOK
<1>3. RowOK(y, completed[r])
  <2>1. RowOK(run[r], completed[r]) /\ run[r] \in Run
    BY ManualTypes
  <2> QED
    BY <2>1 DEF RowOK, Final
<1>4. \A q \in Runs : RowOK(run'[q], completed'[q])
  BY <1>1, <1>3, ManualTypes
<1>5. ASSUME NEW w \in Workers PROVE ClaimOK(w, worker[w], run')
  <2>1. ClaimOK(w, worker[w], run)
    BY ManualTypes
  <2> QED
    BY <1>1, <2>1 DEF ClaimOK
<1>6. Forward
  <2>1. Rank(run[r].status) <= Rank(y.status)
    BY RankGrows, ManualTypes
  <2>2. ASSUME NEW q \in Runs PROVE Rank(run[q].status) <= Rank(run[q].status)
    BY RankGrows, ManualTypes
  <2> QED
    BY <1>1, <2>1, <2>2 DEF Forward
<1>7. ByLatestClaim
  BY DEF ByLatestClaim
<1> QED
  BY <1>2, <1>4, <1>5, <1>6, <1>7 DEF ManualInv, Decides

\* A worker goes on or becomes idle, and no row changes.
LEMMA WorkerStepOnly ==
    ASSUME ManualInv, NEW w \in Workers, NEW x \in manualRun, worker' = [worker EXCEPT ![w] = x],
           \/ x.pc = "idle"
           \/ worker[w].pc # "idle" /\ x.run = worker[w].run /\ (worker[w].latest => x.latest),
           lock' \in Workers \cup {Cron, None}, prefer' \in [Workers -> BOOLEAN],
           UNCHANGED <<run, sent, completed>>
    PROVE  ManualInv' /\ Decides
<1>1. /\ worker' \in [Workers -> manualRun] /\ worker'[w] = x
      /\ \A v \in Workers : v # w => worker'[v] = worker[v]
  BY DEF ManualInv, ManualTypeOK
<1>2. ManualTypeOK'
  BY <1>1 DEF ManualInv, ManualTypeOK
<1>3. ClaimOK(w, x, run)
  <2>1. ClaimOK(w, worker[w], run)
    BY ManualTypes
  <2> QED
    BY <2>1 DEF ClaimOK
<1>4. \A v \in Workers : ClaimOK(v, worker'[v], run')
  BY <1>1, <1>3, ManualTypes
<1>5. Forward
  <2>1. ASSUME NEW q \in Runs PROVE Rank(run[q].status) <= Rank(run[q].status)
    BY RankGrows, ManualTypes
  <2> QED
    BY <2>1 DEF Forward
<1>6. ByLatestClaim
  BY DEF ByLatestClaim
<1> QED
  BY <1>2, <1>4, <1>5, <1>6 DEF ManualInv, Decides

-----------------------------------------------------------------------------
(* Actions.                                                                *)

\* A trigger, a delivery of its event, and a lease that runs out.
LEMMA RunStepKeeps ==
    ASSUME ManualInv, NEW r \in Runs, RunStep(r)
    PROVE  ManualInv' /\ Decides
<1>1. run[r] \in Run /\ RowOK(run[r], completed[r]) /\ sent \subseteq Runs
  BY ManualTypes DEF ManualInv, ManualTypeOK
<1>2. CASE Trigger(r)
  <2> DEFINE y == [run[r] EXCEPT !.status = "queued"]
  <2>1. /\ run' = [run EXCEPT ![r] = y] /\ run[r].status = "absent" /\ sent' \subseteq Runs
        /\ UNCHANGED <<worker, prefer, lock, completed>>
    BY <1>1, <1>2 DEF Trigger
  <2>2. y \in Run /\ y.status = "queued" /\ y.owner = run[r].owner /\ (y.leased => run[r].leased)
    BY <1>1, RowQueued
  <2> HIDE DEF y
  <2>3. "absent" \notin Final
    BY DEF Final
  <2> QED
    BY <2>1, <2>2, <2>3, RowStep
<1>3. CASE consumeManual(r)
  <2> DEFINE y == Dispatched(run[r])
  <2>1. run' = [run EXCEPT ![r] = y] /\ UNCHANGED <<sent, worker, prefer, lock, completed>>
    BY <1>3 DEF consumeManual
  <2>2. /\ y \in Run /\ y.status = run[r].status /\ y.owner = run[r].owner /\ (y.leased => run[r].leased)
        /\ run[r].status # "queued" => y = run[r]
    BY <1>1, RowDispatched
  <2> HIDE DEF y
  <2>3. "queued" \notin Final
    BY DEF Final
  <2> QED
    BY <1>1, <2>1, <2>2, <2>3, RowStep
<1>4. CASE LeaseExpires(r)
  <2> DEFINE y == [run[r] EXCEPT !.leased = FALSE]
  <2>1. run' = [run EXCEPT ![r] = y] /\ run[r].leased /\ UNCHANGED <<sent, worker, prefer, lock, completed>>
    BY <1>4 DEF LeaseExpires
  <2>2. y \in Run /\ y.status = run[r].status /\ y.owner = run[r].owner
    BY <1>1, RowUnleased
  <2> HIDE DEF y
  <2>3. run[r].status \notin Final
    BY <1>1, <2>1 DEF RowOK, Final
  <2> QED
    BY <1>1, <2>1, <2>2, <2>3, RowStep
<1> QED
  BY <1>2, <1>3, <1>4 DEF RunStep

\* A worker takes the job's lock, gives up, returns from its handler, or loses its lease.
LEMMA ExecutionKeeps ==
    ASSUME ManualInv, NEW w \in Workers,
           Acquire(w) \/ GiveUp(w) \/ (\E s \in Final : Return(w, s)) \/ \E b \in BOOLEAN : renewManual(w, b)
    PROVE  ManualInv' /\ Decides
<1>1. /\ worker[w] \in manualRun /\ lock \in Workers \cup {Cron, None} /\ prefer \in [Workers -> BOOLEAN]
      /\ "error" \in Final /\ "error" \in {"success", "error", "skipped"}
  BY ManualTypes DEF ManualInv, ManualTypeOK, Final
<1>2. lock' \in Workers \cup {Cron, None} /\ worker[w].pc # "idle"
      /\ UNCHANGED <<run, sent, prefer, completed>>
  BY <1>1 DEF Acquire, GiveUp, Return, renewManual, Unlocked
<1>3. CASE Acquire(w)
  <2> DEFINE x == [worker[w] EXCEPT !.pc = "executing"]
  <2>1. worker' = [worker EXCEPT ![w] = x]
    BY <1>3 DEF Acquire
  <2>2. x \in manualRun /\ x.run = worker[w].run /\ (x.latest <=> worker[w].latest)
    BY <1>1, ClaimGoesOn
  <2> HIDE DEF x
  <2> QED
    BY <1>1, <1>2, <2>1, <2>2, WorkerStepOnly
<1>4. ASSUME NEW s \in Final, worker' = [worker EXCEPT ![w] = [worker[w] EXCEPT !.pc = "done", !.result = s]]
      PROVE  ManualInv' /\ Decides
  <2> DEFINE x == [worker[w] EXCEPT !.pc = "done", !.result = s]
  <2>2. x \in manualRun /\ x.run = worker[w].run /\ (x.latest <=> worker[w].latest)
    BY <1>1, ClaimEnds
  <2> HIDE DEF x
  <2>3. worker' = [worker EXCEPT ![w] = x]
    BY <1>4 DEF x
  <2> QED
    BY <1>1, <1>2, <2>2, <2>3, WorkerStepOnly
<1>5. CASE GiveUp(w)
  <2>1. worker' = [worker EXCEPT ![w] = [worker[w] EXCEPT !.pc = "done", !.result = "error"]]
    BY <1>5 DEF GiveUp, ManualInv, ManualTypeOK
  <2> QED
    BY <1>1, <1>4, <2>1
<1>6. ASSUME NEW s \in Final, Return(w, s) PROVE ManualInv' /\ Decides
  <2>1. worker' = [worker EXCEPT ![w] = [worker[w] EXCEPT !.pc = "done", !.result = s]]
    BY <1>6 DEF Return, ManualInv, ManualTypeOK
  <2> QED
    BY <1>4, <2>1
<1>7. ASSUME NEW b \in BOOLEAN, renewManual(w, b) PROVE ManualInv' /\ Decides
  <2> DEFINE x == [worker[w] EXCEPT !.lost = TRUE]
  <2>1. worker' = [worker EXCEPT ![w] = x]
    BY <1>7 DEF renewManual
  <2>2. x \in manualRun /\ x.run = worker[w].run /\ (x.latest <=> worker[w].latest)
    BY <1>1, ClaimLost
  <2> HIDE DEF x
  <2> QED
    BY <1>1, <1>2, <2>1, <2>2, WorkerStepOnly
<1> QED
  BY <1>3, <1>5, <1>6, <1>7

\* A worker leaves its run without a status, or its replica stops.
LEMMA LeaveKeeps ==
    ASSUME ManualInv, NEW w \in Workers, LeaveRun(w) \/ Stop(w)
    PROVE  ManualInv' /\ Decides
<1>1. worker' = [worker EXCEPT ![w] = Idle] /\ UNCHANGED <<run, sent, completed>>
  BY DEF LeaveRun, Stop
<1>2. prefer' \in [Workers -> BOOLEAN] /\ lock' \in Workers \cup {Cron, None}
  BY DEF LeaveRun, Stop, Unlocked, ManualInv, ManualTypeOK
<1> QED
  BY <1>1, <1>2, IdleClaim, WorkerStepOnly

\* A worker finishes its run under its lease, which makes it the one that claimed it last; or
\* its transaction changes nothing.
LEMMA FinishKeeps ==
    ASSUME ManualInv, NEW w \in Workers, NEW ok \in BOOLEAN, finishManual(w, ok)
    PROVE  ManualInv' /\ Decides
<1> DEFINE r == worker[w].run
           y == [run[r] EXCEPT !.status = worker[w].result, !.owner = None, !.leased = FALSE]
<1>1. /\ worker[w].pc = "done" /\ ~worker[w].lost
      /\ worker' = [worker EXCEPT ![w] = Idle] /\ UNCHANGED <<sent, prefer, lock>>
  BY DEF finishManual
<1>2. CASE ~(ok /\ HoldsLease(w))
  <2>1. UNCHANGED <<run, completed>>
    BY <1>2 DEF finishManual
  <2> QED
    BY <1>1, <2>1, IdleClaim, WorkerStepOnly DEF ManualInv, ManualTypeOK
<1>3. CASE ok /\ HoldsLease(w)
  <2>1. run' = [run EXCEPT ![r] = y] /\ completed' = [completed EXCEPT ![r] = Counted(completed[r])]
    BY <1>3 DEF finishManual, ManualInv, ManualTypeOK
  <2>2. run[r].status = "running" /\ run[r].owner = w
    BY <1>3 DEF HoldsLease, LeaseOwner
  <2>3. /\ worker[w] \in manualRun /\ worker[w].result \in Final
        /\ r \in Runs /\ worker[w].latest /\ run[r] \in Run /\ RowOK(run[r], completed[r])
    <3>1. worker[w] \in manualRun /\ ClaimOK(w, worker[w], run)
      BY ManualTypes
    <3>2. r \in Runs /\ worker[w].latest
      BY <1>1, <2>2, <3>1 DEF ClaimOK
    <3> QED
      BY <3>1, <3>2, ManualTypes DEF manualRun
  <2>4. y \in Run /\ y.status = worker[w].result /\ y.owner = None /\ ~y.leased
    BY <2>3, RowFinished
  <2> HIDE DEF r, y
  <2>5. completed[r] = 0 /\ Counted(completed[r]) = 1
    BY <2>2, <2>3 DEF RowOK, Final, Counted
  <2>6. /\ run' \in [Runs -> Run] /\ run'[r] = y /\ \A q \in Runs : q # r => run'[q] = run[q]
        /\ completed' \in [Runs -> 0 .. 2] /\ completed'[r] = 1
        /\ \A q \in Runs : q # r => completed'[q] = completed[q]
    BY <2>1, <2>3, <2>4, <2>5 DEF ManualInv, ManualTypeOK
  <2>7. /\ worker' \in [Workers -> manualRun] /\ worker'[w] = Idle
        /\ \A v \in Workers : v # w => worker'[v] = worker[v]
    BY <1>1, IdleClaim DEF ManualInv, ManualTypeOK
  <2>8. ManualTypeOK'
    BY <1>1, <2>6, <2>7 DEF ManualInv, ManualTypeOK
  <2>9. \A q \in Runs : RowOK(run'[q], completed'[q])
    <3>1. RowOK(y, 1)
      BY <2>3, <2>4 DEF RowOK
    <3> QED
      BY <2>6, <3>1, ManualTypes
  <2>10. ASSUME NEW v \in Workers PROVE ClaimOK(v, worker'[v], run')
    <3>1. CASE v = w
      BY <2>7, <3>1, IdleClaim DEF ClaimOK
    <3>2. CASE v # w
      <4>1. ClaimOK(v, worker[v], run) /\ worker'[v] = worker[v]
        BY <2>7, <3>2, ManualTypes
      <4>2. y.status # "running"
        BY <2>3, <2>4 DEF Final
      <4> QED
        BY <2>6, <4>1, <4>2 DEF ClaimOK
    <3> QED
      BY <3>1, <3>2
  <2>11. Forward
    <3>1. Rank(run[r].status) <= Rank(y.status) /\ run[r].status \notin Final
      <4>1. y.status \in Final /\ y \in Run /\ run[r] \in Run
        BY <2>3, <2>4
      <4> QED
        BY <2>2, <4>1, RankGrows DEF Final
    <3>2. ASSUME NEW q \in Runs PROVE Rank(run[q].status) <= Rank(run[q].status)
      BY RankGrows, ManualTypes
    <3> QED
      BY <2>6, <3>1, <3>2 DEF Forward
  <2>12. ByLatestClaim
    <3>1. ASSUME NEW v \in Workers, worker[v].pc = "done", worker'[v].pc = "idle"
          PROVE  v = w
      BY <2>7, <3>1
    <3> QED
      BY <1>1, <2>3, <2>4, <2>6, <3>1 DEF ByLatestClaim, r
  <2> QED
    BY <2>8, <2>9, <2>10, <2>11, <2>12 DEF ManualInv, Decides
<1> QED
  BY <1>2, <1>3

\* A claim takes a queued run or one whose lease ran out, supersedes whoever claimed it before,
\* and is the latest from then on.
LEMMA ClaimKeeps ==
    ASSUME ManualInv, NEW w \in Workers, NEW r \in Runs, NEW skip \in SUBSET Runs, claimManual(w, r, skip)
    PROVE  ManualInv' /\ Decides
<1> DEFINE y == [run[r] EXCEPT !.status = "running", !.owner = w, !.leased = TRUE]
           x == [pc |-> IF r \in Invalid THEN "done" ELSE "waiting", run |-> r,
                 result |-> "error", lost |-> FALSE, latest |-> TRUE]
<1>1. /\ worker[w].pc = "idle" /\ r \in Selected(w, skip)
      /\ worker' = [Superseded(r) EXCEPT ![w] = x]
      /\ prefer' = [prefer EXCEPT ![w] = ~prefer[w]] /\ UNCHANGED <<sent, lock, completed>>
  BY DEF claimManual
<1>2. run' = [run EXCEPT ![r] = y]
  BY DEF claimManual, LeaseOwner, ManualInv, ManualTypeOK
<1>3. run[r].status \in {"queued", "running"}
  BY <1>1 DEF Selected, Expired, OldestQueued, Queued
<1>4. y \in Run /\ y.status = "running" /\ y.owner = w
  BY ManualTypes, RowClaimed
<1>5. x \in manualRun /\ x.run = r /\ x.latest /\ x.pc # "idle"
  BY DEF manualRun, Final
<1> HIDE DEF x, y
<1>6. ASSUME NEW v \in Workers
      PROVE  /\ Superseded(r)[v] \in manualRun
             /\ Superseded(r)[v].pc = worker[v].pc /\ Superseded(r)[v].run = worker[v].run
             /\ worker[v].run # r => Superseded(r)[v] = worker[v]
  <2>1. worker[v] \in manualRun
    BY ManualTypes
  <2>2. Superseded(r)[v] = IF worker[v].run = r THEN [worker[v] EXCEPT !.latest = FALSE] ELSE worker[v]
    BY DEF Superseded
  <2>3. CASE worker[v].run = r
    BY <2>1, <2>2, <2>3, ClaimSuperseded
  <2>4. CASE worker[v].run # r
    BY <2>1, <2>2, <2>4
  <2> QED
    BY <2>3, <2>4
<1>7. /\ worker' \in [Workers -> manualRun] /\ worker'[w] = x
      /\ \A v \in Workers : v # w => worker'[v] = Superseded(r)[v]
  <2>1. Superseded(r) \in [Workers -> manualRun]
    <3>1. Superseded(r) = [v \in Workers |-> Superseded(r)[v]]
      BY DEF Superseded
    <3> QED
      BY <1>6, <3>1
  <2> QED
    BY <1>1, <1>5, <2>1
<1>8. run' \in [Runs -> Run] /\ run'[r] = y /\ \A q \in Runs : q # r => run'[q] = run[q]
  BY <1>2, <1>4 DEF ManualInv, ManualTypeOK
<1>9. ManualTypeOK'
  BY <1>1, <1>7, <1>8 DEF ManualInv, ManualTypeOK
<1>10. \A q \in Runs : RowOK(run'[q], completed'[q])
  <2>1. RowOK(run[r], completed[r])
    BY ManualTypes
  <2>2. RowOK(y, completed[r])
    BY <1>3, <1>4, <2>1 DEF RowOK, Final
  <2> QED
    BY <1>1, <1>8, <2>2, ManualTypes
<1>11. ASSUME NEW v \in Workers PROVE ClaimOK(v, worker'[v], run')
  <2>1. CASE v = w
    BY <1>5, <1>7, <2>1 DEF ClaimOK
  <2>2. CASE v # w
    <3>1. ClaimOK(v, worker[v], run) /\ worker'[v] = Superseded(r)[v]
      BY <1>7, <2>2, ManualTypes
    <3>2. CASE worker[v].run = r
      BY <1>4, <1>6, <1>8, <2>2, <3>1, <3>2 DEF ClaimOK
    <3>3. CASE worker[v].run # r
      BY <1>6, <1>8, <3>1, <3>3 DEF ClaimOK
    <3> QED
      BY <3>2, <3>3
  <2> QED
    BY <2>1, <2>2
<1>12. Forward
  <2>1. run[r] \in Run
    BY ManualTypes
  <2>2. Rank(run[r].status) <= Rank(y.status) /\ run[r].status \notin Final
    BY <1>3, <1>4, <2>1, RankGrows DEF Final
  <2>3. ASSUME NEW q \in Runs PROVE Rank(run[q].status) <= Rank(run[q].status)
    BY RankGrows, ManualTypes
  <2> QED
    BY <1>8, <2>2, <2>3 DEF Forward
<1>13. ByLatestClaim
  <2>1. \A v \in Workers : worker'[v].pc = "idle" => worker[v].pc = "idle"
    BY <1>1, <1>6, <1>7
  <2> QED
    BY <2>1 DEF ByLatestClaim
<1> QED
  BY <1>9, <1>10, <1>11, <1>12, <1>13 DEF ManualInv, Decides

\* Only the lock changes hands, or nothing happens.
LEMMA LockKeeps ==
    ASSUME ManualInv, lock' \in Workers \cup {Cron, None}, UNCHANGED <<run, sent, worker, prefer, completed>>
    PROVE  ManualInv' /\ Decides
<1>1. ManualInv'
  BY DEF ManualInv, ManualTypeOK
<1>2. ASSUME NEW q \in Runs PROVE Rank(run[q].status) <= Rank(run[q].status)
  BY RankGrows, ManualTypes
<1> QED
  BY <1>1, <1>2 DEF Decides, Forward, ByLatestClaim

-----------------------------------------------------------------------------
(* The specification.                                                      *)

\* No run has been submitted.
LEMMA ManualInitially ==
    ASSUME ManualInit
    PROVE  ManualInv
<1>1. Absent \in Run /\ RowOK(Absent, 0)
  BY DEF Absent, Run, RowOK, Final
<1>2. ManualTypeOK
  BY <1>1, IdleClaim DEF ManualInit, ManualTypeOK
<1>3. \A r \in Runs : RowOK(run[r], completed[r])
  BY <1>1 DEF ManualInit
<1>4. \A w \in Workers : ClaimOK(w, worker[w], run)
  BY IdleClaim DEF ManualInit, ClaimOK
<1> QED
  BY <1>2, <1>3, <1>4 DEF ManualInv

\* Every step keeps the invariant, and leaves the decision to the latest claim.
LEMMA ManualStep ==
    ASSUME ManualInv, ManualNext
    PROVE  ManualInv' /\ Decides
<1>1. ASSUME NEW w \in Workers, WorkerStep(w) PROVE ManualInv' /\ Decides
  <2>1. ASSUME NEW r \in Runs, NEW skip \in SUBSET Runs, claimManual(w, r, skip) PROVE ManualInv' /\ Decides
    BY <2>1, ClaimKeeps
  <2>2. CASE Acquire(w) \/ GiveUp(w) \/ (\E s \in Final : Return(w, s))
             \/ \E b \in BOOLEAN : renewManual(w, b)
    BY <2>2, ExecutionKeeps
  <2>3. CASE LeaveRun(w) \/ Stop(w)
    BY <2>3, LeaveKeeps
  <2>4. ASSUME NEW b \in BOOLEAN, finishManual(w, b) PROVE ManualInv' /\ Decides
    BY <2>4, FinishKeeps
  <2> QED
    BY <1>1, <2>1, <2>2, <2>3, <2>4 DEF WorkerStep
<1>2. CASE CronStart \/ CronEnd \/ LockExpires
  BY <1>2, LockKeeps DEF CronStart, CronEnd, LockExpires
<1> QED
  BY <1>1, <1>2, RunStepKeeps DEF ManualNext

\* A step that leaves everything keeps the invariant.
LEMMA ManualStutters ==
    ASSUME ManualInv, UNCHANGED manualVars
    PROVE  ManualInv'
  BY DEF ManualInv, ManualTypeOK, manualVars

\* The inductive invariant: a worker that still owns the row of its run claimed it last.
THEOREM ManualInvariance == ManualSpec => []ManualInv
<1>1. ManualInit => ManualInv
  BY ManualInitially
<1>2. ManualInv /\ [ManualNext /\ UNCHANGED restarts]_<<manualVars, restarts>> => ManualInv'
  BY ManualStep, ManualStutters
<1> QED
  BY <1>1, <1>2, PTL DEF ManualSpec

\* Rows, claims and the lock have their types.
THEOREM ManualTypesHold == ManualSpec => []ManualTypeOK
<1>1. ManualInv => ManualTypeOK
  BY DEF ManualInv
<1> QED
  BY <1>1, ManualInvariance, PTL

\* A run has its completion event exactly when it has its final status, and never two, whatever
\* workers, restarts and repeated deliveries do (finishManual).
THEOREM CompletedOnceHolds == ManualSpec => []CompletedOnce
<1>1. ManualInv => CompletedOnce
  BY DEF ManualInv, CompletedOnce, RowOK
<1> QED
  BY <1>1, ManualInvariance, PTL

\* Every change of a run's row by the worker that ends it is its final status, by the latest
\* claim, with the lease in hand; rows only go forward and final ones are never touched.
THEOREM LatestDecides == ManualSpec => LatestClaimDecides
<1>1. ManualInv /\ [ManualNext /\ UNCHANGED restarts]_<<manualVars, restarts>>
         => [ByLatestClaim /\ Forward]_manualVars
  BY ManualStep DEF Decides
<1> QED
  BY <1>1, ManualInvariance, PTL DEF ManualSpec, LatestClaimDecides

-----------------------------------------------------------------------------
(* Definitions and replicas.                                               *)

\* An active definition as a replica has read it.
Row == [id : Job, version : Nat, handler : Handler]

\* A row of the definitions.
JobRow == [live : {FALSE}, version : Nat] \cup
          [live : {TRUE}, version : Nat, handler : Handler, status : {"active", "disabled"}]

\* What loadActiveDefinitions last returned.
Loads == [read : BOOLEAN, rows : SUBSET Row]

\* A replica.
Life == [stage : {"down", "starting", "up", "stopping", "stopped"}, entries : SUBSET Row, loaded : Loads]

\* The types.
JobsTypeOK ==
    /\ definition \in [Job -> JobRow]
    /\ replica \in [Replica -> Life]
    /\ execution \subseteq [replica : Replica, job : Job, entry : BOOLEAN, kept : BOOLEAN]

\* The lock of an execution that has not lost it is taken.
KeptIsLocked == \A e \in execution : e.kept => e.job \in jobLock

\* The inductive invariant.
JobsInv == JobsTypeOK /\ KeptIsLocked /\ Jobs!OneRunPerJob /\ Jobs!StopIsClean

\* A replica that has read the definitions.
LEMMA LifeLoaded ==
  ASSUME NEW r \in Life, NEW l \in Loads
  PROVE  [r EXCEPT !.loaded = l] \in Life
  BY DEF Life

\* A replica that begins or ends.
LEMMA LifeStaged ==
  ASSUME NEW r \in Life, NEW s \in {"starting", "stopping"}
  PROVE  [r EXCEPT !.stage = s] \in Life
  BY DEF Life

\* No definitions, no replicas, no runs.
LEMMA JobsBegin == Jobs!Init => JobsInv
  BY DEF Jobs!Init, JobsInv, JobsTypeOK, JobRow, Life, Loads, KeptIsLocked, Jobs!OneRunPerJob,
         Jobs!StopIsClean, Jobs!NoJob, Jobs!Down, Jobs!NotLoaded

\* A definition is written; entries and executions stay.
LEMMA JobsCreateKeeps ==
  ASSUME JobsInv, NEW n \in Replica, NEW j \in Job, NEW handler \in Handler,
         NEW status \in {"active", "disabled"}, Jobs!Create(n, j, handler, status)
  PROVE  JobsInv'
  <1>1. JobsTypeOK'
    BY DEF JobsInv, JobsTypeOK, Jobs!Create, JobRow
  <1>2. KeptIsLocked'
    BY DEF JobsInv, KeptIsLocked, Jobs!Create
  <1>3. Jobs!OneRunPerJob'
    BY DEF JobsInv, Jobs!OneRunPerJob, Jobs!Create
  <1>4. Jobs!StopIsClean'
    BY DEF JobsInv, Jobs!StopIsClean, Jobs!Create
  <1> QED
    BY <1>1, <1>2, <1>3, <1>4 DEF JobsInv

\* So it is when it is changed.
LEMMA JobsUpdateKeeps ==
  ASSUME JobsInv, NEW n \in Replica, NEW j \in Job, NEW version \in Nat, NEW handler \in Handler,
         NEW status \in {"active", "disabled"}, Jobs!Update(n, j, version, handler, status)
  PROVE  JobsInv'
  <1>1. JobsTypeOK'
    <2>1. PICK v \in Nat : v = version + 1
      OBVIOUS
    <2>2. definition' = [definition EXCEPT ![j] = [live |-> TRUE, version |-> v, handler |-> handler,
          status |-> status]]
      BY <2>1 DEF Jobs!Update
    <2>3. [live |-> TRUE, version |-> v, handler |-> handler, status |-> status] \in JobRow
      BY DEF JobRow
    <2> QED
      BY <2>2, <2>3 DEF JobsInv, JobsTypeOK, Jobs!Update
  <1>2. KeptIsLocked'
    BY DEF JobsInv, KeptIsLocked, Jobs!Update
  <1>3. Jobs!OneRunPerJob'
    BY DEF JobsInv, Jobs!OneRunPerJob, Jobs!Update
  <1>4. Jobs!StopIsClean'
    BY DEF JobsInv, Jobs!StopIsClean, Jobs!Update
  <1> QED
    BY <1>1, <1>2, <1>3, <1>4 DEF JobsInv

\* Or deleted.
LEMMA JobsDeleteKeeps ==
  ASSUME JobsInv, NEW n \in Replica, NEW j \in Job, NEW version \in Nat, Jobs!Delete(n, j, version)
  PROVE  JobsInv'
  <1>1. JobsTypeOK'
    <2>1. PICK v \in Nat : v = version + 1
      OBVIOUS
    <2>2. definition' = [definition EXCEPT ![j] = [live |-> FALSE, version |-> v]]
      BY <2>1 DEF Jobs!Delete
    <2>3. [live |-> FALSE, version |-> v] \in JobRow
      BY DEF JobRow
    <2> QED
      BY <2>2, <2>3 DEF JobsInv, JobsTypeOK, Jobs!Delete
  <1>2. KeptIsLocked'
    BY DEF JobsInv, KeptIsLocked, Jobs!Delete
  <1>3. Jobs!OneRunPerJob'
    BY DEF JobsInv, Jobs!OneRunPerJob, Jobs!Delete
  <1>4. Jobs!StopIsClean'
    BY DEF JobsInv, Jobs!StopIsClean, Jobs!Delete
  <1> QED
    BY <1>1, <1>2, <1>3, <1>4 DEF JobsInv

\* The first half of a refresh.
LEMMA JobsLoadKeeps ==
  ASSUME JobsInv, NEW n \in Replica, Jobs!loadActiveDefinitions(n)
  PROVE  JobsInv'
  <1>1. JobsTypeOK'
    <2>1. ASSUME NEW d \in Jobs!Active
          PROVE  d \in Row
      <3>1. PICK i \in Job : /\ definition[i].live
                             /\ d = [id |-> i, version |-> definition[i].version,
                                handler |-> definition[i].handler]
        BY DEF Jobs!Active
      <3>2. definition[i].version \in Nat /\ definition[i].handler \in Handler
        <4>1. definition[i] \in [live : {TRUE}, version : Nat, handler : Handler,
              status : {"active", "disabled"}]
          BY <3>1 DEF JobsInv, JobsTypeOK, JobRow
        <4> QED
          BY <4>1
      <3> QED
        BY <3>1, <3>2 DEF Row
    <2>2. Jobs!Active \in SUBSET Row
      BY <2>1
    <2>3. [read |-> TRUE, rows |-> Jobs!Active] \in Loads
      BY <2>2 DEF Loads
    <2>4. [replica[n] EXCEPT !.loaded = [read |-> TRUE, rows |-> Jobs!Active]] \in Life
      BY <2>3, LifeLoaded DEF JobsInv, JobsTypeOK
    <2>5. replica' = [replica EXCEPT ![n] = [replica[n] EXCEPT !.loaded = [read |-> TRUE,
          rows |-> Jobs!Active]]]
      BY DEF Jobs!loadActiveDefinitions
    <2> QED
      BY <2>4 DEF JobsInv, JobsTypeOK, Jobs!loadActiveDefinitions
  <1>2. KeptIsLocked'
    BY DEF JobsInv, KeptIsLocked, Jobs!loadActiveDefinitions
  <1>3. Jobs!OneRunPerJob'
    BY DEF JobsInv, Jobs!OneRunPerJob, Jobs!loadActiveDefinitions
  <1>4. Jobs!StopIsClean'
    BY DEF JobsInv, Jobs!StopIsClean, Jobs!loadActiveDefinitions
  <1> QED
    BY <1>1, <1>2, <1>3, <1>4 DEF JobsInv

\* Entries are replaced under the mutex of the scheduler; executions under way go on.
LEMMA RefreshKeeps ==
  ASSUME JobsInv, NEW n \in Replica, Jobs!Refresh(n)
  PROVE  JobsInv'
  <1>1. JobsTypeOK'
    BY DEF JobsInv, JobsTypeOK, Jobs!Refresh, Jobs!Stages, Jobs!NotLoaded, Life
  <1>2. KeptIsLocked'
    BY DEF JobsInv, JobsTypeOK, KeptIsLocked, Jobs!Refresh
  <1>3. Jobs!OneRunPerJob'
    BY DEF JobsInv, JobsTypeOK, Jobs!Refresh, Jobs!Stages, Jobs!NotLoaded, Life
  <1>4. Jobs!StopIsClean'
    BY DEF JobsInv, JobsTypeOK, Jobs!Refresh, Jobs!Stages, Jobs!NotLoaded, Life
  <1> QED
    BY <1>1, <1>2, <1>3, <1>4 DEF JobsInv

\* A refresh that cannot load leaves the entries.
LEMMA RefreshFailsKeeps ==
  ASSUME JobsInv, NEW n \in Replica, Jobs!RefreshFails(n)
  PROVE  JobsInv'
  <1>1. JobsTypeOK'
    <2>1. CASE replica[n].stage = "starting"
      BY DEF JobsInv, JobsTypeOK, Life, Loads, Jobs!RefreshFails, Jobs!Down, Jobs!NotLoaded
    <2>2. CASE replica[n].stage # "starting"
      <3>1. replica' = [replica EXCEPT ![n] = [replica[n] EXCEPT !.loaded = Jobs!NotLoaded]]
        BY <2>2 DEF Jobs!RefreshFails
      <3>2. Jobs!NotLoaded \in Loads
        BY DEF Loads, Jobs!NotLoaded
      <3>3. [replica[n] EXCEPT !.loaded = Jobs!NotLoaded] \in Life
        BY <3>2, LifeLoaded DEF JobsInv, JobsTypeOK
      <3> QED
        BY <3>1, <3>3 DEF JobsInv, JobsTypeOK, Jobs!RefreshFails
    <2> QED
      BY <2>1, <2>2
  <1>2. KeptIsLocked'
    BY DEF JobsInv, KeptIsLocked, Jobs!RefreshFails
  <1>3. Jobs!OneRunPerJob'
    BY DEF JobsInv, Jobs!OneRunPerJob, Jobs!RefreshFails
  <1>4. Jobs!StopIsClean'
    BY DEF JobsInv, Jobs!StopIsClean, Jobs!RefreshFails, Jobs!Down
  <1> QED
    BY <1>1, <1>2, <1>3, <1>4 DEF JobsInv

\* A scheduler starts.
LEMMA JobsStartKeeps ==
  ASSUME JobsInv, NEW n \in Replica, Jobs!start(n)
  PROVE  JobsInv'
  <1>1. JobsTypeOK'
    <2>1. replica' = [replica EXCEPT ![n] = [replica[n] EXCEPT !.stage = "starting"]]
      BY DEF Jobs!start
    <2>2. [replica[n] EXCEPT !.stage = "starting"] \in Life
      BY LifeStaged DEF JobsInv, JobsTypeOK
    <2> QED
      BY <2>2 DEF JobsInv, JobsTypeOK, Jobs!start
  <1>2. KeptIsLocked'
    BY DEF JobsInv, KeptIsLocked, Jobs!start
  <1>3. Jobs!OneRunPerJob'
    BY DEF JobsInv, Jobs!OneRunPerJob, Jobs!start
  <1>4. Jobs!StopIsClean'
    BY DEF JobsInv, Jobs!StopIsClean, Jobs!start
  <1> QED
    BY <1>1, <1>2, <1>3, <1>4 DEF JobsInv

\* An execution begins by taking the lock of its job, which nobody else keeps.
LEMMA JobsExecuteKeeps ==
  ASSUME JobsInv, NEW n \in Replica, NEW d \in replica[n].entries, Jobs!execute(n, d)
  PROVE  JobsInv'
  <1>1. JobsTypeOK'
    <2>1. d \in Row
      BY DEF JobsInv, JobsTypeOK, Life
    <2>2. [replica |-> n, job |-> d.id, entry |-> TRUE, kept |-> TRUE] \in
             [replica : Replica, job : Job, entry : BOOLEAN, kept : BOOLEAN]
      BY <2>1 DEF Row
    <2> QED
      BY <2>2 DEF JobsInv, JobsTypeOK, Jobs!execute, Jobs!Executing
  <1>2. KeptIsLocked'
    BY DEF JobsInv, KeptIsLocked, Jobs!execute, Jobs!Executing
  <1>3. Jobs!OneRunPerJob'
    <2> DEFINE new == [replica |-> n, job |-> d.id, entry |-> TRUE, kept |-> TRUE]
    <2>1. new.job = d.id /\ d.id \notin jobLock /\ execution' = execution \cup {new}
      BY DEF Jobs!execute, Jobs!Executing, Jobs!TryLock
    <2> HIDE DEF new
    <2>2. ASSUME NEW e \in execution, e.kept
          PROVE  e.job # new.job
      BY <2>1, <2>2 DEF JobsInv, KeptIsLocked
    <2> QED
      BY <2>1, <2>2 DEF JobsInv, Jobs!OneRunPerJob
  <1>4. Jobs!StopIsClean'
    BY DEF JobsInv, Jobs!StopIsClean, Jobs!execute, Jobs!Executing
  <1> QED
    BY <1>1, <1>2, <1>3, <1>4 DEF JobsInv

\* It ends and releases its lock, if it still has it.
LEMMA RecordRunKeeps ==
  ASSUME JobsInv, NEW e \in execution, Jobs!recordRun(e)
  PROVE  JobsInv'
  <1>1. JobsTypeOK'
    BY DEF JobsInv, JobsTypeOK, Jobs!recordRun
  <1>2. KeptIsLocked'
    BY DEF JobsInv, KeptIsLocked, Jobs!OneRunPerJob, Jobs!recordRun
  <1>3. Jobs!OneRunPerJob'
    BY DEF JobsInv, Jobs!OneRunPerJob, Jobs!recordRun
  <1>4. Jobs!StopIsClean'
    BY DEF JobsInv, Jobs!StopIsClean, Jobs!recordRun
  <1> QED
    BY <1>1, <1>2, <1>3, <1>4 DEF JobsInv

\* Redis loses the lock of an execution, and others may take it.
LEMMA LoseLockKeeps ==
  ASSUME JobsInv, NEW e \in execution, Jobs!LoseLock(e)
  PROVE  JobsInv'
  <1>1. JobsTypeOK'
    BY DEF JobsInv, JobsTypeOK, Jobs!LoseLock
  <1>2. KeptIsLocked'
    BY DEF JobsInv, JobsTypeOK, KeptIsLocked, Jobs!OneRunPerJob, Jobs!LoseLock
  <1>3. Jobs!OneRunPerJob'
    BY DEF JobsInv, JobsTypeOK, Jobs!OneRunPerJob, Jobs!LoseLock
  <1>4. Jobs!StopIsClean'
    BY DEF JobsInv, JobsTypeOK, Jobs!StopIsClean, Jobs!LoseLock
  <1> QED
    BY <1>1, <1>2, <1>3, <1>4 DEF JobsInv

\* stop cancels the loop; entries fire no more.
LEMMA JobsStopKeeps ==
  ASSUME JobsInv, NEW n \in Replica, Jobs!stop(n)
  PROVE  JobsInv'
  <1>1. JobsTypeOK'
    <2>1. replica' = [replica EXCEPT ![n] = [replica[n] EXCEPT !.stage = "stopping"]]
      BY DEF Jobs!stop
    <2>2. [replica[n] EXCEPT !.stage = "stopping"] \in Life
      BY LifeStaged DEF JobsInv, JobsTypeOK
    <2> QED
      BY <2>2 DEF JobsInv, JobsTypeOK, Jobs!stop
  <1>2. KeptIsLocked'
    BY DEF JobsInv, KeptIsLocked, Jobs!stop
  <1>3. Jobs!OneRunPerJob'
    BY DEF JobsInv, Jobs!OneRunPerJob, Jobs!stop
  <1>4. Jobs!StopIsClean'
    BY DEF JobsInv, Jobs!StopIsClean, Jobs!stop
  <1> QED
    BY <1>1, <1>2, <1>3, <1>4 DEF JobsInv

\* The refresh loop returns.
LEMMA LoopEndsKeeps ==
  ASSUME JobsInv, NEW n \in Replica, Jobs!LoopEnds(n)
  PROVE  JobsInv'
  <1>1. JobsTypeOK'
    BY DEF JobsInv, JobsTypeOK, Jobs!StopIsClean, Jobs!LoopEnds, Jobs!NotLoaded, Life, Loads
  <1>2. KeptIsLocked'
    BY DEF JobsInv, KeptIsLocked, Jobs!LoopEnds
  <1>3. Jobs!OneRunPerJob'
    BY DEF JobsInv, Jobs!OneRunPerJob, Jobs!LoopEnds
  <1>4. Jobs!StopIsClean'
    BY DEF JobsInv, Jobs!StopIsClean, Jobs!LoopEnds
  <1> QED
    BY <1>1, <1>2, <1>3, <1>4 DEF JobsInv

\* The scheduler has stopped once its executions have returned.
LEMMA JobsStoppedKeeps ==
  ASSUME JobsInv, NEW n \in Replica, Jobs!Stopped(n)
  PROVE  JobsInv'
  <1>1. JobsTypeOK'
    BY DEF JobsInv, JobsTypeOK, Jobs!Stopped, Jobs!Down, Life
  <1>2. KeptIsLocked'
    BY DEF JobsInv, KeptIsLocked, Jobs!Stopped
  <1>3. Jobs!OneRunPerJob'
    BY DEF JobsInv, Jobs!OneRunPerJob, Jobs!Stopped
  <1>4. Jobs!StopIsClean'
    BY DEF JobsInv, Jobs!StopIsClean, Jobs!Stopped, Jobs!Down
  <1> QED
    BY <1>1, <1>2, <1>3, <1>4 DEF JobsInv

\* A crash takes the executions of a replica with it and leaves their locks to expire.
LEMMA JobsDiesKeeps ==
  ASSUME JobsInv, NEW n \in Replica, Jobs!Dies(n)
  PROVE  JobsInv'
  <1>1. JobsTypeOK'
    BY DEF JobsInv, JobsTypeOK, Jobs!Dies, Jobs!Down, Jobs!NotLoaded, Life, Loads
  <1>2. KeptIsLocked'
    BY DEF JobsInv, KeptIsLocked, Jobs!Dies
  <1>3. Jobs!OneRunPerJob'
    BY DEF JobsInv, Jobs!OneRunPerJob, Jobs!Dies
  <1>4. Jobs!StopIsClean'
    BY DEF JobsInv, Jobs!StopIsClean, Jobs!Dies, Jobs!Down
  <1> QED
    BY <1>1, <1>2, <1>3, <1>4 DEF JobsInv

\* Only a lock that no execution keeps expires.
LEMMA LockExpiresKeeps ==
  ASSUME JobsInv, NEW j \in Job, Jobs!LockExpires(j)
  PROVE  JobsInv'
  <1>1. JobsTypeOK'
    BY DEF JobsInv, JobsTypeOK, Jobs!LockExpires
  <1>2. KeptIsLocked'
    BY DEF JobsInv, KeptIsLocked, Jobs!LockExpires
  <1>3. Jobs!OneRunPerJob'
    BY DEF JobsInv, Jobs!OneRunPerJob, Jobs!LockExpires
  <1>4. Jobs!StopIsClean'
    BY DEF JobsInv, Jobs!StopIsClean, Jobs!LockExpires
  <1> QED
    BY <1>1, <1>2, <1>3, <1>4 DEF JobsInv

\* ScheduleIsSound: while locks last, no job runs twice at a time on any number of replicas, and a
\* scheduler that has stopped runs nothing and has no refresh under way (execute, stop).
THEOREM ScheduleSound == Jobs!Spec => []ScheduleIsSound
  <1>1. ASSUME JobsInv, [Jobs!Next]_(Jobs!vars)
        PROVE  JobsInv'
    <2>1. CASE UNCHANGED Jobs!vars
      BY <1>1, <2>1
         DEF JobsInv, JobsTypeOK, KeptIsLocked, Jobs!OneRunPerJob, Jobs!StopIsClean, Jobs!vars
    <2>2. CASE Jobs!Next
      <3>1. 1 .. MaxJobWrites \subseteq Nat
        OBVIOUS
      <3> QED
        BY <1>1, <2>2, JobsCreateKeeps, JobsUpdateKeeps, JobsDeleteKeeps, JobsLoadKeeps,
           RefreshKeeps, RefreshFailsKeeps, JobsStartKeeps, JobsExecuteKeeps, RecordRunKeeps,
           LoseLockKeeps, JobsStopKeeps, LoopEndsKeeps, JobsStoppedKeeps, JobsDiesKeeps,
           LockExpiresKeeps
           DEF Jobs!Next
    <2> QED
      BY <1>1, <2>1, <2>2
  <1>2. JobsInv => ScheduleIsSound
    BY DEF JobsInv, ScheduleIsSound, Jobs!ScheduleIsSound
  <1> QED
    BY JobsBegin, <1>1, <1>2, PTL DEF Jobs!Spec
=============================================================================
