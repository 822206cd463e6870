------------------------------- MODULE Runtime -------------------------------
(***************************************************************************)
(* How the process comes up and goes down (app/app.go), with the workers   *)
(* of background/worker.go, the consumers of eventbus/consumer_lifecycle.go*)
(* and the two servers.  Constructors open the database, Redis and the     *)
(* event bus; then the start hooks run in the order they were registered,  *)
(* which is a dependency order, and the stop hooks in reverse (Fx, an      *)
(* external component).  A hook that fails to start, or a signal, begins   *)
(* the way down; when the stop budget runs out the remaining hooks are not *)
(* run and the process exits.                                              *)
(***************************************************************************)
EXTENDS Naturals, Sequences

VARIABLES
    phase,      \* building | starting | up | stopping | exited
    opened,     \* the resources whose constructor has opened them
    started,    \* how many hooks have been started and not stopped
    unit,       \* what each hook runs
    budget      \* is there time left to start, or to stop?

vars == <<phase, opened, started, unit, budget>>

-----------------------------------------------------------------------------

Resource == {"database", "redis", "bus"}

\* The hooks in the order they are registered.
Order == <<"database", "redis", "lifecycle", "files", "bus", "outbox",
           "consumer", "catalog", "policies", "scheduler", "grpc", "http">>

Hook == {Order[i] : i \in DOMAIN Order}

\* What runs between the start and the stop of a hook, and on what it relies.
Uses(h) == CASE h = "lifecycle" -> {"database", "redis"}
             [] h = "outbox" -> {"database", "bus"}
             [] h = "consumer" -> {"database", "bus"}
             [] h \in {"files", "policies", "scheduler", "grpc", "http"} -> {"database", "redis"}
             [] OTHER -> {}

Init == /\ phase = "building" /\ opened = {} /\ started = 0 /\ budget = TRUE
        /\ unit = [h \in Hook |-> "off"]

\* newDatabase, newRedis, newBus: a constructor that fails ends the process
\* before a hook has run.
Construct(r) ==
    /\ phase = "building" /\ r \notin opened
    /\ \/ opened' = opened \cup {r} /\ phase' = phase
       \/ phase' = "exited" /\ UNCHANGED opened
    /\ UNCHANGED <<started, unit, budget>>

Built ==
    /\ phase = "building" /\ opened = Resource
    /\ phase' = "starting"
    /\ UNCHANGED <<opened, started, unit, budget>>

Turn == Order[started + 1]

\* Worker.Start; a resource has nothing to start, and the resource catalog is
\* synchronised within its hook.
OnStart ==
    /\ phase = "starting" /\ started < Len(Order) /\ budget
    /\ unit' = [unit EXCEPT ![Turn] = IF Turn \in Resource \cup {"catalog"} THEN "off" ELSE "running"]
    /\ started' = started + 1
    /\ UNCHANGED <<phase, opened, budget>>

\* A start hook that can fail: the first maintenance, the dependencies of the
\* files, the policies that must load, the schedule, a listener.  What its
\* own hook opened it closes itself; the hooks before it are stopped.
OnStartFails ==
    /\ phase = "starting" /\ started < Len(Order)
    /\ ~budget \/ Turn \in {"redis", "lifecycle", "files", "catalog", "policies", "scheduler", "grpc", "http"}
    /\ opened' = IF Turn = "redis" THEN opened \ {"redis"} ELSE opened
    /\ phase' = "stopping" /\ budget' = TRUE
    /\ UNCHANGED <<started, unit>>

AllStarted ==
    /\ phase = "starting" /\ started = Len(Order)
    /\ phase' = "up"
    /\ UNCHANGED <<opened, started, unit, budget>>

Signal ==
    /\ phase = "up"
    /\ phase' = "stopping" /\ budget' = TRUE
    /\ UNCHANGED <<opened, started, unit>>

\* App.StartupTimeout, App.ShutdownTimeout.
OutOfTime ==
    /\ phase \in {"starting", "stopping"} /\ budget
    /\ budget' = FALSE
    /\ UNCHANGED <<phase, opened, started, unit>>

-----------------------------------------------------------------------------
\* The way down

Last == Order[started]

\* Worker.Cancel, Server.stop, http Shutdown: the unit is told, and waited for.
Cancel ==
    /\ phase = "stopping" /\ started > 0 /\ budget
    /\ unit[Last] \in {"running", "waiting"}
    /\ unit' = [unit EXCEPT ![Last] = "cancelled"]
    /\ UNCHANGED <<phase, opened, started, budget>>

\* Mutant: Stop cancels the worker and does not wait for it.
Joined_AtOnce(h) == unit[h] # "running" /\ unit[h] # "waiting"

\* Worker.Stop returns when the goroutine has closed `done`, or was never begun.
Joined(h) == unit[h] \in {"off", "ended"}

Stop ==
    /\ phase = "stopping" /\ started > 0 /\ budget
    /\ Joined(Last)
    /\ opened' = opened \ {Last}
    /\ started' = started - 1
    /\ UNCHANGED <<phase, unit, budget>>

\* Mutant: a worker that does not return is waited for whatever the budget.
GiveUp_Never == FALSE /\ UNCHANGED vars

\* The stop hook returns the context's error; the hooks before it do not run.
GiveUp ==
    /\ phase = "stopping" /\ ~budget
    /\ phase' = "exited" /\ unit' = [h \in Hook |-> "off"]
    /\ UNCHANGED <<opened, started, budget>>

Stopped ==
    /\ phase = "stopping" /\ started = 0
    /\ phase' = "exited"
    /\ UNCHANGED <<opened, started, unit, budget>>

-----------------------------------------------------------------------------
\* The units

\* A worker that was cancelled ends the step it is in, and returns.
Returns(h) ==
    /\ unit[h] = "cancelled"
    /\ unit' = [unit EXCEPT ![h] = "ended"]
    /\ UNCHANGED <<phase, opened, started, budget>>

\* runConsumer: a consumer that fails, panics or stops waits and subscribes again.
ConsumeEnds ==
    /\ unit["consumer"] = "running"
    /\ unit' = [unit EXCEPT !["consumer"] = "waiting"]
    /\ UNCHANGED <<phase, opened, started, budget>>

ConsumeAgain ==
    /\ unit["consumer"] = "waiting"
    /\ unit' = [unit EXCEPT !["consumer"] = "running"]
    /\ UNCHANGED <<phase, opened, started, budget>>

Down == Cancel \/ Stop \/ GiveUp \/ Stopped

Up == (\E r \in Resource : Construct(r)) \/ Built \/ OnStart \/ OnStartFails \/ AllStarted

Next == \/ Up \/ Down \/ Signal \/ OutOfTime \/ ConsumeEnds \/ ConsumeAgain
        \/ \E h \in Hook : Returns(h)

Spec == Init /\ [][Next]_vars

\* Every step down is a step of Fx or of a goroutine that runs, and the stop
\* budget is a timer; nothing forces a worker to look at its context.
Fairness == /\ WF_vars(Down) /\ WF_vars(Up) /\ WF_vars(OutOfTime)
            /\ WF_vars(ConsumeAgain)

LiveSpec == Spec /\ Fairness

-----------------------------------------------------------------------------
\* Properties

\* Nothing is closed under what uses it: while a worker, a consumer or a server
\* may still be in a step, the database, Redis and the bus it works with are
\* open, on the way up, on the way down after a failed start, and on a stop.
ClosedAfterUse == \A h \in Hook : unit[h] \in {"running", "waiting", "cancelled"} => Uses(h) \subseteq opened

\* A process that has begun to stop exits, even when a worker never returns; and
\* a consumer whose subscription broke subscribes again while the process is up.
ShutdownEnds == /\ phase = "stopping" ~> phase = "exited"
                /\ unit["consumer"] = "waiting" ~> unit["consumer"] # "waiting"
=============================================================================
