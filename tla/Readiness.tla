------------------------------ MODULE Readiness ------------------------------
(***************************************************************************)
(* Readiness (health/service.go) and the status the gRPC server publishes  *)
(* (transport/grpc/server.go).  Callers share one probe per dependency     *)
(* (singleflight): a probe outlives the caller that began it, has its own  *)
(* deadline, and answers everybody who joined it.  Each caller has timers  *)
(* of its own and its own context.                                         *)
(***************************************************************************)

CONSTANTS
    Dependency,     \* database, redis
    Caller,         \* readiness requests and the publisher
    Publisher       \* the one caller whose answer is published

VARIABLES
    alive,      \* is the dependency there?
    probe,      \* the shared probe of each dependency
    asking,     \* the callers
    serving,    \* the published status
    shutdown    \* the health server has been shut down

vars == <<alive, probe, asking, serving, shutdown>>

-----------------------------------------------------------------------------

\* A probe remembers whether the dependency has been there since it began.
NoProbe == [stage |-> "none", was |-> FALSE]

NoCaller == [pc |-> "idle"]

Init == /\ alive = [d \in Dependency |-> TRUE]
        /\ probe = [d \in Dependency |-> NoProbe]
        /\ asking = [c \in Caller |-> NoCaller]
        /\ serving = FALSE /\ shutdown = FALSE

\* The world: a dependency comes and goes.
Flip(d) ==
    /\ alive' = [alive EXCEPT ![d] = ~@]
    /\ probe' = [probe EXCEPT ![d].was = @ \/ (probe[d].stage # "none" /\ ~alive[d])]
    /\ UNCHANGED <<asking, serving, shutdown>>

\* Ready: DoChan joins the probe that runs, or begins one.
Ready(c) ==
    /\ asking[c].pc = "idle" /\ (c = Publisher => ~shutdown)
    /\ probe' = [d \in Dependency |->
                 IF probe[d].stage = "none" THEN [stage |-> "ping", was |-> alive[d]] ELSE probe[d]]
    /\ asking' = [asking EXCEPT ![c] = [pc |-> "waiting", found |-> [d \in Dependency |-> "pending"],
                                        ready |-> TRUE, earned |-> TRUE]]
    /\ UNCHANGED <<alive, serving, shutdown>>

\* checkDatabase and checkRedis: the ping is answered or not, or comes too late.
Ping(d) ==
    /\ probe[d].stage = "ping"
    /\ \/ alive[d] /\ probe' = [probe EXCEPT ![d].stage = "up"]
       \/ probe' = [probe EXCEPT ![d].stage = "down"]
    /\ UNCHANGED <<alive, asking, serving, shutdown>>

Waiting(c, d) == asking[c].pc = "waiting" /\ asking[c].found[d] = "pending"

\* A dependency's result reaches a caller.
Found(caller, d, status, was) ==
    [caller EXCEPT !.found[d] = status, !.ready = @ /\ status = "up", !.earned = @ /\ (status = "up" => was)]

\* The probe ends and its buffered channels are filled: nobody can hold it up.
Publish(d) ==
    /\ probe[d].stage \in {"up", "down"}
    /\ asking' = [c \in Caller |->
                  IF Waiting(c, d) THEN Found(asking[c], d, probe[d].stage, probe[d].was) ELSE asking[c]]
    /\ probe' = [probe EXCEPT ![d] = NoProbe]
    /\ UNCHANGED <<alive, serving, shutdown>>

\* Mutant: the timer settles the dependency and leaves the verdict.
Deadline_Status(caller, d) == [caller EXCEPT !.found[d] = "down"]

Deadline(caller, d) == Found(caller, d, "down", FALSE)

\* The caller's own timer: the dependency is down for this caller.
TimesOut(c, d) ==
    /\ Waiting(c, d)
    /\ asking' = [asking EXCEPT ![c] = Deadline(@, d)]
    /\ UNCHANGED <<alive, probe, serving, shutdown>>

\* The caller's context ends, before or after the last result.
ContextEnds(c) ==
    /\ asking[c].pc = "waiting"
    /\ asking' = [asking EXCEPT ![c] = [@ EXCEPT !.pc = "answered", !.ready = FALSE]]
    /\ UNCHANGED <<alive, probe, serving, shutdown>>

Settled(c) == asking[c].pc = "waiting" /\ \A d \in Dependency : asking[c].found[d] # "pending"

Answer(c) ==
    /\ Settled(c)
    /\ asking' = [asking EXCEPT ![c].pc = "answered"]
    /\ UNCHANGED <<alive, probe, serving, shutdown>>

\* Mutant: the publisher sets the status of a server that has been shut down.
SetServingStatus_Always(ready) == ready

\* The health server ignores a status once it is shut down.
SetServingStatus(ready) == IF shutdown THEN serving ELSE ready

\* refresh publishes what the publisher was told; another caller reads its answer.
Use(c) ==
    /\ asking[c].pc = "answered"
    /\ asking' = [asking EXCEPT ![c] = NoCaller]
    /\ serving' = IF c = Publisher THEN SetServingStatus(asking[c].ready) ELSE serving
    /\ UNCHANGED <<alive, probe, shutdown>>

\* Stop: the server is shut down first, and the worker joined after it.
Stop ==
    /\ ~shutdown
    /\ shutdown' = TRUE /\ serving' = FALSE
    /\ UNCHANGED <<alive, probe, asking>>

Next == \/ \E d \in Dependency : Flip(d) \/ Ping(d) \/ Publish(d)
        \/ \E c \in Caller : Ready(c) \/ ContextEnds(c) \/ Answer(c) \/ Use(c) \/ (\E d \in Dependency : TimesOut(c, d))
        \/ Stop

Spec == Init /\ [][Next]_vars

-----------------------------------------------------------------------------

\* A caller is told "ready" only when every dependency was found up, by a probe
\* during which it was there; a deadline, a cancelled caller or somebody else's
\* late probe never turns into readiness.  A server on its way down is never
\* announced again, although a refresh may be under way when it is stopped.
ReadinessIsEarned ==
    /\ \A c \in Caller : asking[c].pc = "answered" /\ asking[c].ready =>
         asking[c].earned /\ \A d \in Dependency : asking[c].found[d] = "up"
    /\ shutdown => ~serving
=============================================================================
