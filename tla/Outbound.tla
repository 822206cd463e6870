------------------------------ MODULE Outbound ------------------------------
(***************************************************************************)
(* The clients of other services: outbound/http.go, grpcclient/client.go   *)
(* and the registry that owns them.  A call has one deadline over all its  *)
(* attempts; it passes a circuit breaker, and is tried again only when the *)
(* upstream may see it twice.  An HTTP response has a body that somebody   *)
(* must close.  The breaker (gobreaker) is an external component, modelled *)
(* by how it is configured: it refuses while open, lets one trial through  *)
(* when its timeout has passed, and opens on FailureThreshold failures in  *)
(* a row.                                                                  *)
(***************************************************************************)
EXTENDS Naturals

CONSTANTS
    OutCall,            \* calls under way on one client
    MaxAttempts,        \* Retry.MaxAttempts
    FailureThreshold    \* Breaker.FailureThreshold

VARIABLES
    client,     \* the client of one upstream, once the registry has built it
    breaker,    \* its circuit breaker
    outcall     \* the calls

vars == <<client, breaker, outcall>>

-----------------------------------------------------------------------------
\* Construction

\* What a configuration says that the constructors tell apart.
Upstream == [protocol : {"http", "grpc"}, secure : BOOLEAN, tls : BOOLEAN, plaintext : BOOLEAN,
             auth : BOOLEAN, retries : BOOLEAN, breaks : BOOLEAN]

\* NewHTTPClient: `secure` is the scheme of the base URL.
NewHTTPClient(u) ==
    /\ u.tls => u.secure /\ ~u.plaintext
    /\ u.auth /\ ~u.secure => u.plaintext

\* Mutant: a preshared key is sent without looking at the transport.
Dial_AnyTransport(u) == u.secure = u.tls /\ (u.tls => ~u.plaintext)

\* Dial: the transport is secure when TLS is enabled, whatever the target.
Dial(u) ==
    /\ u.secure = u.tls
    /\ u.tls => ~u.plaintext
    /\ u.auth /\ ~u.tls => u.plaintext

NoClient == [built |-> FALSE]

NoCall == [pc |-> "idle"]

Closed == [state |-> "closed", failures |-> 0, trial |-> FALSE]

Init == client = NoClient /\ breaker = Closed /\ outcall = [c \in OutCall |-> NoCall]

\* NewRegistry: a configuration one constructor refuses builds nothing.
NewRegistry(u) ==
    /\ ~client.built
    /\ IF u.protocol = "http" THEN NewHTTPClient(u) ELSE Dial(u)
    /\ client' = [built |-> TRUE, open |-> TRUE, protocol |-> u.protocol, retries |-> u.retries, breaks |-> u.breaks,
                  exposed |-> u.auth /\ ~u.secure /\ ~u.plaintext]
    /\ UNCHANGED <<breaker, outcall>>

\* Shutdown closes the pools; calls under way then fail in the transport.
close ==
    /\ client.built /\ client.open
    /\ client' = [client EXCEPT !.open = FALSE]
    /\ UNCHANGED <<breaker, outcall>>

-----------------------------------------------------------------------------
\* The breaker

Admits == ~client.breaks \/ (breaker.state # "open" /\ ~breaker.trial)

\* A request is admitted; in the half-open state it is the only one.
Admitted == IF client.breaks /\ breaker.state = "half" THEN [breaker EXCEPT !.trial = TRUE] ELSE breaker

Opened == [state |-> "open", failures |-> 0, trial |-> FALSE]

\* The outcome of a call is counted, unless the breaker has changed since.
\* Whether an excluded outcome gives the trial back is the library's affair.
Counted(c, verdict) ==
    IF ~client.breaks \/ ~outcall[c].counts THEN {breaker}
    ELSE CASE verdict = "success" -> {Closed}
           [] verdict = "failure" ->
                {IF breaker.state = "half" \/ breaker.failures + 1 >= FailureThreshold THEN Opened
                 ELSE [breaker EXCEPT !.failures = @ + 1]}
           [] OTHER -> {breaker, [breaker EXCEPT !.trial = FALSE]}

\* The calls a breaker no longer counts once its state has changed.
Outdated(calls) ==
    [c \in OutCall |-> IF "counts" \in DOMAIN calls[c] THEN [calls[c] EXCEPT !.counts = FALSE] ELSE calls[c]]

OpenTimeout ==
    /\ breaker.state = "open"
    /\ breaker' = [breaker EXCEPT !.state = "half"]
    /\ outcall' = Outdated(outcall)
    /\ UNCHANGED client

\* HTTP excludes a cancelled call only, gRPC everything but three codes
\* (a call without an error is excluded too).
Verdict(outcome) ==
    IF client.protocol = "http"
    THEN CASE outcome = "canceled" -> "excluded" [] outcome \in {"ok", "rejected"} -> "success" [] OTHER -> "failure"
    ELSE IF outcome \in {"transient", "unreachable", "deadline"} THEN "failure" ELSE "excluded"

-----------------------------------------------------------------------------
\* A call

\* Mutant: every method is tried again.
retryable_Any(again) == TRUE

\* retryableMethod and retryGRPCMethod: a safe method, or a call that carries a key.
retryable(again) == again

Attempts(c) == IF client.retries /\ retryable(outcall[c].again) THEN MaxAttempts ELSE 1

\* Do, and the first interceptors: the deadline begins, the breaker is asked.
Do(c, again) ==
    /\ client.built /\ outcall[c].pc \in {"idle", "refused", "returned"}
    /\ \/ /\ Admits
          /\ breaker' = Admitted
          /\ outcall' = [outcall EXCEPT ![c] = [pc |-> "attempt", again |-> again, attempt |-> 1, sends |-> 0,
                                                bodies |-> 0, ended |-> FALSE, counts |-> TRUE,
                                                outcome |-> "none"]]
       \/ /\ ~Admits
          /\ outcall' = [outcall EXCEPT ![c] = [pc |-> "refused"]]
          /\ UNCHANGED breaker
    /\ UNCHANGED client

\* The caller gives up, or the deadline passes.
ContextEnds(c) ==
    /\ outcall[c].pc \in {"attempt", "backoff", "answered"} /\ ~outcall[c].ended
    /\ outcall' = [outcall EXCEPT ![c].ended = TRUE]
    /\ UNCHANGED <<client, breaker>>

\* What the transport may say of an attempt; one that is late says it all the same.
Outcome(c) == {"ok", "transient", "unreachable", "rejected"} \cup
              (IF outcall[c].ended THEN {"canceled", "deadline"} ELSE {})

\* Only an HTTP answer has a body.
BodyCount(outcome) == IF client.protocol = "http" /\ outcome \in {"ok", "transient", "rejected"} THEN 1 ELSE 0

Retried(outcome) == outcome \in {"transient", "unreachable"} \/ (client.protocol = "http" /\ BodyCount(outcome) = 0)

\* doWithRetry and retryInterceptor: one attempt.  An attempt that will be
\* repeated discards its response before the wait.
DoOnce(c) ==
    /\ outcall[c].pc = "attempt"
    /\ \E outcome \in Outcome(c) :
         IF Retried(outcome) /\ outcall[c].attempt < Attempts(c)
         THEN outcall' = [outcall EXCEPT ![c].pc = "backoff", ![c].sends = @ + 1]
         ELSE outcall' = [outcall EXCEPT ![c].pc = "answered", ![c].sends = @ + 1,
                                         ![c].bodies = @ + BodyCount(outcome), ![c].outcome = outcome]
    /\ UNCHANGED <<client, breaker>>

\* A path that is not relative, or a request that cannot be built, is the
\* caller's mistake; nothing is sent.
InvalidRequest(c) ==
    /\ outcall[c].pc = "attempt" /\ client.protocol = "http" /\ outcall[c].attempt = 1
    /\ outcall' = [outcall EXCEPT ![c].pc = "answered", ![c].outcome = "invalid"]
    /\ UNCHANGED <<client, breaker>>

\* waitBackoff and waitRetry: the context ends the wait.
Backoff(c) ==
    /\ outcall[c].pc = "backoff"
    /\ \/ /\ outcall[c].ended
          /\ \E outcome \in {"canceled", "deadline"} :
               outcall' = [outcall EXCEPT ![c].pc = "answered", ![c].outcome = outcome]
       \/ outcall' = [outcall EXCEPT ![c].pc = "attempt", ![c].attempt = @ + 1]
    /\ UNCHANGED <<client, breaker>>

\* Mutant: a response that arrived after the deadline stays open.
Released_Late(c) == outcall[c].bodies

\* Do closes the body of a response it does not return.
Released(c) == IF outcall[c].ended THEN 0 ELSE outcall[c].bodies

\* execute, breakerInterceptor and the end of Do: the logical call is counted
\* once.  A gRPC call whose context ended is counted by that, whatever the
\* invoker said; HTTP counts what the attempts said.
Return(c) ==
    /\ outcall[c].pc = "answered"
    /\ LET late == outcall[c].ended /\ client.protocol = "grpc" IN
       \E outcome \in IF late THEN {"canceled", "deadline"} ELSE {outcall[c].outcome} :
         breaker' \in Counted(c, Verdict(outcome))
    /\ LET done == [outcall EXCEPT ![c] = [pc |-> "returned", again |-> @.again, sends |-> @.sends,
                                           bodies |-> Released(c),
                                           handed |-> ~@.ended /\ BodyCount(@.outcome) = 1]] IN
       outcall' = IF breaker'.state = breaker.state THEN done ELSE Outdated(done)
    /\ UNCHANGED client

\* The caller reads the body to its end or closes it.
CloseBody(c) ==
    /\ outcall[c].pc = "returned" /\ outcall[c].handed
    /\ outcall' = [outcall EXCEPT ![c].bodies = @ - 1, ![c].handed = FALSE]
    /\ UNCHANGED <<client, breaker>>

Next == \/ \E u \in Upstream : NewRegistry(u)
        \/ close \/ OpenTimeout
        \/ \E c \in OutCall :
             \/ \E again \in BOOLEAN : Do(c, again)
             \/ ContextEnds(c) \/ DoOnce(c) \/ InvalidRequest(c) \/ Backoff(c) \/ Return(c) \/ CloseBody(c)

Spec == Init /\ [][Next]_vars

-----------------------------------------------------------------------------
\* Properties

\* An upstream sees a call twice only when the call may be repeated, and never
\* more than MaxAttempts times; nothing is sent that the breaker refused.
NoUnsafeResend ==
    \A c \in OutCall : outcall[c].pc \notin {"idle", "refused"} =>
      /\ outcall[c].sends > 1 => outcall[c].again /\ client.retries
      /\ outcall[c].sends <= MaxAttempts

\* Every response body is closed by the client or is in its caller's hands: a
\* retried, refused or late response leaks no connection.
NoLeakedBody ==
    \A c \in OutCall : outcall[c].pc = "returned" => outcall[c].bodies = (IF outcall[c].handed THEN 1 ELSE 0)

\* A credential crosses an unprotected transport only where the configuration opted in.
CredentialsAreProtected == client.built => ~client.exposed

OutboundIsSound == NoUnsafeResend /\ NoLeakedBody /\ CredentialsAreProtected
=============================================================================
