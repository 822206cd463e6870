---------------------------- MODULE Idempotency -----------------------------
(***************************************************************************)
(* One idempotency key and the requests that carry it: the middleware      *)
(* IdempotencyExecution (transport/http/middleware.go) over the manager of *)
(* idempotency/manager.go.  The record in Redis is the SDK's: it is written*)
(* only by the owner that Begin made, and it expires.                      *)
(*                                                                         *)
(* A call of Redis may fail before or after it took effect.  The lease of a*)
(* running handler may be lost, its context may end, and the handler may   *)
(* still commit its transaction: the database does not know of the key.    *)
(***************************************************************************)
EXTENDS Naturals, FiniteSets

CONSTANTS
    Request,       \* the requests that carry the key; each owns what it acquires
    Fingerprint,   \* method, route, principal and body, hashed
    Response       \* what handlers answer with: the status and the unified envelope

VARIABLES
    record,        \* the record of the key
    request,       \* the requests
    resultExpired  \* a stored result has outlived its TTL

vars == <<record, request, resultExpired>>

-----------------------------------------------------------------------------

\* A response has a status, a code and a message that may be blank.  This is what is
\* captured when the response is too large, or is not the envelope's JSON.
Overflow == [status |-> 200, code |-> "overflow", message |-> FALSE]

NoRecord == [state |-> "none"]

NewRequest == [stage |-> "new"]

Init == /\ record = NoRecord
        /\ request = [r \in Request |-> NewRequest]
        /\ resultExpired = FALSE

Stage(r, stage) == request[r].stage = stage

Successful(status) == status >= 200 /\ status < 300

Owns(r) == record.state = "processing" /\ record.owner = r

Released(r) == IF Owns(r) THEN NoRecord ELSE record

retryableHTTPStatus(status) == status \in {408, 425, 429} \/ status >= 500

\* Mutant: the code of the envelope does not matter.
validIdempotencyResponse_AnyCode(response) ==
    /\ response.message
    /\ \/ Successful(response.status) /\ response.status \notin {204, 205}
       \/ response.status >= 400 /\ response.status < 500

validIdempotencyResponse(response) ==
    /\ response.message
    /\ \/ /\ Successful(response.status) /\ response.status \notin {204, 205}
          /\ response.code = "ok"
       \/ /\ response.status >= 400 /\ response.status < 500
          /\ response.code # "ok"

validIdempotencyFailure(response) ==
    /\ response.status >= 400 /\ response.status < 500 /\ ~retryableHTTPStatus(response.status)
    /\ response.code # "ok" /\ response.message

\* A request that is answered at once, or again at the end, when only what it did matters.
Arrives(fp) == [stage |-> "done", fp |-> fp, ended |-> FALSE, lease |-> "none", committed |-> FALSE,
                response |-> Overflow, answer |-> "none"]

\* A request ends with what its client is told; nobody is told anything once the context ended.
Done(r, answer) ==
    request' = [request EXCEPT ![r] = [Arrives(@.fp) EXCEPT !.committed = request[r].committed,
                                         !.answer = IF request[r].ended THEN "none" ELSE answer]]

-----------------------------------------------------------------------------

\* The decision of the SDK: the key is new, or what its record says.
Begin(r, fp) ==
    /\ Stage(r, "new")
    /\ record' = IF record.state = "none" THEN [state |-> "processing", owner |-> r, fp |-> fp]
                 ELSE record
    /\ request' = [request EXCEPT ![r] =
         CASE record.state = "none" -> [Arrives(fp) EXCEPT !.stage = "acquired"]
           [] record.state # "none" /\ record.fp # fp -> [Arrives(fp) EXCEPT !.answer = "conflict"]
           [] record.state = "processing" /\ record.fp = fp ->
                [Arrives(fp) EXCEPT !.answer = "in_progress"]
           [] record.state = "completed" /\ record.fp = fp ->
                [Arrives(fp) EXCEPT !.answer = IF /\ Successful(record.response.status)
                                                  /\ validIdempotencyResponse(record.response)
                                               THEN "replayed" ELSE "unavailable"]
           [] record.state = "failed" /\ record.fp = fp ->
                [Arrives(fp) EXCEPT !.answer = IF validIdempotencyFailure(record.response)
                                               THEN "rejected" ELSE "unavailable"]]
    /\ UNCHANGED resultExpired

\* Begin fails, with or without the record having been made.
BeginFails(r, fp, applied) ==
    /\ Stage(r, "new")
    /\ record' = IF applied /\ record.state = "none"
                 THEN [state |-> "processing", owner |-> r, fp |-> fp] ELSE record
    /\ request' = [request EXCEPT ![r] = [Arrives(fp) EXCEPT !.answer = "unavailable"]]
    /\ UNCHANGED resultExpired

\* The client is gone, or the deadline of the request has passed.
ContextEnds(r) ==
    /\ request[r].stage \in {"acquired", "running", "returned"} /\ ~request[r].ended
    /\ request' = [request EXCEPT ![r].ended = TRUE]
    /\ UNCHANGED <<record, resultExpired>>

\* abortAcquiredIdempotency: the handler has not run; whether the record is gone is only logged.
abortAcquired(r, applied) ==
    /\ Stage(r, "acquired")
    /\ record' = IF applied THEN Released(r) ELSE record
    /\ Done(r, "unavailable")
    /\ UNCHANGED resultExpired

StartLease(r) ==
    /\ Stage(r, "acquired") /\ ~request[r].ended /\ Owns(r)
    /\ request' = [request EXCEPT ![r].stage = "running", ![r].lease = "held"]
    /\ UNCHANGED <<record, resultExpired>>

\* A renewal fails: the context of the handler is cancelled.
LeaseLost(r) ==
    /\ Stage(r, "running") /\ request[r].lease = "held"
    /\ request' = [request EXCEPT ![r].lease = "lost"]
    /\ UNCHANGED <<record, resultExpired>>

\* The handler's transaction commits; a cancelled context may come too late to prevent it.
Commit(r) ==
    /\ Stage(r, "running") /\ ~request[r].committed
    /\ request' = [request EXCEPT ![r].committed = TRUE]
    /\ UNCHANGED <<record, resultExpired>>

\* The handler answers: with success only when it has committed, with a refusal only when it has
\* not; an error may hide a commit, and a response may be too large.
Return(r, response) ==
    /\ Stage(r, "running")
    /\ Successful(response.status) => request[r].committed
    /\ validIdempotencyFailure(response) => ~request[r].committed
    /\ request' = [request EXCEPT ![r].stage = "returned", ![r].response = response]
    /\ UNCHANGED <<record, resultExpired>>

\* The handler panics: the lease is stopped and the record is left to expire.
Panics(r) ==
    /\ Stage(r, "running")
    /\ Done(r, "unavailable")
    /\ UNCHANGED <<record, resultExpired>>

\* stopLease fails: the record is not touched.
StopLeaseFails(r) ==
    /\ Stage(r, "returned")
    /\ Done(r, "unavailable")
    /\ UNCHANGED <<record, resultExpired>>

\* The call that follows a response; Complete, Fail and Abort are the owner's only.
Persisted(r) ==
    LET response == request[r].response
    IN  IF ~Owns(r) THEN record
        ELSE IF ~validIdempotencyResponse(response) \/ retryableHTTPStatus(response.status)
             THEN NoRecord
             ELSE [state |-> IF response.status >= 400 THEN "failed" ELSE "completed",
                   fp |-> request[r].fp, owner |-> r, response |-> response]

\* What the client is told when the call succeeded.
Answer(r) ==
    IF ~validIdempotencyResponse(request[r].response) THEN "unavailable"
    ELSE IF request[r].response.status >= 400 THEN "rejected" ELSE "ok"

\* Mutant: the error of the call is only logged.
PersistFails_Answers(r, applied) ==
    /\ Stage(r, "returned") /\ request[r].lease = "held"
    /\ record' = IF applied THEN Persisted(r) ELSE record
    /\ Done(r, Answer(r))
    /\ UNCHANGED resultExpired

\* The call fails (always when the record is no longer the request's), applied or not.
PersistFails(r, applied) ==
    /\ Stage(r, "returned") /\ request[r].lease = "held"
    /\ record' = IF applied THEN Persisted(r) ELSE record
    /\ Done(r, "unavailable")
    /\ UNCHANGED resultExpired

Persist(r) ==
    /\ Stage(r, "returned") /\ request[r].lease = "held" /\ Owns(r)
    /\ record' = Persisted(r)
    /\ Done(r, Answer(r))
    /\ UNCHANGED resultExpired

\* A TTL ends, of a record in processing (its owner died, or stalls) or of a result.
Expire ==
    /\ record.state # "none"
    /\ record' = NoRecord
    /\ resultExpired' = (resultExpired \/ record.state = "completed")
    /\ UNCHANGED request

Next == \/ \E r \in Request :
             \/ \E fp \in Fingerprint : \/ Begin(r, fp)
                                        \/ \E applied \in BOOLEAN : BeginFails(r, fp, applied)
             \/ ContextEnds(r) \/ StartLease(r) \/ LeaseLost(r) \/ Commit(r) \/ Panics(r)
             \/ \E response \in Response \cup {Overflow} : Return(r, response)
             \/ StopLeaseFails(r) \/ Persist(r)
             \/ \E applied \in BOOLEAN : abortAcquired(r, applied) \/ PersistFails(r, applied)
        \/ Expire

Spec == Init /\ [][Next]_vars

-----------------------------------------------------------------------------
(* Properties.                                                             *)

Told(answers) == {r \in Request : Stage(r, "done") /\ request[r].answer \in answers}

\* While a result has not expired, a request that was told of success keeps its record: retries
\* replay it and do not execute, another fingerprint is refused, and one execution only was told
\* that it succeeded.  Without the loss of the key a retry can execute again only because no
\* result was ever told.
SuccessIsKept ==
    ~resultExpired =>
       /\ \A r \in Told({"ok", "replayed"}) : record.state = "completed" /\ record.fp = request[r].fp
       /\ Cardinality(Told({"ok"})) <= 1

\* Who is told of success, by its own execution or by a replay, is told of a transaction of its
\* fingerprint that committed.
SuccessIsReal ==
    \A r \in Told({"ok", "replayed"}) :
       \E x \in Request : request[x].stage # "new" /\ request[x].fp = request[r].fp /\ request[x].committed

\* A stored result or failure is one that the checks of a replay accept.
StoredIsReplayable ==
    /\ record.state = "completed" => /\ Successful(record.response.status)
                                     /\ validIdempotencyResponse(record.response)
    /\ record.state = "failed" => validIdempotencyFailure(record.response)

\* All three.
AnswersAreKept == SuccessIsKept /\ SuccessIsReal /\ StoredIsReplayable
=============================================================================
