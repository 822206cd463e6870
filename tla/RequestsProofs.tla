--------------------------- MODULE RequestsProofs ---------------------------
(***************************************************************************)
(* A request on its way through the program: RequestsAreAnswered           *)
(* (idempotency keys and the transaction of a mutation) and CallsAreSound  *)
(* (outbound calls, readiness and the gate), for any number of requests,   *)
(* calls and callers.                                                      *)
(*                                                                         *)
(* What the properties say of an answer is not inductive: each invariant   *)
(* says, for every stage of a request, what the store, the transaction or  *)
(* the breaker holds on its behalf, and that nobody else can change it     *)
(* meanwhile.                                                              *)
(***************************************************************************)
EXTENDS Services, FiniteSetTheorems, TLAPS

-----------------------------------------------------------------------------
(* Idempotency keys.                                                       *)

\* A response as the handlers give it, or as it is captured when it is too large.
Answers == {"none", "ok", "conflict", "in_progress", "replayed", "rejected", "unavailable"}

\* A response as the handlers give it, or as it is captured when it is too large.
Responses == Response \cup {Keys!Overflow}

\* A request that has arrived.
Arrived == [stage : {"acquired", "running", "returned", "done"}, fp : Fingerprint, ended : BOOLEAN,
            lease : {"none", "held", "lost"}, committed : BOOLEAN, response : Responses, answer : Answers]

\* A record whose owner is at work.
Processing == [state : {"processing"}, owner : Request, fp : Fingerprint]

\* A record of a result.
Stored == [state : {"completed", "failed"}, fp : Fingerprint, owner : Request, response : Responses]

\* The types.
KeysTypeOK ==
    /\ record \in {Keys!NoRecord} \cup Processing \cup Stored
    /\ request \in [Request -> {Keys!NewRequest} \cup Arrived]
    /\ resultExpired \in BOOLEAN

\* The first half of SuccessIsKept.
ToldIsStored ==
    ~resultExpired => \A r \in Keys!Told({"ok", "replayed"}) : record \in Stored
    /\ record.state = "completed" /\ record.fp = request[r].fp

\* The second half, without the cardinality.
ToldOnce == ~resultExpired => \A r, s \in Keys!Told({"ok"}) : r = s

\* A transaction of the fingerprint has committed.
HasCommitted(fp) == \E x \in Request : request[x] \in Arrived /\ request[x].fp = fp /\ request[x].committed

\* A stored success is of a transaction that committed.
StoredIsReal == record \in Stored /\ record.state = "completed" => HasCommitted(record.fp)

\* So is a success that a handler has answered with and nobody has stored.
ReturnIsReal ==
    \A r \in Request : Keys!Stage(r, "returned") /\ Keys!Successful(request[r].response.status)
    => request[r].committed

\* SuccessIsReal.
ToldIsReal == \A r \in Keys!Told({"ok", "replayed"}) : HasCommitted(request[r].fp)

\* The inductive invariant.  AnswersAreKept is not inductive: a replay repeats a stored success, so
\* that what is stored must be real before anybody is told of it.
KeysInv == /\ KeysTypeOK /\ ToldIsStored /\ ToldOnce /\ StoredIsReal /\ ReturnIsReal /\ ToldIsReal
           /\ Keys!StoredIsReplayable

\* No record and no requests.
LEMMA KeysBegin == Keys!Init => KeysInv
  <1> SUFFICES ASSUME Keys!Init
               PROVE  KeysInv
    OBVIOUS
  <1>1. \A r \in Request : request[r].stage = "new"
    BY DEF Keys!Init, Keys!NewRequest
  <1>2. \A answers : Keys!Told(answers) = {}
    BY <1>1 DEF Keys!Told, Keys!Stage
  <1>3. record.state = "none"
    BY DEF Keys!Init, Keys!NoRecord
  <1>4. KeysTypeOK
    BY DEF Keys!Init, KeysTypeOK
  <1> QED
    BY <1>1, <1>2, <1>3, <1>4 DEF KeysInv, ToldIsStored, ToldOnce, StoredIsReal, ReturnIsReal,
       ToldIsReal, Stored,
       Keys!StoredIsReplayable, Keys!Stage

\* A response has a status.
LEMMA StatusTyped ==
  ASSUME NEW response \in Responses
  PROVE  response.status \in Nat
  BY ResponseAssumption DEF Responses, Keys!Overflow

\* The kinds of records and of requests.
LEMMA Distinct == /\ Keys!NoRecord \notin Stored /\ \A p \in Processing : p \notin Stored
                  /\ Keys!NewRequest \notin Arrived
  BY DEF Stored, Processing, Arrived, Keys!NoRecord, Keys!NewRequest

\* A step of one request: what it stores is real, and a stored result is not replaced.
LEMMA RequestStep ==
  ASSUME KeysInv, NEW r \in Request, NEW row \in Arrived,
         request' = [request EXCEPT ![r] = row], resultExpired' = resultExpired,
         request[r] \in Arrived => row.fp = request[r].fp /\ (request[r].committed => row.committed),
         row.stage = "returned" /\ Keys!Successful(row.response.status) => row.committed,
         record' \in {Keys!NoRecord} \cup Processing \cup Stored,
         record' = record \/ record \notin Stored,
         record' # record /\ record' \in Stored =>
            /\ record'.state = "completed" => /\ row.fp = record'.fp /\ row.committed
                                              /\ Keys!Successful(record'.response.status)
                                              /\ Keys!validIdempotencyResponse(record'.response)
            /\ record'.state = "failed" => Keys!validIdempotencyFailure(record'.response),
         row.stage = "done" /\ row.answer \in {"ok", "replayed"} =>
            record' \in Stored /\ record'.state = "completed" /\ record'.fp = row.fp,
         row.stage = "done" /\ row.answer = "ok" => record \notin Stored
  PROVE  KeysInv'
  <1>1. KeysTypeOK'
    BY DEF KeysInv, KeysTypeOK
  <1>2. ASSUME NEW q \in Request, q # r
        PROVE  request'[q] = request[q]
    BY <1>2 DEF KeysInv, KeysTypeOK
  <1>3. request'[r] = row
    BY DEF KeysInv, KeysTypeOK
  <1>4. ASSUME NEW fp, HasCommitted(fp)
        PROVE  \E x \in Request : request'[x] \in Arrived /\ request'[x].fp = fp /\ request'[x].committed
    BY <1>2, <1>3, <1>4 DEF HasCommitted
  <1>5. ASSUME NEW answers, NEW q \in Keys!Told(answers)', q # r
        PROVE  q \in Keys!Told(answers)
    BY <1>2, <1>5 DEF Keys!Told, Keys!Stage
  <1>6. ~resultExpired /\ record \notin Stored => \A q \in Keys!Told({"ok", "replayed"}) : FALSE
    BY DEF KeysInv, ToldIsStored
  <1>7. ToldIsStored'
    <2> SUFFICES ASSUME ~resultExpired, NEW q \in Keys!Told({"ok", "replayed"})'
                 PROVE  record' \in Stored /\ record'.state = "completed" /\ record'.fp = request'[q].fp
      BY DEF ToldIsStored
    <2>1. CASE q = r
      BY <1>3, <2>1 DEF Keys!Told, Keys!Stage
    <2>2. CASE q # r
      BY <1>2, <1>5, <1>6, <2>2 DEF KeysInv, ToldIsStored, Keys!Told
    <2> QED
      BY <2>1, <2>2
  <1>8. ToldOnce'
    <2> SUFFICES ASSUME ~resultExpired, NEW p \in Keys!Told({"ok"})', NEW q \in Keys!Told({"ok"})'
                 PROVE  p = q
      BY DEF ToldOnce
    <2>1. \A x \in Keys!Told({"ok"}) : x \in Keys!Told({"ok", "replayed"})
      BY DEF Keys!Told
    <2>2. CASE r \in Keys!Told({"ok"})'
      <3>1. record \notin Stored
        BY <1>3, <2>2 DEF Keys!Told, Keys!Stage
      <3> QED
        BY <1>5, <1>6, <2>1, <3>1
    <2>3. CASE r \notin Keys!Told({"ok"})'
      BY <1>5, <2>3 DEF KeysInv, ToldOnce
    <2> QED
      BY <2>2, <2>3
  <1>9. StoredIsReal'
    <2> SUFFICES ASSUME record' \in Stored, record'.state = "completed"
                 PROVE  \E x \in Request : /\ request'[x] \in Arrived /\ request'[x].fp = record'.fp
                                          /\ request'[x].committed
      BY DEF StoredIsReal, HasCommitted
    <2>1. CASE record' = record
      BY <1>4, <2>1 DEF KeysInv, StoredIsReal
    <2>2. CASE record' # record
      BY <1>3, <2>2
    <2> QED
      BY <2>1, <2>2
  <1>10. ReturnIsReal'
    BY <1>2, <1>3 DEF KeysInv, ReturnIsReal, Keys!Stage
  <1>11. ToldIsReal'
    <2> SUFFICES ASSUME NEW q \in Keys!Told({"ok", "replayed"})'
                 PROVE  \E x \in Request : /\ request'[x] \in Arrived /\ request'[x].fp = request'[q].fp
                                          /\ request'[x].committed
      BY DEF ToldIsReal, HasCommitted
    <2>1. CASE q = r
      BY <1>3, <1>9, <2>1 DEF StoredIsReal, HasCommitted, Keys!Told, Keys!Stage
    <2>2. CASE q # r
      BY <1>2, <1>4, <1>5, <2>2 DEF KeysInv, ToldIsReal, Keys!Told
    <2> QED
      BY <2>1, <2>2
  <1>12. Keys!StoredIsReplayable'
    <2>1. CASE record' = record
      BY <2>1 DEF KeysInv, Keys!StoredIsReplayable
    <2>2. CASE record' # record
      BY <2>2 DEF Keys!StoredIsReplayable, Processing, Keys!NoRecord
    <2> QED
      BY <2>1, <2>2
  <1> QED
    BY <1>1, <1>7, <1>8, <1>9, <1>10, <1>11, <1>12 DEF KeysInv

\* A step of one request that stores no result, and tells nobody of success.
LEMMA QuietStep ==
  ASSUME KeysInv, NEW r \in Request, NEW row \in Arrived,
         request' = [request EXCEPT ![r] = row], resultExpired' = resultExpired,
         request[r] \in Arrived => row.fp = request[r].fp /\ (request[r].committed => row.committed),
         row.stage = "returned" /\ Keys!Successful(row.response.status) => row.committed,
         record' \in {record, Keys!NoRecord} \cup Processing,
         record' = record \/ record \notin Stored,
         row.stage = "done" => row.answer \notin {"ok", "replayed"}
  PROVE  KeysInv'
  <1>1. record' \in {Keys!NoRecord} \cup Processing \cup Stored
    BY DEF KeysInv, KeysTypeOK
  <1>2. record' # record => record' \notin Stored
    BY Distinct
  <1> QED
    BY <1>1, <1>2, RequestStep

\* A request that has arrived, and what it becomes in a step that changes some of its fields.
LEMMA ArrivedStep ==
  ASSUME KeysInv, NEW r \in Request, request[r].stage # "new"
  PROVE  /\ request[r] \in Arrived
         /\ [request[r] EXCEPT !.ended = TRUE] \in Arrived
         /\ [request[r] EXCEPT !.lease = "lost"] \in Arrived
         /\ [request[r] EXCEPT !.stage = "running", !.lease = "held"] \in Arrived
         /\ [request[r] EXCEPT !.committed = TRUE] \in Arrived
         /\ \A response \in Responses : [request[r] EXCEPT !.stage = "returned",
            !.response = response] \in Arrived
  <1>1. request[r] \in Arrived
    BY DEF KeysInv, KeysTypeOK, Keys!NewRequest
  <1> QED
    BY <1>1 DEF Arrived

\* The client is gone; what the request does next it does all the same.
LEMMA RequestEndsKeeps ==
  ASSUME KeysInv, NEW r \in Request, Keys!ContextEnds(r)
  PROVE  KeysInv'
  <1> DEFINE row == [request[r] EXCEPT !.ended = TRUE]
  <1>1. request[r].stage \in {"acquired", "running", "returned"}
    BY DEF Keys!ContextEnds
  <1>2. request[r] \in Arrived /\ row \in Arrived
    BY <1>1, ArrivedStep
  <1>3. /\ row.stage = request[r].stage /\ row.fp = request[r].fp /\ row.committed = request[r].committed
        /\ row.response = request[r].response
    BY <1>2 DEF Arrived
  <1>4. request' = [request EXCEPT ![r] = row] /\ record' = record /\ resultExpired' = resultExpired
    BY DEF Keys!ContextEnds
  <1>5. row.stage = "returned" /\ Keys!Successful(row.response.status) => row.committed
    BY <1>3 DEF KeysInv, ReturnIsReal, Keys!Stage
  <1> HIDE DEF row
  <1> QED
    BY <1>1, <1>2, <1>3, <1>4, <1>5, QuietStep

\* The handler begins.
LEMMA StartLeaseKeeps ==
  ASSUME KeysInv, NEW r \in Request, Keys!StartLease(r)
  PROVE  KeysInv'
  <1> DEFINE row == [request[r] EXCEPT !.stage = "running", !.lease = "held"]
  <1>1. request[r].stage = "acquired"
    BY DEF Keys!StartLease, Keys!Stage
  <1>2. request[r] \in Arrived /\ row \in Arrived
    BY <1>1, ArrivedStep
  <1>3. row.stage = "running" /\ row.fp = request[r].fp /\ row.committed = request[r].committed
    BY <1>2 DEF Arrived
  <1>4. request' = [request EXCEPT ![r] = row] /\ record' = record /\ resultExpired' = resultExpired
    BY DEF Keys!StartLease
  <1> HIDE DEF row
  <1> QED
    BY <1>2, <1>3, <1>4, QuietStep

\* A renewal fails.
LEMMA LeaseLostKeeps ==
  ASSUME KeysInv, NEW r \in Request, Keys!LeaseLost(r)
  PROVE  KeysInv'
  <1> DEFINE row == [request[r] EXCEPT !.lease = "lost"]
  <1>1. request[r].stage = "running"
    BY DEF Keys!LeaseLost, Keys!Stage
  <1>2. request[r] \in Arrived /\ row \in Arrived
    BY <1>1, ArrivedStep
  <1>3. row.stage = "running" /\ row.fp = request[r].fp /\ row.committed = request[r].committed
    BY <1>1, <1>2 DEF Arrived
  <1>4. request' = [request EXCEPT ![r] = row] /\ record' = record /\ resultExpired' = resultExpired
    BY DEF Keys!LeaseLost
  <1> HIDE DEF row
  <1> QED
    BY <1>2, <1>3, <1>4, QuietStep

\* The transaction commits, with or without the lease.
LEMMA KeysCommitKeeps ==
  ASSUME KeysInv, NEW r \in Request, Keys!Commit(r)
  PROVE  KeysInv'
  <1> DEFINE row == [request[r] EXCEPT !.committed = TRUE]
  <1>1. request[r].stage = "running"
    BY DEF Keys!Commit, Keys!Stage
  <1>2. request[r] \in Arrived /\ row \in Arrived
    BY <1>1, ArrivedStep
  <1>3. row.stage = "running" /\ row.fp = request[r].fp /\ row.committed
    BY <1>1, <1>2 DEF Arrived
  <1>4. request' = [request EXCEPT ![r] = row] /\ record' = record /\ resultExpired' = resultExpired
    BY DEF Keys!Commit
  <1> HIDE DEF row
  <1> QED
    BY <1>2, <1>3, <1>4, QuietStep

\* The handler answers with success only after its commit.
LEMMA RequestReturnKeeps ==
  ASSUME KeysInv, NEW r \in Request, NEW response \in Responses, Keys!Return(r, response)
  PROVE  KeysInv'
  <1> DEFINE row == [request[r] EXCEPT !.stage = "returned", !.response = response]
  <1>1. request[r].stage = "running" /\ (Keys!Successful(response.status) => request[r].committed)
    BY DEF Keys!Return, Keys!Stage
  <1>2. request[r] \in Arrived /\ row \in Arrived
    BY <1>1, ArrivedStep
  <1>3. /\ row.stage = "returned" /\ row.fp = request[r].fp /\ row.committed = request[r].committed
        /\ row.response = response
    BY <1>2 DEF Arrived
  <1>4. request' = [request EXCEPT ![r] = row] /\ record' = record /\ resultExpired' = resultExpired
    BY DEF Keys!Return
  <1> HIDE DEF row
  <1> QED
    BY <1>1, <1>2, <1>3, <1>4, QuietStep

\* The end of a request: what it did stays, and its client is told the answer or nothing.
Ended(r, answer) ==
    [stage |-> "done", fp |-> request[r].fp, ended |-> FALSE, lease |-> "none",
    committed |-> request[r].committed,
     response |-> Keys!Overflow, answer |-> answer]

\* Done ends a request so.
LEMMA DoneIsEnded ==
  ASSUME KeysInv, NEW r \in Request, request[r].stage # "new", NEW answer \in Answers, Keys!Done(r, answer)
  PROVE  \E told \in {"none", answer} :
           /\ Ended(r, told) \in Arrived /\ Ended(r, told).stage = "done" /\ Ended(r, told).fp = request[r].fp
           /\ Ended(r, told).committed = request[r].committed /\ Ended(r, told).answer = told
           /\ request' = [request EXCEPT ![r] = Ended(r, told)]
  <1>1. request[r] \in Arrived
    BY ArrivedStep
  <1>2. PICK told : told = IF request[r].ended THEN "none" ELSE answer
    OBVIOUS
  <1>3. request' = [request EXCEPT ![r] = Ended(r, told)]
    <2>1. PICK row : row = [Keys!Arrives(request[r].fp) EXCEPT !.committed = request[r].committed,
               !.answer = told]
      OBVIOUS
    <2>2. row = Ended(r, told)
      BY <2>1 DEF Keys!Arrives, Ended
    <2> QED
      BY <1>2, <2>1, <2>2 DEF Keys!Done
  <1>4. told \in {"none", answer} /\ told \in Answers
    BY <1>2 DEF Answers
  <1>5. Ended(r, told) \in Arrived
    BY <1>1, <1>4 DEF Ended, Arrived, Responses
  <1> QED
    BY <1>3, <1>4, <1>5 DEF Ended

\* A request ends without success.
LEMMA EndsQuietly ==
  ASSUME KeysInv, NEW r \in Request, request[r].stage # "new", Keys!Done(r, "unavailable"),
         resultExpired' = resultExpired,
         record' \in {record, Keys!NoRecord} \cup Processing,
         record' = record \/ record \notin Stored
  PROVE  KeysInv'
  <1>1. PICK told \in {"none", "unavailable"} :
           /\ Ended(r, told) \in Arrived /\ Ended(r, told).stage = "done" /\ Ended(r, told).fp = request[r].fp
           /\ Ended(r, told).committed = request[r].committed /\ Ended(r, told).answer = told
           /\ request' = [request EXCEPT ![r] = Ended(r, told)]
    BY DoneIsEnded DEF Answers
  <1> QED
    BY <1>1, QuietStep

\* The handler does not run.
LEMMA AbortAcquiredKeeps ==
  ASSUME KeysInv, NEW r \in Request, NEW applied \in BOOLEAN, Keys!abortAcquired(r, applied)
  PROVE  KeysInv'
  <1>1. request[r].stage # "new" /\ Keys!Done(r, "unavailable") /\ resultExpired' = resultExpired
    BY DEF Keys!abortAcquired, Keys!Stage
  <1>2. record' = record \/ (Keys!Owns(r) /\ record' = Keys!NoRecord)
    BY DEF Keys!abortAcquired, Keys!Released
  <1>3. Keys!Owns(r) => record \notin Stored
    BY DEF Keys!Owns, Stored
  <1> QED
    BY <1>1, <1>2, <1>3, EndsQuietly

\* The record is left to expire.
LEMMA PanicsKeeps ==
  ASSUME KeysInv, NEW r \in Request, Keys!Panics(r) \/ Keys!StopLeaseFails(r)
  PROVE  KeysInv'
  <1>1. /\ request[r].stage # "new" /\ Keys!Done(r, "unavailable") /\ resultExpired' = resultExpired
        /\ record' = record
    BY DEF Keys!Panics, Keys!StopLeaseFails, Keys!Stage
  <1> QED
    BY <1>1, EndsQuietly

\* What Persist stores passes the checks of a replay.
LEMMA ValidResponse ==
  ASSUME NEW response \in Responses, Keys!validIdempotencyResponse(response)
  PROVE  /\ response.status < 400 => Keys!Successful(response.status)
            /\ ~Keys!retryableHTTPStatus(response.status)
         /\ response.status >= 400 /\ ~Keys!retryableHTTPStatus(response.status)
            => Keys!validIdempotencyFailure(response)
  BY StatusTyped DEF Keys!validIdempotencyResponse, Keys!Successful, Keys!retryableHTTPStatus,
     Keys!validIdempotencyFailure

\* What the call after a response leaves: nothing new, no record, or a stored result that is real.
LEMMA PersistedIsReal ==
  ASSUME KeysInv, NEW r \in Request, request[r].stage = "returned"
  PROVE  \/ Keys!Persisted(r) = record /\ ~Keys!Owns(r)
         \/ Keys!Persisted(r) = Keys!NoRecord /\ Keys!Owns(r) /\ Keys!Answer(r) # "ok"
         \/ /\ Keys!Persisted(r) \in Stored /\ Keys!Owns(r)
            /\ Keys!Persisted(r).fp = request[r].fp
            /\ Keys!Persisted(r).state = "completed" =>
                 /\ request[r].committed
                 /\ Keys!Successful(Keys!Persisted(r).response.status)
                 /\ Keys!validIdempotencyResponse(Keys!Persisted(r).response)
            /\ Keys!Persisted(r).state = "failed" =>
                 Keys!validIdempotencyFailure(Keys!Persisted(r).response) /\ Keys!Answer(r) # "ok"
  <1> DEFINE response == request[r].response
  <1>1. request[r] \in Arrived
    BY ArrivedStep
  <1>2. response \in Responses /\ response.status \in Nat
    BY <1>1, StatusTyped DEF Arrived
  <1>3. CASE ~Keys!Owns(r)
    BY <1>3 DEF Keys!Persisted
  <1>4. CASE Keys!Owns(r) /\ (~Keys!validIdempotencyResponse(response)
             \/ Keys!retryableHTTPStatus(response.status))
    <2>1. Keys!Persisted(r) = Keys!NoRecord
      BY <1>4 DEF Keys!Persisted
    <2>2. Keys!validIdempotencyResponse(response) => response.status >= 400
      BY <1>2, <1>4, ValidResponse
    <2>3. Keys!Answer(r) # "ok"
      BY <2>2 DEF Keys!Answer
    <2> QED
      BY <1>4, <2>1, <2>3
  <1>5. CASE Keys!Owns(r) /\ Keys!validIdempotencyResponse(response)
             /\ ~Keys!retryableHTTPStatus(response.status)
    <2>1. PICK state : state = IF response.status >= 400 THEN "failed" ELSE "completed"
      OBVIOUS
    <2>2. Keys!Persisted(r) = [state |-> state, fp |-> request[r].fp, owner |-> r, response |-> response]
      BY <1>5, <2>1 DEF Keys!Persisted
    <2>3. [state |-> state, fp |-> request[r].fp, owner |-> r, response |-> response] \in Stored
      BY <1>1, <1>2, <2>1 DEF Stored, Arrived
    <2>4. state = "completed" => Keys!Successful(response.status) /\ request[r].committed
      BY <1>2, <1>5, <2>1, ValidResponse DEF KeysInv, ReturnIsReal, Keys!Stage
    <2>5. state = "failed" => Keys!validIdempotencyFailure(response) /\ Keys!Answer(r) # "ok"
      BY <1>2, <1>5, <2>1, ValidResponse DEF Keys!Answer
    <2> QED
      BY <1>5, <2>2, <2>3, <2>4, <2>5
  <1> QED
    BY <1>3, <1>4, <1>5

\* The end of a request after the call: its client hears of success only of what is stored.
LEMMA PersistsKeeps ==
  ASSUME KeysInv, NEW r \in Request, request[r].stage = "returned", NEW answer \in Answers,
         Keys!Done(r, answer),
         resultExpired' = resultExpired, record' \in {record, Keys!Persisted(r)},
         answer # "replayed",
         answer = "ok" => Keys!Owns(r) /\ record' = Keys!Persisted(r) /\ Keys!Answer(r) = "ok"
  PROVE  KeysInv'
  <1>1. PICK told \in {"none", answer} :
           /\ Ended(r, told) \in Arrived /\ Ended(r, told).stage = "done" /\ Ended(r, told).fp = request[r].fp
           /\ Ended(r, told).committed = request[r].committed /\ Ended(r, told).answer = told
           /\ request' = [request EXCEPT ![r] = Ended(r, told)]
    BY DoneIsEnded
  <1>2. Keys!Owns(r) => record \notin Stored
    BY DEF Keys!Owns, Stored
  <1>3. CASE record' = record /\ answer # "ok"
    BY <1>1, <1>3, QuietStep
  <1>4. CASE record' = Keys!NoRecord /\ Keys!Owns(r) /\ answer # "ok"
    BY <1>1, <1>2, <1>4, QuietStep
  <1>5. CASE /\ record' \in Stored /\ Keys!Owns(r) /\ record'.fp = request[r].fp
             /\ record'.state = "completed" => /\ request[r].committed
                                               /\ Keys!Successful(record'.response.status)
                                               /\ Keys!validIdempotencyResponse(record'.response)
             /\ record'.state = "failed" => Keys!validIdempotencyFailure(record'.response) /\ answer # "ok"
    <2>1. record'.state \in {"completed", "failed"}
      BY <1>5 DEF Stored
    <2> QED
      BY <1>1, <1>2, <1>5, <2>1, RequestStep
  <1> QED
    BY <1>3, <1>4, <1>5, PersistedIsReal

\* The call takes effect and its answer arrives.
LEMMA PersistKeeps ==
  ASSUME KeysInv, NEW r \in Request, Keys!Persist(r)
  PROVE  KeysInv'
  <1>1. /\ request[r].stage = "returned" /\ Keys!Done(r, Keys!Answer(r)) /\ resultExpired' = resultExpired
        /\ record' = Keys!Persisted(r) /\ Keys!Owns(r)
    BY DEF Keys!Persist, Keys!Stage
  <1>2. Keys!Answer(r) \in Answers /\ Keys!Answer(r) # "replayed"
    BY DEF Keys!Answer, Answers
  <1> QED
    BY <1>1, <1>2, PersistsKeeps

\* The call fails, and may have taken effect: the client is told neither.
LEMMA PersistFailsKeeps ==
  ASSUME KeysInv, NEW r \in Request, NEW applied \in BOOLEAN, Keys!PersistFails(r, applied)
  PROVE  KeysInv'
  <1>1. /\ request[r].stage = "returned" /\ Keys!Done(r, "unavailable") /\ resultExpired' = resultExpired
        /\ record' \in {record, Keys!Persisted(r)}
    BY DEF Keys!PersistFails, Keys!Stage
  <1>2. "unavailable" \in Answers
    BY DEF Answers
  <1> QED
    BY <1>1, <1>2, PersistsKeeps

\* A request that is answered as soon as it arrives, or is the first of its key.
Arrival(fp, stage, answer) ==
    [stage |-> stage, fp |-> fp, ended |-> FALSE, lease |-> "none", committed |-> FALSE,
     response |-> Keys!Overflow, answer |-> answer]

\* Such a request.
LEMMA ArrivalTyped ==
  ASSUME NEW fp \in Fingerprint, NEW stage \in {"acquired", "done"}, NEW answer \in Answers
  PROVE  /\ Arrival(fp, stage, answer) \in Arrived /\ Arrival(fp, stage, answer).stage = stage
         /\ Arrival(fp, stage, answer).fp = fp /\ Arrival(fp, stage, answer).answer = answer
  BY DEF Arrival, Arrived, Responses

\* Begin fails, with or without a record.
LEMMA BeginFailsKeeps ==
  ASSUME KeysInv, NEW r \in Request, NEW fp \in Fingerprint, NEW applied \in BOOLEAN,
         Keys!BeginFails(r, fp, applied)
  PROVE  KeysInv'
  <1>1. request[r] \notin Arrived
    BY DEF Keys!BeginFails, Keys!Stage, Arrived
  <1>2. request' = [request EXCEPT ![r] = Arrival(fp, "done", "unavailable")]
    <2>1. PICK row : row = [Keys!Arrives(fp) EXCEPT !.answer = "unavailable"]
      OBVIOUS
    <2>2. row = Arrival(fp, "done", "unavailable")
      BY <2>1 DEF Keys!Arrives, Arrival
    <2> QED
      BY <2>1, <2>2 DEF Keys!BeginFails
  <1>3. \/ record' = record
        \/ record' = [state |-> "processing", owner |-> r, fp |-> fp] /\ record.state = "none"
    BY DEF Keys!BeginFails
  <1>4. [state |-> "processing", owner |-> r, fp |-> fp] \in Processing
    BY DEF Processing
  <1>5. record.state = "none" => record \notin Stored
    BY DEF Stored
  <1>6. resultExpired' = resultExpired
    BY DEF Keys!BeginFails
  <1>7. /\ Arrival(fp, "done", "unavailable") \in Arrived
        /\ Arrival(fp, "done", "unavailable").answer = "unavailable"
        /\ Arrival(fp, "done", "unavailable").stage = "done"
    BY ArrivalTyped DEF Answers
  <1>8. record' \in {record, Keys!NoRecord} \cup Processing /\ (record' = record \/ record \notin Stored)
    BY <1>3, <1>4, <1>5
  <1> QED
    BY <1>1, <1>2, <1>6, <1>7, <1>8, QuietStep

\* A key is acquired, in use, of another request, or replayed.
LEMMA BeginKeeps ==
  ASSUME KeysInv, NEW r \in Request, NEW fp \in Fingerprint, Keys!Begin(r, fp)
  PROVE  KeysInv'
  <1>1. request[r] \notin Arrived /\ resultExpired' = resultExpired
    BY DEF Keys!Begin, Keys!Stage, Arrived
  <1>2. record.state \in {"none", "processing", "completed", "failed"}
    BY DEF KeysInv, KeysTypeOK, Processing, Stored, Keys!NoRecord
  <1>3. CASE record.state = "none"
    <2>1. request' = [request EXCEPT ![r] = Arrival(fp, "acquired", "none")]
      BY <1>3 DEF Keys!Begin, Keys!Arrives, Arrival
    <2>2. record' \in Processing /\ record \notin Stored
      BY <1>3 DEF Keys!Begin, Processing, Stored
    <2>3. "none" \in Answers
      BY DEF Answers
    <2> QED
      BY <1>1, <2>1, <2>2, <2>3, ArrivalTyped, QuietStep
  <1>4. CASE record.state # "none"
    <2>1. record' = record
      BY <1>4 DEF Keys!Begin
    <2>2. PICK answer \in {"conflict", "in_progress", "replayed", "rejected", "unavailable"} :
             /\ request' = [request EXCEPT ![r] = Arrival(fp, "done", answer)]
             /\ answer = "replayed" => record.state = "completed" /\ record.fp = fp
      <3>1. CASE record.fp # fp
        <4>1. request' = [request EXCEPT ![r] = Arrival(fp, "done", "conflict")]
          BY <1>2, <1>4, <3>1 DEF Keys!Begin, Keys!Arrives, Arrival
        <4> QED
          BY <4>1
      <3>2. CASE record.state = "processing" /\ record.fp = fp
        <4>1. request' = [request EXCEPT ![r] = Arrival(fp, "done", "in_progress")]
          BY <3>2 DEF Keys!Begin, Keys!Arrives, Arrival
        <4> QED
          BY <4>1
      <3>3. CASE record.state = "completed" /\ record.fp = fp
        <4>1. \E answer \in {"replayed", "unavailable"} : request' = [request EXCEPT ![r] = Arrival(fp,
              "done", answer)]
          BY <3>3 DEF Keys!Begin, Keys!Arrives, Arrival
        <4> QED
          BY <3>3, <4>1
      <3>4. CASE record.state = "failed" /\ record.fp = fp
        <4>1. \E answer \in {"rejected", "unavailable"} : request' = [request EXCEPT ![r] = Arrival(fp,
              "done", answer)]
          BY <3>4 DEF Keys!Begin, Keys!Arrives, Arrival
        <4> QED
          BY <4>1
      <3> QED
        BY <1>2, <1>4, <3>1, <3>2, <3>3, <3>4
    <2>3. answer \in Answers
      BY DEF Answers
    <2>4. record \in Processing \cup Stored
      BY <1>4 DEF KeysInv, KeysTypeOK, Keys!NoRecord
    <2>5. record.state = "completed" => record \in Stored
      BY <2>4 DEF Processing
    <2>6. /\ Arrival(fp, "done", answer) \in Arrived /\ Arrival(fp, "done", answer).stage = "done"
          /\ Arrival(fp, "done", answer).fp = fp /\ Arrival(fp, "done", answer).answer = answer
      BY <2>3, ArrivalTyped
    <2> QED
      BY <1>1, <2>1, <2>2, <2>4, <2>5, <2>6, RequestStep
  <1> QED
    BY <1>3, <1>4

\* A record expires; from then on nothing is promised of the key.
LEMMA ExpireKeeps ==
  ASSUME KeysInv, Keys!Expire
  PROVE  KeysInv'
  <1>1. record' = Keys!NoRecord /\ request' = request /\ resultExpired' \in BOOLEAN
        /\ (resultExpired' <=> resultExpired \/ record.state = "completed")
    BY DEF Keys!Expire, KeysInv, KeysTypeOK
  <1>2. record'.state = "none" /\ record' \notin Stored
    BY <1>1 DEF Keys!NoRecord, Stored
  <1>3. \A answers : Keys!Told(answers)' = Keys!Told(answers)
    BY <1>1 DEF Keys!Told, Keys!Stage
  <1>4. KeysTypeOK'
    BY <1>1 DEF KeysInv, KeysTypeOK
  <1>5. ToldIsStored'
    BY <1>1, <1>3 DEF KeysInv, ToldIsStored
  <1>6. ToldOnce'
    BY <1>1, <1>3 DEF KeysInv, ToldOnce
  <1>7. StoredIsReal'
    BY <1>2 DEF StoredIsReal
  <1>8. ReturnIsReal'
    BY <1>1 DEF KeysInv, ReturnIsReal, Keys!Stage
  <1>9. ToldIsReal'
    BY <1>1, <1>3 DEF KeysInv, ToldIsReal, HasCommitted
  <1>10. Keys!StoredIsReplayable'
    BY <1>2 DEF Keys!StoredIsReplayable
  <1> QED
    BY <1>4, <1>5, <1>6, <1>7, <1>8, <1>9, <1>10 DEF KeysInv

\* For any requests, fingerprints and responses.
LEMMA KeysInvariant == Keys!Spec => []KeysInv
  <1>1. ASSUME KeysInv, [Keys!Next]_(Keys!vars)
        PROVE  KeysInv'
    <2>1. CASE UNCHANGED Keys!vars
      BY <1>1, <2>1 DEF KeysInv, KeysTypeOK, ToldIsStored, ToldOnce, HasCommitted, StoredIsReal,
         ReturnIsReal, ToldIsReal,
         Keys!StoredIsReplayable, Keys!Told, Keys!Stage, Keys!vars
    <2>2. CASE Keys!Next
      BY <1>1, <2>2, BeginKeeps, BeginFailsKeeps, RequestEndsKeeps, AbortAcquiredKeeps, StartLeaseKeeps,
         LeaseLostKeeps,
         KeysCommitKeeps, RequestReturnKeeps, PanicsKeeps, PersistKeeps, PersistFailsKeeps,
         ExpireKeeps DEF Keys!Next, Responses
    <2> QED
      BY <1>1, <2>1, <2>2
  <1> QED
    BY KeysBegin, <1>1, PTL DEF Keys!Spec

\* Cardinality is the same operator in both modules.
LEMMA KeysCardinality == \A S : Keys!Cardinality(S) = Cardinality(S)
  BY Zenon DEF Keys!Cardinality, Cardinality

\* AnswersAreKept follows.
LEMMA AnswersKept == KeysInv => Keys!AnswersAreKept
  <1> SUFFICES ASSUME KeysInv
               PROVE  Keys!AnswersAreKept
    OBVIOUS
  <1>1. ASSUME ~resultExpired
        PROVE  Cardinality(Keys!Told({"ok"})) <= 1
    <2>1. CASE Keys!Told({"ok"}) = {}
      BY <2>1, FS_EmptySet
    <2>2. CASE Keys!Told({"ok"}) # {}
      <3>1. PICK r \in Keys!Told({"ok"}) : TRUE
        BY <2>2
      <3>2. Keys!Told({"ok"}) = {r}
        BY <1>1, <3>1 DEF KeysInv, ToldOnce
      <3> QED
        BY <3>2, FS_Singleton
    <2> QED
      BY <2>1, <2>2
  <1>2. Keys!SuccessIsKept
    BY <1>1, KeysCardinality DEF KeysInv, ToldIsStored, Keys!SuccessIsKept
  <1>3. Keys!SuccessIsReal
    BY DEF KeysInv, ToldIsReal, HasCommitted, Arrived, Keys!SuccessIsReal
  <1> QED
    BY <1>2, <1>3 DEF KeysInv, Keys!AnswersAreKept

-----------------------------------------------------------------------------
(* Mutations.                                                              *)

\* The errors that handlers know.
KnownErrors == {"invalid", "not found", "stale", "conflict", "forbidden", "in use", "aborted",
"no identity", "no audit"}

\* The errors of a service.
Errors == KnownErrors \cup {"", "down", "lease", "outbox", "condition"}

\* The statuses of refusals.
Failures == {400, 403, 404, 409, 500, 503}

\* Those that call for a retry.
Unavailable == {500, 503}

\* The errors that leave it open whether the change was made.
Doubts == {"down", "no audit"}

\* The stages of a try.
Stages == {"reading", "bound", "lease", "working", "commit", "release", "record", "done", "failed",
"answered"}

\* A try.
Running == [pc : Stages,
            handler : Handlers!Handlers, op : UNION {h.changes \cup h.reads : h \in Handlers!Handlers},
            tries : Nat,
            over : {"", "deadline", "cancelled"}, cause : {"", "refused", "transient"}, error : Errors,
            lease : BOOLEAN,
            took : BOOLEAN, doubt : BOOLEAN, failures : SUBSET {"operation", "security"},
            recordFails : BOOLEAN,
            status : Nat]

\* The types.
MutationTypeOK ==
    /\ mutation \in {Handlers!NoMutation} \cup Running
    /\ effects \in Nat

\* The operation changes something.
Changes == mutation \in Running /\ mutation.op \in mutation.handler.changes

\* What the state of a try says of its change.
TryKnown(try, commits) ==
    /\ try.pc \in {"reading", "bound", "lease", "working", "commit"} => ~try.took
    /\ try.pc = "reading" => try.op \notin try.handler.changes
    /\ try.pc \in {"release", "done"} /\ try.op \in try.handler.changes => try.took
    /\ try.pc \in {"record", "failed"} /\ try.took => try.doubt /\ try.error \in Doubts
    /\ try.took => commits > 0

\* So it does for the try that runs.
TryIsKnown == mutation \in Running => TryKnown(mutation, effects)

\* A result that is kept is of a change that was made.
ResultIsReal == kept = "result" /\ Changes => effects > 0

\* The handler has the operation.
OpIsOffered == mutation \in Running => mutation.op \in mutation.handler.changes \cup mutation.handler.reads

\* Nothing is kept before the first try.
FirstIsNew == mutation \notin Running => kept = ""

\* The inductive invariant.  ChangesAreAnswered is not inductive: whether an answer is right
\* depends on what the stages before it have done.
MutationInv == MutationTypeOK /\ OpIsOffered /\ TryIsKnown /\ ResultIsReal /\ FirstIsNew
/\ Handlers!ChangesAreAnswered

\* Every handler of the table.
LEMMA HandlersAreKnown ==
  ASSUME NEW h \in Handlers!Handlers
  PROVE  h.known \subseteq KnownErrors /\ h.service.refuses \subseteq Errors
  <1>1. Handlers!UserHandler.known \subseteq KnownErrors
        /\ Handlers!UserHandler.service.refuses \subseteq Errors
    BY DEF Handlers!UserHandler, Handlers!HandlerWith, Handlers!Usual, Handlers!users, Handlers!Secured,
       Handlers!Plain, KnownErrors, Errors
  <1>2. Handlers!TenantHandler.known \subseteq KnownErrors
        /\ Handlers!TenantHandler.service.refuses \subseteq Errors
    BY DEF Handlers!TenantHandler, Handlers!HandlerWith, Handlers!Usual, Handlers!tenants, Handlers!Secured,
       Handlers!Plain, KnownErrors, Errors
  <1>3. Handlers!TenantMemberHandler.known \subseteq KnownErrors
        /\ Handlers!TenantMemberHandler.service.refuses \subseteq Errors
    BY DEF Handlers!TenantMemberHandler, Handlers!HandlerWith, Handlers!Usual, Handlers!members,
       Handlers!Secured, Handlers!Plain, KnownErrors, Errors
  <1>4. Handlers!DepartmentHandler.known \subseteq KnownErrors
        /\ Handlers!DepartmentHandler.service.refuses \subseteq Errors
    BY DEF Handlers!DepartmentHandler, Handlers!HandlerWith, Handlers!Usual, Handlers!departments,
       Handlers!Secured, Handlers!Plain, KnownErrors, Errors
  <1>5. Handlers!PlatformConfigHandler.known \subseteq KnownErrors
        /\ Handlers!PlatformConfigHandler.service.refuses \subseteq Errors
    BY DEF Handlers!PlatformConfigHandler, Handlers!HandlerWith, Handlers!Usual, Handlers!configs,
       Handlers!Secured, Handlers!Plain, KnownErrors, Errors
  <1>6. Handlers!NavigationHandler.known \subseteq KnownErrors
        /\ Handlers!NavigationHandler.service.refuses \subseteq Errors
    BY DEF Handlers!NavigationHandler, Handlers!HandlerWith, Handlers!Usual, Handlers!navigations,
       Handlers!Secured, Handlers!Plain, KnownErrors, Errors
  <1>7. Handlers!ServiceAccountHandler.known \subseteq KnownErrors
        /\ Handlers!ServiceAccountHandler.service.refuses \subseteq Errors
    BY DEF Handlers!ServiceAccountHandler, Handlers!HandlerWith, Handlers!Usual, Handlers!accounts,
       Handlers!Secured, Handlers!Plain, KnownErrors, Errors
  <1>8. Handlers!ScheduledJobHandler.known \subseteq KnownErrors
        /\ Handlers!ScheduledJobHandler.service.refuses \subseteq Errors
    BY DEF Handlers!ScheduledJobHandler, Handlers!HandlerWith, Handlers!Usual, Handlers!jobs,
       Handlers!Secured, Handlers!Plain, KnownErrors, Errors
  <1>9. Handlers!PermissionHandler.known \subseteq KnownErrors
        /\ Handlers!PermissionHandler.service.refuses \subseteq Errors
    BY DEF Handlers!PermissionHandler, Handlers!HandlerWith, Handlers!Usual, Handlers!permissions,
       Handlers!Secured, Handlers!Plain, KnownErrors, Errors
  <1>10. Handlers!ResourceCatalogHandler.known \subseteq KnownErrors
         /\ Handlers!ResourceCatalogHandler.service.refuses \subseteq Errors
    BY DEF Handlers!ResourceCatalogHandler, Handlers!HandlerWith, Handlers!Usual, Handlers!catalog,
       Handlers!Secured, Handlers!Plain, KnownErrors, Errors
  <1>11. Handlers!PlatformGrantHandler.known \subseteq KnownErrors
         /\ Handlers!PlatformGrantHandler.service.refuses \subseteq Errors
    BY DEF Handlers!PlatformGrantHandler, Handlers!HandlerWith, Handlers!Usual, Handlers!platformGrants,
       Handlers!Secured, Handlers!Plain, KnownErrors, Errors
  <1>12. Handlers!ApplicationHandler.known \subseteq KnownErrors
         /\ Handlers!ApplicationHandler.service.refuses \subseteq Errors
    BY DEF Handlers!ApplicationHandler, Handlers!HandlerWith, Handlers!Usual, Handlers!applications,
       Handlers!Secured, Handlers!Plain, KnownErrors, Errors
  <1>13. Handlers!TenantApplicationHandler.known \subseteq KnownErrors
         /\ Handlers!TenantApplicationHandler.service.refuses \subseteq Errors
    BY DEF Handlers!TenantApplicationHandler, Handlers!HandlerWith, Handlers!Usual,
       Handlers!applicationGrants, Handlers!Secured, Handlers!Plain, KnownErrors, Errors
  <1>14. Handlers!TenantAuthorizationHandler.known \subseteq KnownErrors
         /\ Handlers!TenantAuthorizationHandler.service.refuses \subseteq Errors
    BY DEF Handlers!TenantAuthorizationHandler, Handlers!HandlerWith, Handlers!Usual, Handlers!roles,
       Handlers!Secured, Handlers!Plain, KnownErrors, Errors
  <1>15. Handlers!DictionaryHandler.known \subseteq KnownErrors
         /\ Handlers!DictionaryHandler.service.refuses \subseteq Errors
    BY DEF Handlers!DictionaryHandler, Handlers!HandlerWith, Handlers!Usual, Handlers!dictionaries,
       Handlers!Secured, Handlers!Plain, KnownErrors, Errors
  <1>16. Handlers!DataPermissionHandler.known \subseteq KnownErrors
         /\ Handlers!DataPermissionHandler.service.refuses \subseteq Errors
    BY DEF Handlers!DataPermissionHandler, Handlers!HandlerWith, Handlers!Usual, Handlers!policies,
       Handlers!Secured, Handlers!Plain, KnownErrors, Errors
  <1> QED
    BY <1>1, <1>2, <1>3, <1>4, <1>5, <1>6, <1>7, <1>8, <1>9, <1>10, <1>11, <1>12, <1>13, <1>14, <1>15,
       <1>16 DEF Handlers!Handlers

\* No request and no effect.
LEMMA MutationBegin == Handlers!Init => MutationInv
  <1> SUFFICES ASSUME Handlers!Init PROVE MutationInv
    OBVIOUS
  <1>1. mutation = Handlers!NoMutation /\ effects = 0 /\ kept = ""
    BY DEF Handlers!Init
  <1>2. mutation.pc = "idle"
    BY <1>1 DEF Handlers!NoMutation
  <1>3. mutation \notin Running
    BY <1>2 DEF Running, Stages
  <1> QED
    BY <1>1, <1>2, <1>3 DEF MutationInv, MutationTypeOK, OpIsOffered, TryIsKnown, ResultIsReal,
       FirstIsNew, Changes, Handlers!ChangesAreAnswered

\* A try that is not idle runs.
LEMMA Started ==
  ASSUME MutationTypeOK, mutation.pc # "idle"
  PROVE  mutation \in Running
  BY DEF MutationTypeOK, Handlers!NoMutation

\* A try that is not answered yet.
LEMMA MutationStep ==
  ASSUME NEW m \in Running, mutation' = m, effects' \in Nat, TryKnown(m, effects'), m.pc # "answered",
         m.op \in m.handler.changes \cup m.handler.reads,
         kept' = "result" /\ m.op \in m.handler.changes => effects' > 0
  PROVE  MutationInv'
  <1>1. MutationTypeOK'
    BY DEF MutationTypeOK
  <1>2. TryIsKnown'
    BY DEF TryIsKnown, TryKnown
  <1>3. ResultIsReal'
    BY DEF ResultIsReal, Changes
  <1>4. FirstIsNew'
    BY DEF FirstIsNew
  <1>5. Handlers!ChangesAreAnswered'
    BY DEF Handlers!ChangesAreAnswered
  <1>6. OpIsOffered'
    BY DEF OpIsOffered
  <1> QED
    BY <1>1, <1>2, <1>3, <1>4, <1>5, <1>6 DEF MutationInv

\* A try goes one stage on.
LEMMA TryGoes ==
  ASSUME MutationInv, mutation \in Running, NEW p \in Stages \ {"answered", "reading"}, Handlers!Goes(p),
         p \in {"bound", "lease", "working", "commit"} => ~mutation.took,
         p \in {"release", "done"} /\ mutation.op \in mutation.handler.changes => mutation.took,
         p \notin {"record", "failed"}
  PROVE  MutationInv'
  <1>1. PICK m : m = [mutation EXCEPT !.pc = p]
    OBVIOUS
  <1>2. mutation' = m /\ effects' = effects /\ kept' = kept
    BY <1>1 DEF Handlers!Goes
  <1>3. m \in Running /\ m.pc = p /\ m.op = mutation.op /\ m.handler = mutation.handler
        /\ m.took = mutation.took
    BY <1>1 DEF Running
  <1>4. TryKnown(m, effects')
    BY <1>2, <1>3 DEF MutationInv, TryIsKnown, TryKnown
  <1> QED
    BY <1>2, <1>3, <1>4, MutationStep DEF MutationInv, MutationTypeOK, OpIsOffered, ResultIsReal, Changes

\* A try fails before its change.
LEMMA TryFails ==
  ASSUME MutationInv, mutation \in Running, ~mutation.took, NEW p \in {"failed", "record"},
         NEW cause \in {"refused", "transient"}, NEW error \in Errors, Handlers!Fails(p, cause, error)
  PROVE  MutationInv'
  <1>1. PICK m : m = [mutation EXCEPT !.pc = p, !.cause = cause, !.error = error]
    OBVIOUS
  <1>2. mutation' = m /\ effects' = effects /\ kept' = kept
    BY <1>1 DEF Handlers!Fails
  <1>3. m \in Running /\ m.pc = p /\ m.op = mutation.op /\ m.handler = mutation.handler
        /\ m.took = mutation.took
    BY <1>1 DEF Running, Stages
  <1>4. TryKnown(m, effects')
    BY <1>2, <1>3 DEF MutationInv, TryIsKnown, TryKnown
  <1> QED
    BY <1>2, <1>3, <1>4, MutationStep DEF MutationInv, MutationTypeOK, OpIsOffered, ResultIsReal, Changes

\* What a service refuses with.
LEMMA RefusalsAreErrors ==
  ASSUME mutation \in Running
  PROVE  Handlers!Service.refuses \subseteq Errors
  BY HandlersAreKnown DEF Handlers!Service, Running

\* A new try.
LEMMA TryBegins ==
  ASSUME NEW h \in Handlers!Handlers, NEW op \in h.changes \cup h.reads, NEW tries \in Nat
  PROVE  /\ Handlers!Begins(h, op, tries) \in Running
         /\ Handlers!Begins(h, op, tries).pc = IF op \in h.changes THEN "bound" ELSE "reading"
         /\ Handlers!Begins(h, op, tries).handler = h
         /\ Handlers!Begins(h, op, tries).op = op
         /\ ~Handlers!Begins(h, op, tries).took
  BY DEF Handlers!Begins, Running, Stages, Errors

\* A request is bound, or refused as invalid.
LEMMA BindKeeps ==
  ASSUME MutationInv, NEW h \in Handlers!Handlers, NEW op \in h.changes \cup h.reads, NEW valid \in BOOLEAN,
         Handlers!Bind(h, op, valid)
  PROVE  MutationInv'
  <1>1. PICK b : b = Handlers!Begins(h, op, 1)
    OBVIOUS
  <1>2. b \in Running /\ b.pc = (IF op \in h.changes THEN "bound" ELSE "reading") /\ b.handler = h
        /\ b.op = op /\ ~b.took
    BY <1>1, TryBegins
  <1>3. PICK m : m = IF valid THEN b ELSE [b EXCEPT !.pc = "failed", !.cause = "refused", !.error = "invalid"]
    OBVIOUS
  <1>4. mutation' = m /\ effects' = effects /\ kept' = kept /\ mutation.pc = "idle"
    BY <1>1, <1>3 DEF Handlers!Bind
  <1>5. m \in Running /\ m.op = op /\ m.handler = h /\ ~m.took /\ m.pc # "answered"
        /\ (m.pc = "reading" => op \notin h.changes) /\ m.pc \notin {"release", "done"}
    BY <1>2, <1>3 DEF Running, Stages, Errors, KnownErrors
  <1>6. kept = "" /\ effects \in Nat
    BY <1>4 DEF MutationInv, FirstIsNew, MutationTypeOK, Running, Stages
  <1>7. TryKnown(m, effects')
    BY <1>5 DEF TryKnown
  <1> QED
    BY <1>4, <1>5, <1>6, <1>7, MutationStep

\* A read changes nothing.
LEMMA ReadKeeps ==
  ASSUME MutationInv, Handlers!Read
  PROVE  MutationInv'
  <1>1. mutation \in Running
    BY Started DEF Handlers!Read, MutationInv
  <1>2. mutation.op \notin mutation.handler.changes /\ ~mutation.took
    BY <1>1 DEF MutationInv, TryIsKnown, TryKnown, Handlers!Read
  <1>3. CASE Handlers!Goes("done")
    BY <1>1, <1>2, <1>3, TryGoes DEF Stages
  <1>4. CASE \E p \in {"failed"}, cause \in {"refused", "transient"},
             error \in Errors : Handlers!Fails(p, cause, error)
    BY <1>1, <1>2, <1>4, TryFails
  <1> QED
    BY <1>1, <1>3, <1>4, RefusalsAreErrors DEF Handlers!Read, Errors

\* What the handler checks before the service.
LEMMA CheckKeeps ==
  ASSUME MutationInv, Handlers!Check
  PROVE  MutationInv'
  <1>1. mutation \in Running
    BY Started DEF Handlers!Check, MutationInv
  <1>2. ~mutation.took
    BY <1>1 DEF MutationInv, TryIsKnown, TryKnown, Handlers!Check
  <1>3. CASE Handlers!Goes(IF Handlers!Service.lease THEN "lease" ELSE "working")
    BY <1>1, <1>2, <1>3, TryGoes DEF Stages
  <1>4. CASE \E p \in {"failed"}, cause \in {"refused", "transient"},
             error \in Errors : Handlers!Fails(p, cause, error)
    BY <1>1, <1>2, <1>4, TryFails
  <1> QED
    BY <1>1, <1>3, <1>4, RefusalsAreErrors DEF Handlers!Check, Errors

\* A lease is taken, or is not to be had.
LEMMA LeaseKeeps ==
  ASSUME MutationInv, Handlers!Lease
  PROVE  MutationInv'
  <1>1. mutation \in Running
    BY Started DEF Handlers!Lease, MutationInv
  <1>2. ~mutation.took
    BY <1>1 DEF MutationInv, TryIsKnown, TryKnown, Handlers!Lease
  <1>3. CASE Handlers!Fails("failed", "transient", "lease")
    BY <1>1, <1>2, <1>3, TryFails DEF Errors
  <1>4. CASE mutation' = [mutation EXCEPT !.pc = "working", !.lease = TRUE] /\ UNCHANGED <<effects, kept>>
    <2>1. PICK m : m = [mutation EXCEPT !.pc = "working", !.lease = TRUE]
      OBVIOUS
    <2>2. m \in Running /\ m.pc = "working" /\ m.op = mutation.op /\ m.handler = mutation.handler /\ ~m.took
      BY <1>1, <1>2, <2>1 DEF Running, Stages
    <2>3. TryKnown(m, effects')
      BY <2>2 DEF TryKnown
    <2> QED
      BY <1>1, <1>4, <2>1, <2>2, <2>3, MutationStep
         DEF MutationInv, MutationTypeOK, OpIsOffered, ResultIsReal, Changes
  <1> QED
    BY <1>3, <1>4 DEF Handlers!Lease

\* The transaction reads, refuses, or reaches its commit.
LEMMA TransactKeeps ==
  ASSUME MutationInv, Handlers!Transact
  PROVE  MutationInv'
  <1>1. mutation \in Running
    BY Started DEF Handlers!Transact, MutationInv
  <1>2. ~mutation.took
    BY <1>1 DEF MutationInv, TryIsKnown, TryKnown, Handlers!Transact
  <1>3. CASE Handlers!Goes("commit")
    BY <1>1, <1>2, <1>3, TryGoes DEF Stages
  <1>4. CASE \E p \in {"failed", "record"}, cause \in {"refused", "transient"},
             error \in Errors : Handlers!Fails(p, cause, error)
    BY <1>1, <1>2, <1>4, TryFails
  <1>5. "conflict" \in Errors /\ "aborted" \in Errors /\ "down" \in Errors /\ "outbox" \in Errors
    BY DEF Errors, KnownErrors
  <1>6. (IF Handlers!Service.uniqueRecorded THEN "record" ELSE "failed") \in {"failed", "record"}
    OBVIOUS
  <1> QED
    BY <1>1, <1>3, <1>4, <1>5, <1>6, RefusalsAreErrors DEF Handlers!Transact

\* The commit takes effect or not, and its answer arrives or not.
LEMMA MutationCommitKeeps ==
  ASSUME MutationInv, Handlers!Commit
  PROVE  MutationInv'
  <1>1. mutation \in Running
    BY Started DEF Handlers!Commit, MutationInv
  <1>2. ~mutation.took
    BY <1>1 DEF MutationInv, TryIsKnown, TryKnown, Handlers!Commit
  <1>3. effects \in Nat /\ kept' = kept
    BY DEF MutationInv, MutationTypeOK, Handlers!Commit
  <1>4. CASE /\ mutation' = [mutation EXCEPT !.pc = IF mutation.lease THEN "release" ELSE "done",
                !.took = TRUE]
             /\ effects' = effects + 1
    <2>1. PICK p \in {"release", "done"} : p = IF mutation.lease THEN "release" ELSE "done"
      OBVIOUS
    <2>2. PICK m : m = [mutation EXCEPT !.pc = p, !.took = TRUE]
      OBVIOUS
    <2>3. m \in Running /\ m.pc = p /\ m.took /\ m.op = mutation.op /\ m.handler = mutation.handler
      BY <1>1, <2>2 DEF Running, Stages
    <2>4. effects' \in Nat /\ effects' > 0
      BY <1>3, <1>4
    <2>5. TryKnown(m, effects')
      BY <2>3, <2>4 DEF TryKnown
    <2> QED
      BY <1>1, <1>4, <2>1, <2>2, <2>3, <2>4, <2>5, MutationStep DEF MutationInv, OpIsOffered
  <1>5. CASE /\ mutation' = [mutation EXCEPT !.pc = "record", !.cause = "transient", !.error = "aborted"]
             /\ UNCHANGED effects
    BY <1>1, <1>2, <1>3, <1>5, TryFails DEF Handlers!Fails, Errors, KnownErrors
  <1>6. ASSUME NEW took \in BOOLEAN,
               mutation' = [mutation EXCEPT !.pc = "record", !.cause = "transient", !.error = "down",
               !.took = took,
                                            !.doubt = TRUE],
               effects' = effects + (IF took THEN 1 ELSE 0)
        PROVE  MutationInv'
    <2>1. PICK m : m = [mutation EXCEPT !.pc = "record", !.cause = "transient", !.error = "down",
               !.took = took,
                                        !.doubt = TRUE]
      OBVIOUS
    <2>2. /\ m \in Running /\ m.pc = "record" /\ m.took = took /\ m.doubt /\ m.error = "down"
          /\ m.op = mutation.op /\ m.handler = mutation.handler
      BY <1>1, <2>1 DEF Running, Stages, Errors
    <2>3. effects' \in Nat /\ effects' >= effects /\ (took => effects' > 0)
      BY <1>3, <1>6
    <2>4. TryKnown(m, effects')
      BY <2>2, <2>3 DEF TryKnown, Doubts
    <2>5. kept' = "result" /\ m.op \in m.handler.changes => effects' > 0
      BY <1>1, <1>3, <2>2, <2>3 DEF MutationInv, ResultIsReal, Changes
    <2> QED
      BY <1>1, <1>6, <2>1, <2>2, <2>3, <2>4, <2>5, MutationStep DEF MutationInv, OpIsOffered
  <1> QED
    BY <1>4, <1>5, <1>6 DEF Handlers!Commit

\* The lease is released; a failure of that is an error of a change that was made.
LEMMA ReleaseKeeps ==
  ASSUME MutationInv, Handlers!Release
  PROVE  MutationInv'
  <1>1. mutation \in Running
    BY Started DEF Handlers!Release, MutationInv
  <1>2. mutation.op \in mutation.handler.changes => mutation.took
    BY <1>1 DEF MutationInv, TryIsKnown, TryKnown, Handlers!Release
  <1> QED
    BY <1>1, <1>2, TryGoes DEF Handlers!Release, Stages

\* The failed attempt is recorded on its own.
LEMMA RecordFailureKeeps ==
  ASSUME MutationInv, Handlers!RecordFailure
  PROVE  MutationInv'
  <1>1. mutation \in Running
    BY Started DEF Handlers!RecordFailure, MutationInv
  <1>2. PICK failures \in SUBSET {"operation", "security"}, lost \in BOOLEAN,
             cause \in {"transient", mutation.cause},
             error \in {"no audit", mutation.error} :
          mutation' = [mutation EXCEPT !.pc = "failed", !.failures = failures, !.recordFails = lost,
          !.cause = cause,
                                       !.error = error]
    BY <1>1 DEF Handlers!RecordFailure
  <1>3. PICK m : m = [mutation EXCEPT !.pc = "failed", !.failures = failures, !.recordFails = lost,
             !.cause = cause,
                                      !.error = error]
    OBVIOUS
  <1>4. cause \in {"", "refused", "transient"} /\ error \in Errors
    BY <1>1 DEF Running, Errors, KnownErrors
  <1>5. /\ m \in Running /\ m.pc = "failed" /\ m.took = mutation.took /\ m.doubt = mutation.doubt
           /\ m.error = error
        /\ m.op = mutation.op /\ m.handler = mutation.handler
    BY <1>1, <1>3, <1>4 DEF Running, Stages
  <1>6. effects' = effects /\ kept' = kept /\ mutation.pc = "record"
    BY DEF Handlers!RecordFailure
  <1>7. TryKnown(m, effects')
    BY <1>1, <1>5, <1>6 DEF MutationInv, TryIsKnown, TryKnown, Doubts
  <1> QED
    BY <1>1, <1>2, <1>3, <1>5, <1>6, <1>7, MutationStep
       DEF MutationInv, MutationTypeOK, OpIsOffered, ResultIsReal, Changes

\* The context of the try ends.
LEMMA MutationContextEndsKeeps ==
  ASSUME MutationInv, NEW over \in {"deadline", "cancelled"}, Handlers!ContextEnds(over)
  PROVE  MutationInv'
  <1>1. mutation \in Running
    BY Started DEF Handlers!ContextEnds, MutationInv
  <1>2. PICK m : m = [mutation EXCEPT !.over = over]
    OBVIOUS
  <1>3. mutation' = m /\ effects' = effects /\ kept' = kept /\ mutation.pc # "answered"
    BY <1>2 DEF Handlers!ContextEnds
  <1>4. /\ m \in Running /\ m.pc = mutation.pc /\ m.took = mutation.took /\ m.doubt = mutation.doubt
        /\ m.error = mutation.error /\ m.op = mutation.op /\ m.handler = mutation.handler
    BY <1>1, <1>2 DEF Running
  <1>5. TryKnown(m, effects')
    BY <1>1, <1>3, <1>4 DEF MutationInv, TryIsKnown, TryKnown
  <1> QED
    BY <1>1, <1>3, <1>4, <1>5, MutationStep
       DEF MutationInv, MutationTypeOK, OpIsOffered, ResultIsReal, Changes

\* Fail answers with the status of a refusal, and in doubt with one that calls for a retry.
LEMMA StatusIsKnown ==
  ASSUME NEW h \in Handlers!Handlers, NEW error \in Errors
  PROVE  /\ Handlers!Fail(h, error) \in Failures
         /\ error \in Doubts => Handlers!Fail(h, error) \in Unavailable
  <1>1. h.known \subseteq KnownErrors
    BY HandlersAreKnown
  <1>2. CASE error \in h.known
    <2>1. error \in KnownErrors /\ Handlers!Fail(h, error) = Handlers!Status(error)
      BY <1>1, <1>2 DEF Handlers!Fail
    <2>2. CASE error = "invalid"
      BY <2>1, <2>2 DEF Handlers!Status, Failures, Doubts
    <2>3. CASE error = "not found"
      BY <2>1, <2>3 DEF Handlers!Status, Failures, Doubts
    <2>4. CASE error = "forbidden"
      BY <2>1, <2>4 DEF Handlers!Status, Failures, Doubts
    <2>5. CASE error \in {"stale", "conflict", "in use", "aborted"}
      <3>1. Handlers!Status(error) = 409
        <4>1. error \notin {"invalid", "not found", "forbidden", "no identity", "no audit"}
          BY <2>5
        <4> QED
          BY <2>5, <4>1 DEF Handlers!Status
      <3>2. error \notin Doubts
        BY <2>5 DEF Doubts
      <3>3. 409 \in Failures
        BY DEF Failures
      <3> QED
        BY <2>1, <3>1, <3>2, <3>3, Zenon
    <2>6. CASE error \in {"no identity", "no audit"}
      <3>1. Handlers!Status(error) = 503
        BY <2>6 DEF Handlers!Status
      <3>2. 503 \in Failures /\ 503 \in Unavailable
        BY DEF Failures, Unavailable
      <3> QED
        BY <2>1, <3>1, <3>2, Zenon
    <2> QED
      BY <2>1, <2>2, <2>3, <2>4, <2>5, <2>6 DEF KnownErrors
  <1>3. CASE error \notin h.known
    BY <1>3 DEF Handlers!Fail, Failures, Unavailable
  <1> QED
    BY <1>2, <1>3

\* The middleware keeps the answer, or frees the key.
LEMMA AnswerKeeps ==
  ASSUME MutationInv, Handlers!Answer
  PROVE  MutationInv'
  <1>1. mutation \in Running /\ mutation.pc \in {"done", "failed"}
    BY Started DEF Handlers!Answer, MutationInv
  <1>2. PICK told : told = IF mutation.pc = "done" THEN 200 ELSE Handlers!Fail(mutation.handler,
             mutation.error)
    OBVIOUS
  <1>3. mutation.pc = "failed" => /\ told \in Failures
                                  /\ mutation.took => told \in Unavailable
    <2>1. HAVE mutation.pc = "failed"
    <2>2. told = Handlers!Fail(mutation.handler, mutation.error)
      BY <1>2, <2>1
    <2>3. mutation.handler \in Handlers!Handlers /\ mutation.error \in Errors
      BY <1>1 DEF Running
    <2>4. mutation.took => mutation.error \in Doubts
      BY <1>1, <2>1 DEF MutationInv, TryIsKnown, TryKnown
    <2>5. told \in Failures /\ (mutation.error \in Doubts => told \in Unavailable)
      <3>1. /\ Handlers!Fail(mutation.handler, mutation.error) \in Failures
            /\ mutation.error \in Doubts => Handlers!Fail(mutation.handler, mutation.error) \in Unavailable
        BY ONLY <2>3, StatusIsKnown, Zenon
      <3> QED
        BY <2>2, <3>1, Zenon
    <2> QED
      BY <2>4, <2>5
  <1>4. mutation.pc = "done" => told = 200
    BY <1>2
  <1>5. told \in Nat /\ (told = 200 \/ mutation.pc = "failed") /\ (told = 200 => mutation.pc = "done")
    BY <1>1, <1>3, <1>4 DEF Failures
  <1>6. PICK status \in Nat : status = Handlers!Answered(mutation.over, told)
    <2>1. mutation.over \in {"", "deadline", "cancelled"}
      BY <1>1 DEF Running
    <2>2. CASE mutation.over = ""
      BY <1>5, <2>2 DEF Handlers!Answered
    <2>3. CASE mutation.over = "deadline"
      BY <2>3 DEF Handlers!Answered
    <2>4. CASE mutation.over = "cancelled"
      BY <2>4 DEF Handlers!Answered
    <2> QED
      BY <2>1, <2>2, <2>3, <2>4
  <1>7. status = told \/ status = 0 \/ status = 504
    BY <1>1, <1>6 DEF Handlers!Answered, Running
  <1>18. mutation.over = "" => status = told
    BY <1>1, <1>6 DEF Handlers!Answered, Running
  <1>8. PICK m : m = [mutation EXCEPT !.pc = "answered", !.status = status]
    OBVIOUS
  <1>9. /\ mutation' = m /\ effects' = effects
        /\ kept' = IF Handlers!retryable(status) THEN "" ELSE IF status < 400 THEN "result" ELSE mutation.cause
    BY <1>2, <1>6, <1>8 DEF Handlers!Answer
  <1>10. /\ m \in Running /\ m.pc = "answered" /\ m.took = mutation.took /\ m.doubt = mutation.doubt
         /\ m.over = mutation.over /\ m.op = mutation.op /\ m.handler = mutation.handler /\ m.status = status
    BY <1>1, <1>8 DEF Running, Stages
  <1>11. status = 200 => mutation.pc = "done"
    BY <1>5, <1>7
  <1>12. kept' = "result" => status = 200
    <2>1. mutation.cause # "result"
      BY <1>1 DEF Running
    <2>2. CASE status = 0 \/ status = 504
      BY <1>9, <2>2 DEF Handlers!retryable
    <2>3. CASE status = told
      <3>1. told \in Failures \/ told = 200
        BY <1>1, <1>3, <1>4
      <3> QED
        BY <1>9, <2>1, <2>3, <3>1 DEF Handlers!retryable, Failures
    <2> QED
      BY <1>7, <2>2, <2>3
  <1>13. /\ mutation.took => effects > 0
         /\ mutation.pc = "done" /\ mutation.op \in mutation.handler.changes => mutation.took
         /\ mutation.took /\ mutation.pc = "failed" => mutation.doubt
    BY <1>1 DEF MutationInv, TryIsKnown, TryKnown
  <1>14. MutationTypeOK' /\ OpIsOffered'
    BY <1>1, <1>9, <1>10 DEF MutationInv, MutationTypeOK, OpIsOffered
  <1>15. TryIsKnown'
    BY <1>9, <1>10, <1>13 DEF TryIsKnown, TryKnown
  <1>16. ResultIsReal' /\ FirstIsNew'
    BY <1>9, <1>10, <1>11, <1>12, <1>13 DEF ResultIsReal, FirstIsNew, Changes
  <1>17. Handlers!ChangesAreAnswered'
    <2>1. status \in 400..499 => ~mutation.took \/ mutation.op \notin mutation.handler.changes
      <3>1. HAVE status \in 400..499
      <3>2. status = told /\ mutation.pc = "failed"
        <4>1. status # 200 /\ status # 0 /\ status # 504
          BY <3>1
        <4>2. status = told
          BY <1>7, <4>1
        <4>3. mutation.pc # "done"
          BY <1>4, <4>1, <4>2
        <4> QED
          BY <1>1, <4>2, <4>3
      <3> QED
        <4>1. told \notin Unavailable
          BY <3>1, <3>2 DEF Unavailable
        <4> QED
          BY <1>3, <3>2, <4>1
    <2>2. mutation.took => status = 200 \/ mutation.doubt \/ mutation.over # ""
      <3>1. mutation.pc = "failed" \/ mutation.over # "" \/ status = 200
        BY <1>1, <1>4, <1>18
      <3> QED
        BY <1>13, <3>1
    <2>3. /\ mutation'.pc = "answered" /\ mutation'.op = mutation.op /\ mutation'.handler = mutation.handler
          /\ mutation'.status = status /\ mutation'.took = mutation.took /\ mutation'.doubt = mutation.doubt
          /\ mutation'.over = mutation.over
      BY <1>9, <1>10
    <2>4. mutation.op \in mutation.handler.changes /\ status = 200 => mutation.took
      BY <1>11, <1>13
    <2>5. mutation.op \in mutation.handler.changes /\ kept' = "result" => effects' > 0
      BY <1>9, <1>12, <1>13, <2>4
    <2> QED
      BY <2>1, <2>2, <2>3, <2>4, <2>5 DEF Handlers!ChangesAreAnswered
  <1> QED
    BY <1>14, <1>15, <1>16, <1>17 DEF MutationInv

\* The client tries again under its key.
LEMMA RetryKeeps ==
  ASSUME MutationInv, Handlers!Retry
  PROVE  MutationInv'
  <1>1. mutation \in Running
    BY Started DEF Handlers!Retry, MutationInv
  <1>2. mutation.handler \in Handlers!Handlers /\ mutation.tries \in Nat
    BY <1>1 DEF Running
  <1>3. mutation.op \in mutation.handler.changes \cup mutation.handler.reads
    BY <1>1 DEF MutationInv, OpIsOffered
  <1>4. PICK tries \in Nat : tries = mutation.tries + 1
    BY <1>2
  <1>5. PICK m : m = Handlers!Begins(mutation.handler, mutation.op, tries)
    OBVIOUS
  <1>6. mutation' = m /\ effects' = effects /\ kept' = kept
    BY <1>4, <1>5 DEF Handlers!Retry
  <1>7. /\ m \in Running /\ m.pc = IF mutation.op \in mutation.handler.changes THEN "bound" ELSE "reading"
        /\ m.handler = mutation.handler /\ m.op = mutation.op /\ ~m.took
    BY <1>2, <1>3, <1>5, TryBegins
  <1>8. TryKnown(m, effects')
    BY <1>7 DEF TryKnown
  <1> QED
    BY <1>1, <1>3, <1>6, <1>7, <1>8, MutationStep DEF MutationInv, MutationTypeOK, ResultIsReal, Changes

\* For every handler of the API and any number of tries.
LEMMA MutationInvariant == Handlers!Spec => []MutationInv
  <1>1. Handlers!Init => MutationInv
    BY MutationBegin
  <1>2. MutationInv /\ [Handlers!Next]_(Handlers!vars) => MutationInv'
    <2>1. SUFFICES ASSUME MutationInv, [Handlers!Next]_(Handlers!vars)
                   PROVE  MutationInv'
      OBVIOUS
    <2>2. CASE UNCHANGED Handlers!vars
      <3>1. mutation' = mutation /\ effects' = effects /\ kept' = kept
        BY <2>2 DEF Handlers!vars
      <3>2. MutationTypeOK' /\ OpIsOffered' /\ ResultIsReal' /\ FirstIsNew'
        BY <2>1, <3>1 DEF MutationInv, MutationTypeOK, OpIsOffered, ResultIsReal, FirstIsNew, Changes
      <3>3. TryIsKnown'
        BY <2>1, <3>1 DEF MutationInv, TryIsKnown, TryKnown
      <3>4. Handlers!ChangesAreAnswered'
        BY <2>1, <3>1 DEF MutationInv, Handlers!ChangesAreAnswered
      <3> QED
        BY <3>2, <3>3, <3>4 DEF MutationInv
    <2>3. CASE Handlers!Next
      BY <2>1, <2>3, BindKeeps, ReadKeeps, CheckKeeps, LeaseKeeps, TransactKeeps, MutationCommitKeeps,
         ReleaseKeeps,
         RecordFailureKeeps, MutationContextEndsKeeps, AnswerKeeps, RetryKeeps DEF Handlers!Next
    <2> QED
      BY <2>1, <2>2, <2>3
  <1> QED
    BY <1>1, <1>2, PTL DEF Handlers!Spec

-----------------------------------------------------------------------------
(* Outbound calls.                                                         *)

\* The two kinds of clients.
Protocols == {"http", "grpc"}

\* What an attempt may end with.
Outcomes == {"none", "ok", "transient", "unreachable", "rejected", "canceled", "deadline", "invalid"}

\* The client, which never exposes a credential.
ClientTypeOK ==
    \/ client = Upstream!NoClient
    \/ client \in [built : {TRUE}, open : BOOLEAN, protocol : Protocols, retries : BOOLEAN, breaks : BOOLEAN,
                   exposed : {FALSE}]

\* A call under way.
Sending == [pc : {"attempt", "backoff", "answered"}, again : BOOLEAN, attempt : Nat, sends : Nat,
bodies : Nat,
            ended : BOOLEAN, counts : BOOLEAN, outcome : Outcomes]

\* A call whose answer is the caller's.
Returned == [pc : {"returned"}, again : BOOLEAN, sends : Nat, bodies : Nat, handed : BOOLEAN]

\* A call that was never sent.
Unsent == {[pc |-> "idle"], [pc |-> "refused"]}

\* NoUnsafeResend for one call.
SendsOnce(x) == x.sends > 1 => x.again /\ client.retries

\* A call under way: what it has sent, may send and has open.
GoodSending(x) ==
    /\ client.built /\ x \in Sending /\ SendsOnce(x)
    /\ x.attempt > 1 => x.again /\ client.retries
    /\ x.attempt <= MaxAttempts
    /\ x.pc = "attempt" => x.attempt = x.sends + 1 /\ x.bodies = 0
    /\ x.pc = "backoff" => x.sends = x.attempt /\ x.attempt < MaxAttempts /\ x.again /\ client.retries
       /\ x.bodies = 0
    /\ x.pc = "answered" => x.sends <= x.attempt /\ x.bodies = Upstream!BodyCount(x.outcome)

\* A call whose body is its caller's, or closed.
GoodReturned(x) ==
    /\ client.built /\ x \in Returned /\ SendsOnce(x) /\ x.sends <= MaxAttempts
    /\ x.bodies = IF x.handed THEN 1 ELSE 0

\* Any call.
GoodCall(x) == x \in Unsent \/ GoodSending(x) \/ GoodReturned(x)

\* The inductive invariant.  OutboundIsSound is not inductive: the number of sends is bounded only
\* with the number of attempts, and a body is accounted for from the attempt that opened it.
CallsInv == ClientTypeOK /\ DOMAIN outcall = OutCall /\ \A c \in OutCall : GoodCall(outcall[c])

\* The kinds are told apart by their stage.
LEMMA CallKinds ==
  /\ \A x \in Unsent : x.pc \in {"idle", "refused"} /\ "counts" \notin DOMAIN x
  /\ \A x \in Sending : x.pc \in {"attempt", "backoff", "answered"} /\ "counts" \in DOMAIN x
  /\ \A x \in Returned : x.pc = "returned" /\ "counts" \notin DOMAIN x
  <1>1. \A x \in Unsent : x.pc \in {"idle", "refused"} /\ "counts" \notin DOMAIN x
    BY DEF Unsent
  <1>2. \A x \in Sending : x.pc \in {"attempt", "backoff", "answered"} /\ "counts" \in DOMAIN x
    BY DEF Sending
  <1>3. \A x \in Returned : x.pc = "returned" /\ "counts" \notin DOMAIN x
    BY DEF Returned
  <1> QED
    BY <1>1, <1>2, <1>3

\* A call under way is of that kind.
LEMMA Unsendings == \A x : GoodCall(x) /\ x.pc \in {"attempt", "backoff", "answered"} => GoodSending(x)
  BY CallKinds DEF GoodCall, GoodReturned

\* OutboundIsSound follows.
LEMMA CallsImply == CallsInv => Upstream!OutboundIsSound
  <1> SUFFICES ASSUME CallsInv PROVE Upstream!OutboundIsSound
    OBVIOUS
  <1>1. ASSUME NEW c \in OutCall, outcall[c].pc \notin {"idle", "refused"}
        PROVE  SendsOnce(outcall[c]) /\ outcall[c].sends <= MaxAttempts
    <2>1. GoodSending(outcall[c]) \/ GoodReturned(outcall[c])
      BY <1>1, CallKinds DEF CallsInv, GoodCall
    <2>2. CASE GoodSending(outcall[c])
      <3>1. PICK n \in Nat, m \in Nat : n = outcall[c].sends /\ m = outcall[c].attempt
        BY <2>2 DEF GoodSending, Sending
      <3>2. outcall[c].pc \in {"attempt", "backoff", "answered"}
        BY <2>2, CallKinds DEF GoodSending
      <3>3. n <= m /\ m <= MaxAttempts
        BY <2>2, <3>1, <3>2 DEF GoodSending
      <3> QED
        BY <2>2, <3>1, <3>3, AttemptsAssumption DEF GoodSending
    <2> QED
      BY <2>1, <2>2 DEF GoodReturned
  <1>2. Upstream!NoUnsafeResend
    BY <1>1 DEF SendsOnce, Upstream!NoUnsafeResend
  <1>3. Upstream!NoLeakedBody
    <2>1. SUFFICES ASSUME NEW c \in OutCall, outcall[c].pc = "returned"
                   PROVE  outcall[c].bodies = IF outcall[c].handed THEN 1 ELSE 0
      BY DEF Upstream!NoLeakedBody
    <2>2. GoodReturned(outcall[c])
      BY <2>1, CallKinds DEF CallsInv, GoodCall, GoodSending
    <2> QED
      BY <2>2 DEF GoodReturned
  <1>4. Upstream!CredentialsAreProtected
    <2>1. client = Upstream!NoClient => ~client.built
      BY DEF Upstream!NoClient
    <2> QED
      BY <2>1 DEF CallsInv, ClientTypeOK, Upstream!CredentialsAreProtected
  <1> QED
    BY <1>2, <1>3, <1>4 DEF Upstream!OutboundIsSound

\* Whether the breaker counts a call does not matter to it.
LEMMA StillGood ==
  ASSUME NEW x, GoodCall(x), "counts" \in DOMAIN x
  PROVE  GoodCall([x EXCEPT !.counts = FALSE])
  <1>1. GoodSending(x)
    BY CallKinds DEF GoodCall, GoodReturned
  <1>2. PICK y : y = [x EXCEPT !.counts = FALSE]
    OBVIOUS
  <1>3. /\ y \in Sending /\ y.pc = x.pc /\ y.again = x.again /\ y.attempt = x.attempt /\ y.sends = x.sends
        /\ y.bodies = x.bodies /\ y.outcome = x.outcome
    BY <1>1, <1>2 DEF GoodSending, Sending
  <1>4. GoodSending(y)
    BY <1>1, <1>3 DEF GoodSending, SendsOnce
  <1> QED
    BY <1>2, <1>4 DEF GoodCall

\* The client stays what it is for the calls.
LEMMA SameClient ==
  ASSUME client'.built = client.built, client'.retries = client.retries, client'.protocol = client.protocol,
         NEW x, GoodCall(x)
  PROVE  GoodCall(x)'
  BY DEF GoodCall, GoodSending, GoodReturned, SendsOnce, Upstream!BodyCount

\* One call has a good record, the others keep theirs.
LEMMA CallStep ==
  ASSUME CallsInv, NEW c \in OutCall, NEW x, GoodCall(x), outcall' = [outcall EXCEPT ![c] = x],
         UNCHANGED client
  PROVE  CallsInv'
  <1>1. \A y : GoodCall(y) => GoodCall(y)'
    BY SameClient
  <1>2. \A d \in OutCall : outcall'[d] = IF d = c THEN x ELSE outcall[d]
    BY DEF CallsInv
  <1>3. DOMAIN outcall' = OutCall /\ ClientTypeOK'
    BY DEF CallsInv, ClientTypeOK
  <1> QED
    BY <1>1, <1>2, <1>3 DEF CallsInv

\* The breaker has changed its state.
LEMMA OutdatedKeeps ==
  ASSUME ClientTypeOK, NEW calls, \A c \in OutCall : GoodCall(calls[c]), UNCHANGED client,
         outcall' = Upstream!Outdated(calls)
  PROVE  CallsInv'
  <1>1. \A y : GoodCall(y) => GoodCall(y)'
    BY SameClient
  <1>2. ASSUME NEW c \in OutCall PROVE GoodCall(outcall'[c])
    <2>1. CASE "counts" \in DOMAIN calls[c]
      BY <2>1, StillGood DEF Upstream!Outdated
    <2>2. CASE "counts" \notin DOMAIN calls[c]
      BY <2>2 DEF Upstream!Outdated
    <2> QED
      BY <2>1, <2>2
  <1>3. DOMAIN outcall' = OutCall /\ ClientTypeOK'
    BY DEF ClientTypeOK, Upstream!Outdated
  <1> QED
    BY <1>1, <1>2, <1>3 DEF CallsInv

\* A client is built that sends credentials over a protected transport, or where plaintext is
\* allowed.
LEMMA NewRegistryKeeps ==
  ASSUME CallsInv, NEW u \in Upstream!Upstream, Upstream!NewRegistry(u)
  PROVE  CallsInv'
  <1>1. \A c \in OutCall : outcall[c] \in Unsent
    BY DEF CallsInv, GoodCall, GoodSending, GoodReturned, Upstream!NewRegistry
  <1>2. ~(u.auth /\ ~u.secure /\ ~u.plaintext)
    BY DEF Upstream!Upstream, Upstream!NewRegistry, Upstream!NewHTTPClient, Upstream!Dial
  <1>3. client' \in [built : {TRUE}, open : BOOLEAN, protocol : Protocols, retries : BOOLEAN,
        breaks : BOOLEAN,
                     exposed : {FALSE}]
    BY <1>2 DEF Upstream!NewRegistry, Upstream!Upstream, Protocols
  <1> QED
    BY <1>1, <1>3 DEF CallsInv, ClientTypeOK, GoodCall, Upstream!NewRegistry

\* Shutdown.
LEMMA closeKeeps ==
  ASSUME CallsInv, Upstream!close
  PROVE  CallsInv'
  <1>1. client \in [built : {TRUE}, open : BOOLEAN, protocol : Protocols, retries : BOOLEAN, breaks : BOOLEAN,
                    exposed : {FALSE}]
    <2>1. client = Upstream!NoClient => ~client.built
      BY DEF Upstream!NoClient
    <2> QED
      BY <2>1 DEF CallsInv, ClientTypeOK, Upstream!close
  <1>2. /\ client' \in [built : {TRUE}, open : BOOLEAN, protocol : Protocols, retries : BOOLEAN,
           breaks : BOOLEAN,
                        exposed : {FALSE}]
        /\ client'.built = client.built /\ client'.retries = client.retries
           /\ client'.protocol = client.protocol
    BY <1>1 DEF Upstream!close
  <1>3. \A x : GoodCall(x) => GoodCall(x)'
    BY <1>2, SameClient
  <1> QED
    BY <1>2, <1>3 DEF CallsInv, ClientTypeOK, Upstream!close

\* A call begins, or is refused.
LEMMA DoKeeps ==
  ASSUME CallsInv, NEW c \in OutCall, NEW again \in BOOLEAN, Upstream!Do(c, again)
  PROVE  CallsInv'
  <1>1. CASE outcall' = [outcall EXCEPT ![c] = [pc |-> "refused"]]
    BY <1>1, CallStep DEF Upstream!Do, GoodCall, Unsent
  <1>2. CASE Upstream!Admits
    <2>1. PICK x : x = [pc |-> "attempt", again |-> again, attempt |-> 1, sends |-> 0, bodies |-> 0,
               ended |-> FALSE,
                        counts |-> TRUE, outcome |-> "none"]
      OBVIOUS
    <2>2. x \in Sending /\ x.attempt = 1 /\ x.sends = 0 /\ x.bodies = 0 /\ x.pc = "attempt"
      <3>1. "attempt" \in {"attempt", "backoff", "answered"} /\ "none" \in Outcomes
        BY DEF Outcomes
      <3>2. 1 \in Nat /\ 0 \in Nat
        OBVIOUS
      <3> QED
        BY <2>1, <3>1, <3>2 DEF Sending
    <2>3. GoodSending(x)
      BY <2>2, AttemptsAssumption DEF GoodSending, SendsOnce, Upstream!Do
    <2>4. outcall' = [outcall EXCEPT ![c] = x] /\ UNCHANGED client
      BY <1>2, <2>1 DEF Upstream!Do
    <2> QED
      BY <2>3, <2>4, CallStep DEF GoodCall
  <1> QED
    BY <1>1, <1>2 DEF Upstream!Do

\* Its context ends.
LEMMA CallEndsKeeps ==
  ASSUME CallsInv, NEW c \in OutCall, Upstream!ContextEnds(c)
  PROVE  CallsInv'
  <1>1. GoodSending(outcall[c])
    BY Unsendings DEF CallsInv, Upstream!ContextEnds
  <1>2. PICK x : x = [outcall[c] EXCEPT !.ended = TRUE]
    OBVIOUS
  <1>3. /\ x \in Sending /\ x.pc = outcall[c].pc /\ x.again = outcall[c].again
           /\ x.attempt = outcall[c].attempt
        /\ x.sends = outcall[c].sends /\ x.bodies = outcall[c].bodies /\ x.outcome = outcall[c].outcome
    BY <1>1, <1>2 DEF GoodSending, Sending
  <1>4. GoodSending(x)
    BY <1>1, <1>3 DEF GoodSending, SendsOnce
  <1>5. outcall' = [outcall EXCEPT ![c] = x] /\ UNCHANGED client
    BY <1>2 DEF Upstream!ContextEnds
  <1> QED
    BY <1>4, <1>5, CallStep DEF GoodCall

\* A call that may be attempted again may be repeated.
LEMMA AttemptsLeft ==
  ASSUME NEW c \in OutCall, GoodSending(outcall[c]), outcall[c].attempt < Upstream!Attempts(c),
         outcall[c].attempt > 0
  PROVE  outcall[c].attempt < MaxAttempts /\ outcall[c].again /\ client.retries
  BY AttemptsAssumption DEF GoodSending, Sending, Upstream!Attempts, Upstream!retryable

\* An attempt opens one body at most.
LEMMA BodyIsOne == \A outcome : Upstream!BodyCount(outcome) \in {0, 1}
  BY DEF Upstream!BodyCount

\* An attempt; one that will be repeated has closed its body.
LEMMA DoOnceKeeps ==
  ASSUME CallsInv, NEW c \in OutCall, Upstream!DoOnce(c)
  PROVE  CallsInv'
  <1>1. GoodSending(outcall[c]) /\ outcall[c].pc = "attempt" /\ UNCHANGED client
    BY Unsendings DEF CallsInv, Upstream!DoOnce
  <1>2. /\ outcall[c] \in Sending /\ outcall[c].attempt = outcall[c].sends + 1 /\ outcall[c].bodies = 0
        /\ outcall[c].sends \in Nat /\ outcall[c].attempt \in Nat
    BY <1>1 DEF GoodSending, Sending
  <1>3. PICK outcome \in Upstream!Outcome(c) :
          IF Upstream!Retried(outcome) /\ outcall[c].attempt < Upstream!Attempts(c)
          THEN outcall' = [outcall EXCEPT ![c].pc = "backoff", ![c].sends = @ + 1]
          ELSE outcall' = [outcall EXCEPT ![c].pc = "answered", ![c].sends = @ + 1,
                                          ![c].bodies = @ + Upstream!BodyCount(outcome), ![c].outcome = outcome]
    BY DEF Upstream!DoOnce
  <1>4. CASE Upstream!Retried(outcome) /\ outcall[c].attempt < Upstream!Attempts(c)
    <2>1. PICK x : x = [outcall[c] EXCEPT !.pc = "backoff", !.sends = outcall[c].sends + 1]
      OBVIOUS
    <2>2. /\ x \in Sending /\ x.pc = "backoff" /\ x.again = outcall[c].again /\ x.attempt = outcall[c].attempt
          /\ x.sends = outcall[c].attempt /\ x.bodies = 0
      BY <1>2, <2>1 DEF Sending
    <2>3. x.attempt < MaxAttempts /\ x.again /\ client.retries
      BY <1>1, <1>2, <1>4, <2>2, AttemptsLeft
    <2>4. GoodSending(x)
      BY <1>1, <2>2, <2>3 DEF GoodSending, SendsOnce
    <2>5. outcall' = [outcall EXCEPT ![c] = x]
      BY <1>3, <1>4, <2>1
    <2> QED
      BY <1>1, <2>4, <2>5, CallStep DEF GoodCall
  <1>5. CASE ~(Upstream!Retried(outcome) /\ outcall[c].attempt < Upstream!Attempts(c))
    <2>1. PICK x : x = [outcall[c] EXCEPT !.pc = "answered", !.sends = @ + 1,
                                          !.bodies = @ + Upstream!BodyCount(outcome), !.outcome = outcome]
      OBVIOUS
    <2>2. outcome \in Outcomes
      BY DEF Upstream!Outcome, Outcomes
    <2>3. outcall[c].bodies + Upstream!BodyCount(outcome) = Upstream!BodyCount(outcome)
          /\ Upstream!BodyCount(outcome) \in Nat
      BY <1>2, BodyIsOne
    <2>4. /\ x \in Sending /\ x.pc = "answered" /\ x.again = outcall[c].again
             /\ x.attempt = outcall[c].attempt
          /\ x.sends = outcall[c].attempt /\ x.bodies = Upstream!BodyCount(outcome) /\ x.outcome = outcome
      BY <1>2, <2>1, <2>2, <2>3 DEF Sending
    <2>5. GoodSending(x)
      BY <1>1, <1>2, <2>4 DEF GoodSending, SendsOnce
    <2>6. outcall' = [outcall EXCEPT ![c] = x]
      BY <1>3, <1>5, <2>1
    <2> QED
      BY <1>1, <2>5, <2>6, CallStep DEF GoodCall
  <1> QED
    BY <1>4, <1>5

\* A call ends without an answer.
LEMMA UnansweredKeeps ==
  ASSUME CallsInv, NEW c \in OutCall, outcall[c].pc \in {"attempt", "backoff"}, NEW outcome \in Outcomes,
         outcome \notin {"ok", "transient", "rejected"}, UNCHANGED client,
         outcall' = [outcall EXCEPT ![c].pc = "answered", ![c].outcome = outcome]
  PROVE  CallsInv'
  <1>1. GoodSending(outcall[c])
    BY Unsendings DEF CallsInv
  <1>2. outcall[c] \in Sending /\ outcall[c].bodies = 0 /\ outcall[c].sends <= outcall[c].attempt
    BY <1>1 DEF GoodSending, Sending
  <1>3. PICK x : x = [outcall[c] EXCEPT !.pc = "answered", !.outcome = outcome]
    OBVIOUS
  <1>4. /\ x \in Sending /\ x.pc = "answered" /\ x.again = outcall[c].again /\ x.attempt = outcall[c].attempt
        /\ x.sends = outcall[c].sends /\ x.bodies = 0 /\ x.outcome = outcome
    BY <1>2, <1>3 DEF Sending
  <1>5. Upstream!BodyCount(outcome) = 0
    BY DEF Upstream!BodyCount
  <1>6. GoodSending(x)
    BY <1>1, <1>2, <1>4, <1>5 DEF GoodSending, SendsOnce
  <1>7. outcall' = [outcall EXCEPT ![c] = x]
    BY <1>3
  <1> QED
    BY <1>6, <1>7, CallStep DEF GoodCall

\* Nothing is sent.
LEMMA InvalidRequestKeeps ==
  ASSUME CallsInv, NEW c \in OutCall, Upstream!InvalidRequest(c)
  PROVE  CallsInv'
  <1>1. "invalid" \in Outcomes /\ "invalid" \notin {"ok", "transient", "rejected"}
    BY DEF Outcomes
  <1> QED
    BY <1>1, UnansweredKeeps DEF Upstream!InvalidRequest

\* The wait ends, or the context ends it.
LEMMA BackoffKeeps ==
  ASSUME CallsInv, NEW c \in OutCall, Upstream!Backoff(c)
  PROVE  CallsInv'
  <1>1. outcall[c].pc = "backoff" /\ UNCHANGED client
    BY DEF Upstream!Backoff
  <1>2. ASSUME NEW outcome \in {"canceled", "deadline"},
               outcall' = [outcall EXCEPT ![c].pc = "answered", ![c].outcome = outcome]
        PROVE  CallsInv'
    <2>1. outcome \in Outcomes /\ outcome \notin {"ok", "transient", "rejected"}
      BY DEF Outcomes
    <2> QED
      BY <1>1, <1>2, <2>1, UnansweredKeeps
  <1>3. CASE outcall' = [outcall EXCEPT ![c].pc = "attempt", ![c].attempt = @ + 1]
    <2>1. GoodSending(outcall[c])
      BY <1>1, Unsendings DEF CallsInv
    <2>2. /\ outcall[c] \in Sending /\ outcall[c].sends = outcall[c].attempt /\ outcall[c].bodies = 0
          /\ outcall[c].attempt \in Nat /\ outcall[c].attempt < MaxAttempts /\ outcall[c].again
             /\ client.retries
      BY <1>1, <2>1 DEF GoodSending, Sending
    <2>3. PICK x : x = [outcall[c] EXCEPT !.pc = "attempt", !.attempt = outcall[c].attempt + 1]
      OBVIOUS
    <2>4. /\ x \in Sending /\ x.pc = "attempt" /\ x.again /\ x.attempt = outcall[c].attempt + 1
          /\ x.sends = outcall[c].attempt /\ x.bodies = 0
      <3>1. PICK n \in Nat : n = outcall[c].attempt + 1
        BY <2>2
      <3> QED
        BY <2>2, <2>3, <3>1 DEF Sending
    <2>5. x.attempt <= MaxAttempts
      BY <2>2, <2>4, AttemptsAssumption
    <2>6. GoodSending(x)
      BY <2>1, <2>2, <2>4, <2>5 DEF GoodSending, SendsOnce
    <2>7. outcall' = [outcall EXCEPT ![c] = x]
      BY <1>3, <2>3
    <2> QED
      BY <1>1, <2>6, <2>7, CallStep DEF GoodCall
  <1> QED
    BY <1>2, <1>3 DEF Upstream!Backoff

\* The body of a late response is closed, any other is handed over.
LEMMA CallReturnKeeps ==
  ASSUME CallsInv, NEW c \in OutCall, Upstream!Return(c)
  PROVE  CallsInv'
  <1>1. GoodSending(outcall[c]) /\ outcall[c].pc = "answered" /\ UNCHANGED client
    BY Unsendings DEF CallsInv, Upstream!Return
  <1>2. /\ outcall[c] \in Sending /\ outcall[c].sends \in Nat /\ outcall[c].attempt \in Nat
           /\ outcall[c].ended \in BOOLEAN
        /\ outcall[c].sends <= outcall[c].attempt /\ outcall[c].attempt <= MaxAttempts
        /\ outcall[c].bodies = Upstream!BodyCount(outcall[c].outcome) /\ SendsOnce(outcall[c]) /\ client.built
    BY <1>1 DEF GoodSending, Sending
  <1>3. PICK x : x = [pc |-> "returned", again |-> outcall[c].again, sends |-> outcall[c].sends,
                      bodies |-> Upstream!Released(c),
                      handed |-> ~outcall[c].ended /\ Upstream!BodyCount(outcall[c].outcome) = 1]
    OBVIOUS
  <1>4. Upstream!Released(c) = IF ~outcall[c].ended /\ Upstream!BodyCount(outcall[c].outcome) = 1 THEN 1 ELSE 0
    BY <1>2, BodyIsOne DEF Upstream!Released
  <1>5. /\ x \in Returned /\ x.again = outcall[c].again /\ x.sends = outcall[c].sends
        /\ x.bodies = IF x.handed THEN 1 ELSE 0
    <2>1. PICK n \in Nat : n = Upstream!Released(c)
      BY <1>4
    <2>2. outcall[c].again \in BOOLEAN
      BY <1>2 DEF Sending
    <2>3. PICK h \in BOOLEAN : h = (~outcall[c].ended /\ Upstream!BodyCount(outcall[c].outcome) = 1)
      OBVIOUS
    <2>4. /\ x \in Returned /\ x.again = outcall[c].again /\ x.sends = outcall[c].sends
          /\ x.bodies = n /\ x.handed = h
      BY <1>2, <1>3, <2>1, <2>2, <2>3 DEF Returned
    <2> QED
      BY <1>4, <2>1, <2>3, <2>4
  <1>6. x.sends <= MaxAttempts
    BY <1>2, <1>5, AttemptsAssumption
  <1>7. GoodReturned(x)
    BY <1>2, <1>5, <1>6 DEF GoodReturned, SendsOnce
  <1>8. PICK done : done = [outcall EXCEPT ![c] = x]
    OBVIOUS
  <1>9. outcall' = done \/ outcall' = Upstream!Outdated(done)
    BY <1>3, <1>8 DEF Upstream!Return
  <1>10. \A d \in OutCall : GoodCall(done[d])
    BY <1>7, <1>8 DEF CallsInv, GoodCall
  <1>11. CASE outcall' = done
    BY <1>1, <1>7, <1>8, <1>11, CallStep DEF GoodCall
  <1>12. CASE outcall' = Upstream!Outdated(done)
    BY <1>1, <1>10, <1>12, OutdatedKeeps DEF CallsInv
  <1> QED
    BY <1>9, <1>11, <1>12

\* The caller closes it.
LEMMA CloseBodyKeeps ==
  ASSUME CallsInv, NEW c \in OutCall, Upstream!CloseBody(c)
  PROVE  CallsInv'
  <1>1. GoodReturned(outcall[c]) /\ outcall[c].handed
    BY CallKinds DEF CallsInv, GoodCall, GoodSending, Upstream!CloseBody
  <1>2. outcall[c] \in Returned /\ outcall[c].bodies = 1
    BY <1>1 DEF GoodReturned
  <1>3. PICK x : x = [outcall[c] EXCEPT !.bodies = outcall[c].bodies - 1, !.handed = FALSE]
    OBVIOUS
  <1>4. x \in Returned /\ x.again = outcall[c].again /\ x.sends = outcall[c].sends /\ x.bodies = 0
        /\ ~x.handed
    <2>1. PICK n \in Nat : n = 0
      OBVIOUS
    <2>2. outcall[c].bodies - 1 = n
      BY <1>2, <2>1
    <2>3. x \in Returned /\ x.again = outcall[c].again /\ x.sends = outcall[c].sends /\ x.bodies = n
          /\ ~x.handed
      BY <1>2, <1>3, <2>2 DEF Returned
    <2> QED
      BY <2>1, <2>3
  <1>5. GoodReturned(x)
    BY <1>1, <1>4 DEF GoodReturned, SendsOnce
  <1>6. outcall' = [outcall EXCEPT ![c] = x] /\ UNCHANGED client
    BY <1>3 DEF Upstream!CloseBody
  <1> QED
    BY <1>5, <1>6, CallStep DEF GoodCall

\* No client and no calls.
LEMMA CallsInit == Upstream!Init => CallsInv
  BY DEF Upstream!Init, Upstream!NoCall, CallsInv, ClientTypeOK, GoodCall, Unsent

\* Every step.
LEMMA CallsStep == CallsInv /\ [Upstream!Next]_Upstream!vars => CallsInv'
  <1> SUFFICES ASSUME CallsInv, [Upstream!Next]_Upstream!vars PROVE CallsInv'
    OBVIOUS
  <1>1. ASSUME NEW u \in Upstream!Upstream, Upstream!NewRegistry(u) PROVE CallsInv'
    BY <1>1, NewRegistryKeeps
  <1>2. CASE Upstream!OpenTimeout
    BY <1>2, OutdatedKeeps DEF CallsInv, Upstream!OpenTimeout
  <1>3. ASSUME NEW c \in OutCall, NEW again \in BOOLEAN, Upstream!Do(c, again) PROVE CallsInv'
    BY <1>3, DoKeeps
  <1>4. ASSUME NEW c \in OutCall,
               \/ Upstream!ContextEnds(c) \/ Upstream!DoOnce(c) \/ Upstream!InvalidRequest(c)
                  \/ Upstream!Backoff(c)
               \/ Upstream!Return(c) \/ Upstream!CloseBody(c)
        PROVE  CallsInv'
    BY <1>4, CallEndsKeeps, DoOnceKeeps, InvalidRequestKeeps, BackoffKeeps, CallReturnKeeps, CloseBodyKeeps
  <1>5. CASE UNCHANGED Upstream!vars
    <2>1. \A x : GoodCall(x) => GoodCall(x)'
      BY <1>5, SameClient DEF Upstream!vars
    <2> QED
      BY <1>5, <2>1 DEF CallsInv, ClientTypeOK, Upstream!vars
  <1> QED
    BY <1>1, <1>2, <1>3, <1>4, <1>5, closeKeeps DEF Upstream!Next

\* For any calls, attempts and thresholds.
LEMMA CallsInvariant == Upstream!Spec => []CallsInv
  BY CallsInit, CallsStep, PTL DEF Upstream!Spec

-----------------------------------------------------------------------------
(* Readiness.                                                              *)

\* A caller that asks nothing.
Quiet == [pc : {"idle"}]

\* A caller that waits or has been answered.
Asking == [pc : {"waiting", "answered"}, found : [Dependency -> {"pending", "up", "down"}],
           ready : BOOLEAN, earned : BOOLEAN]

\* The types.
ReadinessTypeOK ==
    /\ alive \in [Dependency -> BOOLEAN]
    /\ probe \in [Dependency -> [stage : {"none", "ping", "up", "down"}, was : BOOLEAN]]
    /\ asking \in [Caller -> Quiet \cup Asking]
    /\ serving \in BOOLEAN /\ shutdown \in BOOLEAN

\* A probe that found its dependency up has met it up since it began.
ProbesRemember ==
    \A d \in Dependency :
      /\ probe[d].stage # "none" /\ alive[d] => probe[d].was
      /\ probe[d].stage = "up" => probe[d].was

\* A caller who may be told "ready" has met only dependencies that are up, of probes that earned
\* it.
VerdictFollows ==
    \A c \in Caller : asking[c] \in Asking /\ asking[c].ready =>
      /\ asking[c].earned
      /\ \A d \in Dependency : asking[c].found[d] # "down"
      /\ asking[c].pc = "answered" => \A d \in Dependency : asking[c].found[d] = "up"

\* The inductive invariant.  ReadinessIsEarned is not inductive: a verdict is earned by probes that
\* have ended.
ReadyInv == ReadinessTypeOK /\ ProbesRemember /\ VerdictFollows /\ (shutdown => ~serving)

\* The kinds are told apart by their stage.
LEMMA AskingKinds ==
  /\ \A x \in Quiet : x.pc = "idle"
  /\ \A x \in Asking : x.pc \in {"waiting", "answered"}
  BY DEF Quiet, Asking

\* ReadinessIsEarned follows.
LEMMA ReadyImplies == ReadyInv => Ready!ReadinessIsEarned
  <1> SUFFICES ASSUME ReadyInv PROVE Ready!ReadinessIsEarned
    OBVIOUS
  <1>1. \A c \in Caller : asking[c].pc = "answered" => asking[c] \in Asking
    BY AskingKinds DEF ReadyInv, ReadinessTypeOK
  <1> QED
    BY <1>1 DEF ReadyInv, VerdictFollows, Ready!ReadinessIsEarned

\* The dependencies and probes alone change.
LEMMA ProbeStep ==
  ASSUME ReadyInv, NEW d \in Dependency, NEW here \in BOOLEAN,
         NEW x \in [stage : {"none", "ping", "up", "down"}, was : BOOLEAN],
         alive' = [alive EXCEPT ![d] = here], probe' = [probe EXCEPT ![d] = x],
         x.stage # "none" /\ here => x.was, x.stage = "up" => x.was,
         UNCHANGED <<asking, serving, shutdown>>
  PROVE  ReadyInv'
  <1>1. ReadinessTypeOK'
    BY DEF ReadyInv, ReadinessTypeOK
  <1>2. ProbesRemember'
    BY DEF ReadyInv, ReadinessTypeOK, ProbesRemember
  <1> QED
    BY <1>1, <1>2 DEF ReadyInv, VerdictFollows

\* One caller changes.
LEMMA CallerStep ==
  ASSUME ReadyInv, NEW c \in Caller, NEW x \in Quiet \cup Asking, asking' = [asking EXCEPT ![c] = x],
         x \in Asking /\ x.ready =>
           /\ x.earned /\ \A d \in Dependency : x.found[d] # "down"
           /\ x.pc = "answered" => \A d \in Dependency : x.found[d] = "up",
         UNCHANGED <<alive, probe, shutdown>>, serving' \in BOOLEAN, shutdown => ~serving'
  PROVE  ReadyInv'
  <1>1. ReadinessTypeOK'
    BY DEF ReadyInv, ReadinessTypeOK
  <1>2. VerdictFollows'
    BY DEF ReadyInv, ReadinessTypeOK, VerdictFollows
  <1> QED
    BY <1>1, <1>2 DEF ReadyInv, ProbesRemember

\* A dependency comes or goes.
LEMMA FlipKeeps ==
  ASSUME ReadyInv, NEW d \in Dependency, Ready!Flip(d)
  PROVE  ReadyInv'
  <1>1. PICK x : x = [probe[d] EXCEPT !.was = probe[d].was \/ (probe[d].stage # "none" /\ ~alive[d])]
    OBVIOUS
  <1>3. probe[d] \in [stage : {"none", "ping", "up", "down"}, was : BOOLEAN] /\ alive[d] \in BOOLEAN
    BY DEF ReadyInv, ReadinessTypeOK
  <1>4. /\ x \in [stage : {"none", "ping", "up", "down"}, was : BOOLEAN]
        /\ x.stage = probe[d].stage
        /\ x.was <=> probe[d].was \/ (probe[d].stage # "none" /\ ~alive[d])
    BY <1>1, <1>3
  <1>5. alive' = [alive EXCEPT ![d] = ~alive[d]] /\ probe' = [probe EXCEPT ![d] = x]
    BY <1>1 DEF Ready!Flip
  <1>6. x.stage # "none" /\ ~alive[d] => x.was
    BY <1>4
  <1>7. x.stage = "up" => x.was
    BY <1>4 DEF ReadyInv, ProbesRemember
  <1>8. (~alive[d]) \in BOOLEAN /\ UNCHANGED <<asking, serving, shutdown>>
    BY DEF Ready!Flip
  <1> QED
    BY <1>4, <1>5, <1>6, <1>7, <1>8, ProbeStep

\* A probe is answered, or is not.
LEMMA PingKeeps ==
  ASSUME ReadyInv, NEW d \in Dependency, Ready!Ping(d)
  PROVE  ReadyInv'
  <1>1. PICK x : /\ probe' = [probe EXCEPT ![d] = x]
                 /\ \/ alive[d] /\ x = [probe[d] EXCEPT !.stage = "up"]
                    \/ x = [probe[d] EXCEPT !.stage = "down"]
    BY DEF Ready!Ping
  <1>2. probe[d] \in [stage : {"none", "ping", "up", "down"}, was : BOOLEAN] /\ alive[d] \in BOOLEAN
        /\ alive' = [alive EXCEPT ![d] = alive[d]] /\ UNCHANGED <<asking, serving, shutdown>>
    BY DEF ReadyInv, ReadinessTypeOK, Ready!Ping
  <1>3. /\ x \in [stage : {"none", "ping", "up", "down"}, was : BOOLEAN] /\ x.was = probe[d].was
        /\ x.stage = "up" => alive[d]
    BY <1>1, <1>2
  <1>4. alive[d] => probe[d].was
    BY DEF ReadyInv, ProbesRemember, Ready!Ping
  <1> QED
    BY <1>1, <1>2, <1>3, <1>4, ProbeStep

\* A dependency is found for a caller that waits for it.
LEMMA FoundIsSound ==
  ASSUME ReadyInv, NEW c \in Caller, NEW d \in Dependency, Ready!Waiting(c, d), NEW status \in {"up", "down"},
         NEW was \in BOOLEAN, status = "up" => was, NEW x, x = Ready!Found(asking[c], d, status, was)
  PROVE  /\ x \in Asking /\ x.pc = "waiting"
         /\ x.ready => x.earned /\ \A e \in Dependency : x.found[e] # "down"
  <1>1. asking[c] \in Asking /\ asking[c].pc = "waiting"
    BY AskingKinds DEF ReadyInv, ReadinessTypeOK, Ready!Waiting
  <1>2. PICK found \in [Dependency -> {"pending", "up",
             "down"}] : found = [asking[c].found EXCEPT ![d] = status]
    BY <1>1 DEF Asking
  <1>3. PICK ready \in BOOLEAN : ready = (asking[c].ready /\ status = "up")
    OBVIOUS
  <1>4. PICK earned \in BOOLEAN : earned = (asking[c].earned /\ (status = "up" => was))
    OBVIOUS
  <1>5. x = [asking[c] EXCEPT !.found = found, !.ready = ready, !.earned = earned]
    BY <1>2, <1>3, <1>4 DEF Ready!Found
  <1>6. x \in Asking /\ x.pc = "waiting" /\ x.found = found /\ x.ready = ready /\ x.earned = earned
    BY <1>1, <1>5 DEF Asking
  <1>7. asking[c].found \in [Dependency -> {"pending", "up", "down"}]
    BY <1>1 DEF Asking
  <1>8. ready => earned /\ \A e \in Dependency : found[e] # "down"
    BY <1>1, <1>2, <1>3, <1>4, <1>7 DEF ReadyInv, VerdictFollows
  <1> QED
    BY <1>6, <1>8

\* A probe answers everybody who joined it.
LEMMA PublishKeeps ==
  ASSUME ReadyInv, NEW d \in Dependency, Ready!Publish(d)
  PROVE  ReadyInv'
  <1>1. probe[d].stage \in {"up", "down"} /\ probe[d].was \in BOOLEAN
        /\ (probe[d].stage = "up" => probe[d].was)
    BY DEF ReadyInv, ReadinessTypeOK, ProbesRemember, Ready!Publish
  <1>2. ASSUME NEW c \in Caller
        PROVE  /\ asking'[c] \in Quiet \cup Asking
               /\ \/ asking'[c] = asking[c]
                  \/ /\ asking'[c].pc = "waiting"
                     /\ asking'[c].ready => asking'[c].earned
                        /\ \A e \in Dependency : asking'[c].found[e] # "down"
    <2>1. CASE Ready!Waiting(c, d)
      BY <1>1, <2>1, FoundIsSound DEF Ready!Publish
    <2>2. CASE ~Ready!Waiting(c, d)
      BY <2>2 DEF Ready!Publish, ReadyInv, ReadinessTypeOK
    <2> QED
      BY <2>1, <2>2
  <1>3. asking' \in [Caller -> Quiet \cup Asking]
    BY <1>2 DEF Ready!Publish
  <1>4. VerdictFollows'
    BY <1>2 DEF ReadyInv, VerdictFollows
  <1>5. probe' = [probe EXCEPT ![d] = Ready!NoProbe] /\ Ready!NoProbe.stage = "none"
        /\ Ready!NoProbe \in [stage : {"none", "ping", "up", "down"}, was : BOOLEAN]
    BY DEF Ready!Publish, Ready!NoProbe
  <1>6. ProbesRemember'
    BY <1>5 DEF ReadyInv, ReadinessTypeOK, ProbesRemember, Ready!Publish
  <1>7. ReadinessTypeOK'
    BY <1>3, <1>5 DEF ReadyInv, ReadinessTypeOK, Ready!Publish
  <1> QED
    BY <1>4, <1>6, <1>7 DEF ReadyInv, Ready!Publish

\* A caller joins the probes that run, and begins the others.
LEMMA AsksKeeps ==
  ASSUME ReadyInv, NEW c \in Caller, Ready!Ready(c)
  PROVE  ReadyInv'
  <1>1. ProbesRemember' /\ probe' \in [Dependency -> [stage : {"none", "ping", "up", "down"}, was : BOOLEAN]]
    BY DEF ReadyInv, ReadinessTypeOK, ProbesRemember, Ready!Ready
  <1>2. PICK x : x = [pc |-> "waiting", found |-> [d \in Dependency |-> "pending"], ready |-> TRUE,
             earned |-> TRUE]
    OBVIOUS
  <1>3. x \in Asking /\ x.pc = "waiting" /\ x.ready /\ x.earned
        /\ \A d \in Dependency : x.found[d] = "pending"
    BY <1>2 DEF Asking
  <1>4. asking' = [asking EXCEPT ![c] = x]
    BY <1>2 DEF Ready!Ready
  <1>5. asking' \in [Caller -> Quiet \cup Asking]
    BY <1>3, <1>4 DEF ReadyInv, ReadinessTypeOK
  <1>6. VerdictFollows'
    BY <1>3, <1>4 DEF ReadyInv, ReadinessTypeOK, VerdictFollows
  <1> QED
    BY <1>1, <1>5, <1>6 DEF ReadyInv, ReadinessTypeOK, Ready!Ready

\* A caller's own timer.
LEMMA TimesOutKeeps ==
  ASSUME ReadyInv, NEW c \in Caller, NEW d \in Dependency, Ready!TimesOut(c, d)
  PROVE  ReadyInv'
  <1>1. PICK x : x = Ready!Found(asking[c], d, "down", FALSE)
    OBVIOUS
  <1>2. x \in Asking /\ x.pc = "waiting" /\ (x.ready => x.earned /\ \A e \in Dependency : x.found[e] # "down")
    BY <1>1, FoundIsSound DEF Ready!TimesOut
  <1>3. asking' = [asking EXCEPT ![c] = x] /\ UNCHANGED <<alive, probe, serving, shutdown>>
    BY <1>1 DEF Ready!TimesOut, Ready!Deadline
  <1> QED
    BY <1>2, <1>3, CallerStep DEF ReadyInv, ReadinessTypeOK

\* A caller's context ends.
LEMMA ProbeEndsKeeps ==
  ASSUME ReadyInv, NEW c \in Caller, Ready!ContextEnds(c)
  PROVE  ReadyInv'
  <1>1. asking[c] \in Asking
    BY AskingKinds DEF ReadyInv, ReadinessTypeOK, Ready!ContextEnds
  <1>2. PICK x : x = [asking[c] EXCEPT !.pc = "answered", !.ready = FALSE]
    OBVIOUS
  <1>3. x \in Asking /\ ~x.ready
    BY <1>1, <1>2 DEF Asking
  <1>4. asking' = [asking EXCEPT ![c] = x]
    BY <1>2 DEF Ready!ContextEnds
  <1> QED
    BY <1>3, <1>4, CallerStep DEF ReadyInv, ReadinessTypeOK, Ready!ContextEnds

\* Every dependency has been found.
LEMMA ProbeAnswerKeeps ==
  ASSUME ReadyInv, NEW c \in Caller, Ready!Answer(c)
  PROVE  ReadyInv'
  <1>1. asking[c] \in Asking /\ \A d \in Dependency : asking[c].found[d] # "pending"
    BY AskingKinds DEF ReadyInv, ReadinessTypeOK, Ready!Answer, Ready!Settled
  <1>2. PICK x : x = [asking[c] EXCEPT !.pc = "answered"]
    OBVIOUS
  <1>3. x \in Asking /\ x.found = asking[c].found /\ x.ready = asking[c].ready /\ x.earned = asking[c].earned
    BY <1>1, <1>2 DEF Asking
  <1>4. x.ready => x.earned /\ \A d \in Dependency : x.found[d] # "down" /\ x.found[d] = "up"
    BY <1>1, <1>3 DEF Asking, ReadyInv, VerdictFollows
  <1>5. asking' = [asking EXCEPT ![c] = x]
    BY <1>2 DEF Ready!Answer
  <1> QED
    BY <1>3, <1>4, <1>5, CallerStep DEF ReadyInv, ReadinessTypeOK, Ready!Answer

\* The publisher sets the status, unless the server has been shut down.
LEMMA UseKeeps ==
  ASSUME ReadyInv, NEW c \in Caller, Ready!Use(c)
  PROVE  ReadyInv'
  <1>1. asking[c] \in Asking
    BY AskingKinds DEF ReadyInv, ReadinessTypeOK, Ready!Use
  <1>2. serving' \in BOOLEAN /\ (shutdown => ~serving')
    BY <1>1 DEF ReadyInv, ReadinessTypeOK, Asking, Ready!Use, Ready!SetServingStatus
  <1>3. Ready!NoCaller \in Quiet /\ Ready!NoCaller \notin Asking
    BY AskingKinds DEF Ready!NoCaller, Quiet
  <1> QED
    BY <1>2, <1>3, CallerStep DEF Ready!Use

\* The server is shut down.
LEMMA StopKeeps ==
  ASSUME ReadyInv, Ready!Stop
  PROVE  ReadyInv'
  BY DEF ReadyInv, ReadinessTypeOK, ProbesRemember, VerdictFollows, Ready!Stop

\* No probes and no callers.
LEMMA ReadyInit == Ready!Init => ReadyInv
  <1> SUFFICES ASSUME Ready!Init PROVE ReadyInv
    OBVIOUS
  <1>1. \A c \in Caller : asking[c] \in Quiet /\ asking[c] \notin Asking
    BY AskingKinds DEF Ready!Init, Ready!NoCaller, Quiet
  <1> QED
    BY <1>1 DEF ReadyInv, ReadinessTypeOK, ProbesRemember, VerdictFollows, Ready!Init, Ready!NoProbe

\* Every step.
LEMMA ReadyStep == ReadyInv /\ [Ready!Next]_Ready!vars => ReadyInv'
  <1> SUFFICES ASSUME ReadyInv, [Ready!Next]_Ready!vars PROVE ReadyInv'
    OBVIOUS
  <1>1. ASSUME NEW d \in Dependency, Ready!Flip(d) \/ Ready!Ping(d) \/ Ready!Publish(d) PROVE ReadyInv'
    BY <1>1, FlipKeeps, PingKeeps, PublishKeeps
  <1>2. ASSUME NEW c \in Caller, Ready!Ready(c) \/ Ready!ContextEnds(c) \/ Ready!Answer(c) \/ Ready!Use(c)
        PROVE  ReadyInv'
    BY <1>2, AsksKeeps, ProbeEndsKeeps, ProbeAnswerKeeps, UseKeeps
  <1>3. ASSUME NEW c \in Caller, NEW d \in Dependency, Ready!TimesOut(c, d) PROVE ReadyInv'
    BY <1>3, TimesOutKeeps
  <1>4. CASE UNCHANGED Ready!vars
    BY <1>4 DEF ReadyInv, ReadinessTypeOK, ProbesRemember, VerdictFollows, Ready!vars
  <1> QED
    BY <1>1, <1>2, <1>3, <1>4, StopKeeps DEF Ready!Next

\* For any dependencies and callers.
LEMMA ReadyInvariant == Ready!Spec => []ReadyInv
  BY ReadyInit, ReadyStep, PTL DEF Ready!Spec

-----------------------------------------------------------------------------
(* The gate of requests.                                                   *)

\* What a caller may show.
Credentials == {"none", "user", "account", "psk", "bad"}

\* The stages of a capability call.
Capable == {"evaluate", "rows", "answered"}

\* The stages behind every check.
Inside == {"pin", "handled"} \cup Capable

\* The stages behind authentication.
Identified == {"gate", "authorize", "login"} \cup Inside

\* The stages of a call that has been neither rejected nor answered and left.
UnderWay == {"limit", "authenticate"} \cup Identified

\* What every call under way knows.
Base == {"stage", "route", "credential", "principal", "scheme", "must", "limited"}

\* What a capability call has pinned.
PinnedFields == {"grants", "pinned", "revision", "items"}

\* The registry is what NewServer admits, and is there before the first call.
ServedIsValid ==
    /\ served \subseteq Candidate
    /\ \A e \in served : Gate!validateEndpoint(e)
    /\ \A e, f \in served : e.route = f.route => e = f
    /\ call.stage \in UnderWay \/ hint # Gate!NoCall => served # {}

\* What the proof needs of the types.
CallTypeOK ==
    /\ mustChange \in BOOLEAN
    /\ call.stage \in {"idle", "rejected"} \cup UnderWay
    /\ call.stage \in UnderWay => Base \subseteq DOMAIN call /\ call.credential \in Credentials
       /\ call.route \in Route
    /\ call.stage \in Capable => PinnedFields \subseteq DOMAIN call
    /\ call.stage = "answered" => {"present", "rowItems"} \subseteq DOMAIN call

\* What is true now has been seen by the call.
NowIsSeen ==
    call.stage \in UnderWay => Gate!Facts(call.credential, session, mustChange, granted) \subseteq seen

\* Who a call comes from was true at some moment of it.
Verified ==
    call.stage \in Identified =>
      /\ call.credential # "bad"
      /\ call.credential = "none" => call.principal = Gate!NoPrincipal
      /\ call.credential = "user" => /\ call.principal = Gate!User /\ call.scheme = "bearer"
                                     /\ <<"session", "valid">> \in seen
                                     /\ ~call.must => <<"password", FALSE>> \in seen
      /\ call.credential = "account" => call.principal = Gate!Account /\ call.scheme = "bearer"
      /\ call.credential = "psk" => call.principal = Gate!PSK /\ call.scheme = "psk"

\* A call behind the password gate whose user must change the password is to a route that the gate
\* exempts.
GatePassed ==
    call.stage \in Identified \ {"gate"} /\ call.must => call.route.password \/ call.route.infrastructure

\* What the enforcer asks of a descriptor was true at some moment of the call.
Authorized(e) ==
    e.authentication # "public" =>
      /\ call.principal # Gate!NoPrincipal
      /\ e.authentication = "jwt" => call.scheme = "bearer"
      /\ e.authentication = "service" => call.principal.type = "service_account"
      /\ ActionScope[e.action] = "principal" \/ <<"grant", e.action>> \in seen

\* A call behind authorization has a descriptor, by which it was authorized.
Admitted ==
    call.stage \in {"login"} \cup Inside /\ ~call.route.infrastructure =>
      \E e \in served : e.route = call.route /\ Authorized(e)

\* A login is counted before its handler.
LoginsAreLimited == call.stage \in Inside /\ call.route.login => call.limited

\* The action is offered to a principal who has these grants.
Offered(grants, p, a) ==
    Gate!Resolves(a) /\ \E e \in Gate!BearerRoutes(a) : Gate!Authorize(grants, p, e.action)

\* A capability call answers from what it has pinned, and its revision is that.
AnswerIsPinned ==
    /\ call.stage \in Capable => call.revision = <<call.grants, call.pinned>>
    /\ call.stage \in Capable \ {"evaluate"} =>
         \A a \in DOMAIN call.items : call.items[a] = Offered(call.grants, call.principal, a)
    /\ call.stage = "answered" => call.rowItems = call.present \cap call.pinned

\* So was the answer that the caller still holds.
HintIsPinned ==
    hint # Gate!NoCall =>
      \E grants, pinned :
        /\ hint.revision = <<grants, pinned>>
        /\ \A a \in DOMAIN hint.items : hint.items[a] = Offered(grants, hint.principal, a)
        /\ hint.rowItems = hint.present \cap pinned

\* The inductive invariant.  GateIsSound is not inductive: what a check has found is not true any
\* more when the next one is made, and two answers agree only because both are functions of what
\* their revision digests.
GateInv ==
    /\ ServedIsValid /\ CallTypeOK /\ NowIsSeen /\ Verified /\ GatePassed /\ Admitted /\ LoginsAreLimited
    /\ AnswerIsPinned /\ HintIsPinned

-----------------------------------------------------------------------------

\* How the sets of stages lie in one another.
LEMMA GateStages ==
  /\ "idle" \notin UnderWay /\ "rejected" \notin UnderWay
  /\ Inside \subseteq Identified /\ Identified \subseteq UnderWay /\ Capable \subseteq Inside
  /\ "limit" \notin Identified /\ "authenticate" \notin Identified
     /\ {"gate", "authorize", "login"} \cap Inside = {}
  /\ "pin" \notin Capable /\ "handled" \notin Capable
  BY DEF UnderWay, Identified, Inside, Capable

\* The principals are different.
LEMMA Principals ==
  /\ Gate!User # Gate!NoPrincipal /\ Gate!Account # Gate!NoPrincipal /\ Gate!PSK # Gate!NoPrincipal
  /\ Gate!User.type = "user"
  BY DEF Gate!User, Gate!NoPrincipal, Gate!Account, Gate!PSK

\* HandlersAreGuarded follows.
LEMMA GuardedCalls == GateInv => Gate!HandlersAreGuarded
  <1> SUFFICES ASSUME GateInv, call.stage \in {"handled", "pin", "evaluate", "rows", "answered"}
               PROVE  LET e == CHOOSE d \in served : d.route = call.route IN
                      /\ call.credential # "bad"
                      /\ call.credential = "user" => <<"session", "valid">> \in seen
                      /\ call.route.login => call.limited
                      /\ call.credential = "user" /\ ~call.route.password /\ ~call.route.infrastructure =>
                            <<"password", FALSE>> \in seen
                      /\ ~call.route.infrastructure /\ e.authentication # "public" =>
                            /\ call.principal # Gate!NoPrincipal
                            /\ e.authentication = "jwt" => call.credential \in {"user", "account"}
                            /\ e.authentication = "service" => call.credential \in {"account", "psk"}
                            /\ ActionScope[e.action] = "principal" \/ <<"grant", e.action>> \in seen
    BY DEF Gate!HandlersAreGuarded
  <1>1. call.stage \in Inside /\ call.stage \in Identified \ {"gate"} /\ call.stage \in UnderWay
    BY GateStages DEF Inside, Capable
  <1>2. call.credential \in Credentials
    BY <1>1 DEF GateInv, CallTypeOK
  <1>3. CASE call.route.infrastructure
    BY <1>1, <1>3 DEF GateInv, Verified, LoginsAreLimited
  <1>4. CASE ~call.route.infrastructure
    <2>1. PICK e \in served : e.route = call.route /\ Authorized(e)
      BY <1>1, <1>4 DEF GateInv, Admitted
    <2>2. e = CHOOSE d \in served : d.route = call.route
      BY <2>1 DEF GateInv, ServedIsValid
    <2>3. call.credential = "user" /\ ~call.route.password => <<"password", FALSE>> \in seen
      BY <1>1, <1>4 DEF GateInv, Verified, GatePassed
    <2>4. /\ call.credential # "bad" /\ (call.credential = "user" => <<"session", "valid">> \in seen)
          /\ call.route.login => call.limited
      BY <1>1 DEF GateInv, Verified, LoginsAreLimited
    <2>5. ASSUME e.authentication # "public"
          PROVE  /\ call.principal # Gate!NoPrincipal
                 /\ e.authentication = "jwt" => call.credential \in {"user", "account"}
                 /\ e.authentication = "service" => call.credential \in {"account", "psk"}
                 /\ ActionScope[e.action] = "principal" \/ <<"grant", e.action>> \in seen
      <3>1. /\ call.credential = "none" => call.principal = Gate!NoPrincipal
            /\ call.credential = "psk" => call.scheme # "bearer"
            /\ call.credential = "user" => call.principal.type # "service_account"
            /\ call.credential # "bad"
        BY <1>1, Principals DEF GateInv, Verified
      <3> QED
        BY <1>2, <2>1, <2>5, <3>1 DEF Authorized, Credentials
    <2> QED
      BY <2>2, <2>3, <2>4, <2>5
  <1> QED
    BY <1>3, <1>4

\* Among the routes of an action, the ones a bearer token opens are the offered ones.
LEMMA OfferedPasses ==
  ASSUME ServedIsValid, NEW grants, NEW p, NEW a
  PROVE  Offered(grants, p, a) <=>
           \E e \in served : /\ e.action = a /\ e.authentication # "public" /\ e.route.transport = "http"
                             /\ Gate!Enforce(grants, p, "bearer", e)
  <1>1. ASSUME NEW e \in served, e.action = a, e.authentication # "public", e.route.transport = "http"
        PROVE  Gate!Enforce(grants, p, "bearer", e) <=> e.authentication = "jwt"
               /\ Gate!Authorize(grants, p, a)
    <2>1. e.authentication \in {"jwt", "psk"}
      BY <1>1, GateAssumption DEF ServedIsValid
    <2> QED
      BY <1>1, <2>1 DEF Gate!Enforce, Gate!Authorize
  <1>2. \A e \in Gate!BearerRoutes(a) :
          e \in served /\ e.action = a /\ e.authentication = "jwt" /\ e.route.transport = "http"
    BY DEF Gate!BearerRoutes, Gate!Find
  <1>3. \A e \in served : e.action = a /\ e.authentication = "jwt" /\ e.route.transport = "http" =>
          e \in Gate!BearerRoutes(a)
    BY DEF Gate!BearerRoutes, Gate!Find
  <1>4. Gate!Authorize(grants, p, a) => Gate!Resolves(a)
    BY DEF Gate!Authorize
  <1> QED
    BY <1>1, <1>2, <1>3, <1>4 DEF Offered

\* HintsMatchTheGate follows.
LEMMA MatchingHints == GateInv => Gate!HintsMatchTheGate
  <1> SUFFICES ASSUME GateInv, call.stage = "answered" PROVE Gate!HintsMatchTheGate
    BY DEF Gate!HintsMatchTheGate
  <1>1. call.stage \in Capable /\ call.stage \in Capable \ {"evaluate"}
    BY DEF Capable
  <1>2. /\ call.revision = <<call.grants, call.pinned>>
        /\ \A a \in DOMAIN call.items : call.items[a] = Offered(call.grants, call.principal, a)
        /\ call.rowItems = call.present \cap call.pinned
    BY <1>1 DEF GateInv, AnswerIsPinned
  <1>3. \A a \in DOMAIN call.items :
          call.items[a] <=> \E e \in served : /\ e.action = a /\ e.authentication # "public"
                                             /\ e.route.transport = "http"
                                             /\ Gate!Enforce(call.grants, call.principal, "bearer", e)
    BY <1>2, OfferedPasses DEF GateInv
  <1>4. ASSUME hint # Gate!NoCall, hint.principal = call.principal, hint.revision = call.revision
        PROVE  /\ \A a \in DOMAIN call.items \cap DOMAIN hint.items : call.items[a] = hint.items[a]
               /\ call.rowItems \cap hint.present = hint.rowItems \cap call.present
    <2>1. PICK grants, pinned :
            /\ hint.revision = <<grants, pinned>>
            /\ \A a \in DOMAIN hint.items : hint.items[a] = Offered(grants, hint.principal, a)
            /\ hint.rowItems = hint.present \cap pinned
      BY <1>4 DEF GateInv, HintIsPinned
    <2>2. grants = call.grants /\ pinned = call.pinned
      BY <1>2, <1>4, <2>1
    <2>3. call.rowItems \cap hint.present = hint.rowItems \cap call.present
      BY <1>2, <2>1, <2>2
    <2> QED
      BY <1>2, <1>4, <2>1, <2>2, <2>3
  <1> QED
    BY <1>3, <1>4 DEF Gate!HintsMatchTheGate

-----------------------------------------------------------------------------

\* What a step of a call carries over.
LEMMA Carried ==
  ASSUME GateInv, call.stage \in UnderWay, NEW changed, "stage" \in DOMAIN changed,
         changed.stage \in UnderWay,
         Gate!Moves(changed), "credential" \notin DOMAIN changed
  PROVE  /\ call'.stage = changed.stage
         /\ \A f \in DOMAIN changed : call'[f] = changed[f]
         /\ \A f \in DOMAIN call \ DOMAIN changed : call'[f] = call[f]
         /\ DOMAIN call' = DOMAIN changed \cup DOMAIN call
         /\ seen \subseteq seen' /\ NowIsSeen'
         /\ UNCHANGED <<served, session, mustChange, granted, policy, rows, hint>>
  <1>1. call' = [f \in DOMAIN changed \cup DOMAIN call |-> IF f \in DOMAIN changed THEN changed[f] ELSE call[f]]
    BY DEF Gate!Moves
  <1>2. call'.stage = changed.stage
    BY <1>1
  <1>3. call'.stage \notin {"idle", "rejected"}
    BY <1>2, GateStages
  <1>4. seen' = seen \cup Gate!Facts(call'.credential, session', mustChange', granted')
    BY <1>3 DEF Gate!Moves, Gate!Witness
  <1> QED
    BY <1>1, <1>2, <1>4 DEF NowIsSeen, Gate!Moves

\* What was told keeps its meaning.
LEMMA HintStays ==
  ASSUME HintIsPinned, UNCHANGED <<served, hint>>
  PROVE  HintIsPinned'
  <1>1. ASSUME NEW grants, NEW p, NEW a PROVE Offered(grants, p, a)' = Offered(grants, p, a)
    BY DEF Offered, Gate!BearerRoutes, Gate!Find
  <1> QED
    BY <1>1 DEF HintIsPinned

\* A call that goes one stage on, with what it has learnt.
LEMMA Onward ==
  ASSUME GateInv, call.stage \in Identified, NEW changed, "stage" \in DOMAIN changed,
         changed.stage \in Identified \ {"gate"},
         Gate!Moves(changed), DOMAIN changed \cap Base \subseteq {"stage", "limited"},
         "limited" \in DOMAIN changed => changed.limited,
         call.must => call.route.password \/ call.route.infrastructure,
         changed.stage \in {"login"} \cup Inside /\ ~call.route.infrastructure =>
           \E e \in served : e.route = call.route /\ Authorized(e),
         changed.stage \in Inside /\ call.route.login => call.limited \/ "limited" \in DOMAIN changed,
         changed.stage \in Capable => PinnedFields \subseteq DOMAIN changed \cup DOMAIN call,
         changed.stage = "answered" => {"present", "rowItems"} \subseteq DOMAIN changed,
         AnswerIsPinned'
  PROVE  GateInv'
  <1>1. /\ call'.stage = changed.stage
        /\ \A f \in DOMAIN changed : call'[f] = changed[f]
        /\ \A f \in DOMAIN call \ DOMAIN changed : call'[f] = call[f]
        /\ DOMAIN call' = DOMAIN changed \cup DOMAIN call
        /\ seen \subseteq seen' /\ NowIsSeen'
        /\ UNCHANGED <<served, session, mustChange, granted, policy, rows, hint>>
    <2>1. call.stage \in UnderWay /\ changed.stage \in UnderWay /\ "credential" \notin DOMAIN changed
      BY GateStages DEF Base
    <2> QED
      BY <2>1, Carried
  <1>2. call.stage \in UnderWay /\ changed.stage \in UnderWay
    BY GateStages
  <1>3. /\ call'.route = call.route /\ call'.credential = call.credential /\ call'.principal = call.principal
        /\ call'.scheme = call.scheme /\ call'.must = call.must
        /\ "limited" \in DOMAIN changed => call'.limited
        /\ "limited" \notin DOMAIN changed => call'.limited = call.limited
    <2>1. Base \subseteq DOMAIN call
      BY <1>2 DEF GateInv, CallTypeOK
    <2> QED
      BY <1>1, <2>1 DEF Base
  <1>4. CallTypeOK'
    BY <1>1, <1>2, <1>3 DEF GateInv, CallTypeOK
  <1>5. ServedIsValid'
    BY <1>1, <1>2 DEF GateInv, ServedIsValid, Gate!validateEndpoint
  <1>6. Verified'
    BY <1>1, <1>3 DEF GateInv, Verified
  <1>7. GatePassed'
    BY <1>1, <1>3 DEF GatePassed
  <1>8. \A e : Authorized(e) => Authorized(e)'
    BY <1>1, <1>3 DEF Authorized
  <1>9. Admitted'
    BY <1>1, <1>3, <1>8 DEF Admitted
  <1>10. LoginsAreLimited'
    BY <1>1, <1>3 DEF LoginsAreLimited
  <1>11. HintIsPinned'
    BY <1>1, HintStays DEF GateInv
  <1> QED
    BY <1>1, <1>4, <1>5, <1>6, <1>7, <1>9, <1>10, <1>11 DEF GateInv

\* A step by which a call ends.
LEMMA CallEnds ==
  ASSUME GateInv, call'.stage \in {"idle", "rejected"}, mustChange' \in BOOLEAN, UNCHANGED <<served, hint>>
  PROVE  GateInv'
  <1>1. call'.stage \notin UnderWay /\ call'.stage \notin Identified /\ call'.stage \notin Inside
        /\ call'.stage \notin Capable /\ call'.stage # "answered" /\ call'.stage \notin {"login"} \cup Inside
    BY GateStages DEF UnderWay, Identified, Inside, Capable
  <1>2. HintIsPinned'
    BY HintStays DEF GateInv
  <1>3. ServedIsValid'
    BY <1>1 DEF GateInv, ServedIsValid, Gate!validateEndpoint
  <1>4. CallTypeOK' /\ NowIsSeen' /\ Verified' /\ GatePassed' /\ Admitted' /\ LoginsAreLimited'
    BY <1>1 DEF CallTypeOK, NowIsSeen, Verified, GatePassed, Admitted, LoginsAreLimited
  <1>5. AnswerIsPinned'
    BY <1>1 DEF AnswerIsPinned
  <1> QED
    BY <1>2, <1>3, <1>4, <1>5 DEF GateInv

\* A call is rejected.
LEMMA RejectsKeeps == ASSUME GateInv, Gate!Rejects PROVE GateInv'
  <1>1. call'.stage = "rejected" /\ UNCHANGED <<served, hint, mustChange>>
    BY DEF Gate!Rejects
  <1>2. mustChange' \in BOOLEAN
    BY <1>1 DEF GateInv, CallTypeOK
  <1> QED
    BY <1>1, <1>2, CallEnds

\* A step before the gate: nothing has been decided about the call yet.
LEMMA Settles ==
  ASSUME GateInv, call'.stage \in {"limit", "authenticate", "gate"}, served # {}, UNCHANGED <<served, hint>>,
         CallTypeOK', NowIsSeen', Verified'
  PROVE  GateInv'
  <1>1. call'.stage \notin Identified \ {"gate"} /\ call'.stage \notin Inside /\ call'.stage \notin Capable
        /\ call'.stage # "answered" /\ call'.stage \notin {"login"} \cup Inside
    BY GateStages DEF UnderWay, Identified, Inside, Capable
  <1>2. HintIsPinned'
    BY HintStays DEF GateInv
  <1>3. ServedIsValid'
    BY <1>1 DEF GateInv, ServedIsValid, Gate!validateEndpoint
  <1>4. GatePassed' /\ Admitted' /\ LoginsAreLimited' /\ AnswerIsPinned'
    BY <1>1 DEF GatePassed, Admitted, LoginsAreLimited, AnswerIsPinned
  <1> QED
    BY <1>2, <1>3, <1>4 DEF GateInv

\* A call arrives, and sees what is true.
LEMMA ArrivesKeeps ==
  ASSUME GateInv, NEW route \in Route, NEW k \in Credentials, Gate!Arrives(route, k)
  PROVE  GateInv'
  <1> DEFINE arrived == [stage |-> "limit", route |-> route, credential |-> k,
                         principal |-> Gate!NoPrincipal, scheme |-> "", must |-> FALSE, limited |-> FALSE]
  <1>1. /\ call' = [f \in DOMAIN arrived \cup DOMAIN call |-> IF f \in DOMAIN arrived THEN arrived[f] ELSE call[f]]
        /\ UNCHANGED <<served, session, mustChange, granted, policy, rows, hint>>
        /\ Gate!Witness /\ served # {}
    BY DEF Gate!Arrives, Gate!Moves
  <1>2. DOMAIN arrived = Base
    BY DEF Base
  <1>3. call'.stage = "limit" /\ Base \subseteq DOMAIN call' /\ call'.credential = k /\ call'.route = route
    BY <1>1, <1>2 DEF Base
  <1>4. "limit" \in UnderWay /\ "limit" \notin Identified /\ "limit" \notin Capable
    BY GateStages DEF UnderWay, Capable
  <1>5. CallTypeOK' /\ Verified'
    BY <1>1, <1>3, <1>4 DEF GateInv, CallTypeOK, Verified
  <1>6. NowIsSeen'
    BY <1>1, <1>3 DEF NowIsSeen, Gate!Witness
  <1> QED
    BY <1>1, <1>3, <1>5, <1>6, Settles

\* The limiter of every route.
LEMMA RateLimitKeeps == ASSUME GateInv, Gate!rateLimit PROVE GateInv'
  <1>1. CASE Gate!Rejects
    BY <1>1, RejectsKeeps
  <1>2. CASE Gate!Moves([stage |-> "authenticate"])
    <2> DEFINE changed == [stage |-> "authenticate"]
    <2>1. /\ call.stage \in UnderWay /\ changed.stage = "authenticate" /\ DOMAIN changed = {"stage"}
          /\ changed.stage \in UnderWay /\ changed.stage \notin Identified /\ changed.stage \notin Capable
      BY DEF Gate!rateLimit, UnderWay, Identified, Inside, Capable
    <2>2. /\ call'.stage = "authenticate"
          /\ \A f \in DOMAIN call \ DOMAIN changed : call'[f] = call[f]
          /\ DOMAIN call' = DOMAIN changed \cup DOMAIN call
          /\ NowIsSeen' /\ UNCHANGED <<served, hint, mustChange>>
      BY <1>2, <2>1, Carried
    <2>3. /\ Base \subseteq DOMAIN call /\ call.credential \in Credentials /\ call.route \in Route
             /\ served # {}
      BY <2>1 DEF GateInv, CallTypeOK, ServedIsValid
    <2>4. call'.credential = call.credential /\ call'.route = call.route /\ Base \subseteq DOMAIN call'
      BY <2>1, <2>2, <2>3 DEF Base
    <2>5. CallTypeOK' /\ Verified'
      BY <2>1, <2>2, <2>3, <2>4 DEF GateInv, CallTypeOK, Verified
    <2> QED
      BY <2>2, <2>3, <2>5, Settles
  <1> QED
    BY <1>1, <1>2 DEF Gate!rateLimit

\* Who a call comes from, once the credential is verified.
LEMMA AuthenticatesKeeps ==
  ASSUME GateInv, call.stage = "authenticate", call.credential # "bad", NEW p, NEW scheme,
         Gate!Authenticates(p, scheme),
         call.credential = "none" => p = Gate!NoPrincipal,
         call.credential = "user" => p = Gate!User /\ scheme = "bearer" /\ session = "valid",
         call.credential = "account" => p = Gate!Account /\ scheme = "bearer",
         call.credential = "psk" => p = Gate!PSK /\ scheme = "psk"
  PROVE  GateInv'
  <1> DEFINE must == p = Gate!User /\ mustChange
             changed == [stage |-> "gate", principal |-> p, scheme |-> scheme, must |-> must]
  <1>1. /\ call.stage \in UnderWay /\ changed.stage = "gate"
           /\ DOMAIN changed = {"stage", "principal", "scheme", "must"}
        /\ changed.stage \in UnderWay /\ changed.stage \notin Capable /\ Gate!Moves(changed)
    BY DEF UnderWay, Identified, Capable, Gate!Authenticates
  <1>2. /\ call'.stage = "gate"
        /\ \A f \in DOMAIN changed : call'[f] = changed[f]
        /\ \A f \in DOMAIN call \ DOMAIN changed : call'[f] = call[f]
        /\ DOMAIN call' = DOMAIN changed \cup DOMAIN call
        /\ seen \subseteq seen'
        /\ NowIsSeen' /\ UNCHANGED <<served, session, mustChange, granted, hint>>
    BY <1>1, Carried
  <1>3. /\ Base \subseteq DOMAIN call /\ call.credential \in Credentials /\ call.route \in Route
           /\ served # {}
        /\ Gate!Facts(call.credential, session, mustChange, granted) \subseteq seen
    BY <1>1 DEF GateInv, CallTypeOK, ServedIsValid, NowIsSeen
  <1>4. /\ call'.credential = call.credential /\ call'.route = call.route /\ Base \subseteq DOMAIN call'
        /\ call'.principal = p /\ call'.scheme = scheme /\ call'.must = must
    BY <1>1, <1>2, <1>3 DEF Base
  <1>5. CallTypeOK'
    BY <1>1, <1>2, <1>3, <1>4 DEF GateInv, CallTypeOK
  <1>6. call.credential = "user" => <<"session", "valid">> \in seen'
        /\ (~must => <<"password", FALSE>> \in seen')
    <2>1. ASSUME call.credential = "user" PROVE <<"session", session>> \in seen'
                 /\ <<"password", mustChange>> \in seen'
      BY <1>2, <1>3, <2>1 DEF Gate!Facts
    <2>2. ASSUME call.credential = "user" PROVE session = "valid" /\ must = mustChange
                 /\ mustChange \in BOOLEAN
      BY <2>2 DEF GateInv, CallTypeOK
    <2> QED
      BY <2>1, <2>2
  <1>7. Verified'
    BY <1>2, <1>4, <1>6 DEF Verified
  <1> QED
    BY <1>2, <1>3, <1>5, <1>7, Settles

\* Authentication, by each kind of credential.
LEMMA AuthenticationKeeps == ASSUME GateInv, Gate!DatabaseAuthentication PROVE GateInv'
  <1>1. CASE Gate!Rejects
    BY <1>1, RejectsKeeps
  <1>2. CASE call.credential = "none" /\ Gate!Authenticates(Gate!NoPrincipal, "")
    BY <1>2, AuthenticatesKeeps DEF Gate!DatabaseAuthentication
  <1>3. CASE call.credential = "user" /\ session = "valid" /\ Gate!Authenticates(Gate!User, "bearer")
    BY <1>3, AuthenticatesKeeps DEF Gate!DatabaseAuthentication
  <1>4. CASE call.credential = "account" /\ Gate!Authenticates(Gate!Account, "bearer")
    BY <1>4, AuthenticatesKeeps DEF Gate!DatabaseAuthentication
  <1>5. CASE call.credential = "psk" /\ Gate!Authenticates(Gate!PSK, "psk")
    BY <1>5, AuthenticatesKeeps DEF Gate!DatabaseAuthentication
  <1> QED
    BY <1>1, <1>2, <1>3, <1>4, <1>5 DEF Gate!DatabaseAuthentication

\* A step that is not the answer of a capability call pins nothing.
LEMMA NothingPinned == ASSUME call'.stage \notin Capable PROVE AnswerIsPinned'
  <1>1. call'.stage # "answered"
    BY DEF Capable
  <1> QED
    BY <1>1 DEF AnswerIsPinned

\* The password gate.
LEMMA PasswordGateKeeps == ASSUME GateInv, Gate!PasswordChangeGate PROVE GateInv'
  <1>1. CASE Gate!Rejects
    BY <1>1, RejectsKeeps
  <1>2. CASE ~(call.must /\ ~call.route.password /\ ~call.route.infrastructure)
             /\ Gate!Moves([stage |-> "authorize"])
    <2> DEFINE changed == [stage |-> "authorize"]
    <2>1. /\ call.stage \in Identified /\ call.stage \in UnderWay /\ changed.stage = "authorize"
             /\ DOMAIN changed = {"stage"}
          /\ changed.stage \in Identified \ {"gate"} /\ changed.stage \in UnderWay
             /\ changed.stage \notin Capable
          /\ changed.stage \notin Inside /\ changed.stage \notin {"login"} \cup Inside
             /\ changed.stage # "answered"
      BY DEF Gate!PasswordChangeGate, UnderWay, Identified, Inside, Capable
    <2>2. call'.stage = "authorize"
      BY <1>2, <2>1, Carried
    <2>3. AnswerIsPinned'
      BY <2>1, <2>2, NothingPinned
    <2>4. DOMAIN changed \cap Base \subseteq {"stage", "limited"} /\ "limited" \notin DOMAIN changed
      BY <2>1
    <2> HIDE DEF changed
    <2> QED
      BY <1>2, <2>1, <2>3, <2>4, Onward DEF changed
  <1> QED
    BY <1>1, <1>2 DEF Gate!PasswordChangeGate

\* What the enforcer lets through holds its grant now, and so at some moment of this call.
LEMMA EnforcedIsAuthorized ==
  ASSUME GateInv, call.stage \in Identified, NEW e,
         Gate!Enforce(Gate!Grants(call.principal), call.principal, call.scheme, e)
  PROVE  Authorized(e)
  <1> SUFFICES ASSUME e.authentication # "public" PROVE Authorized(e)
    BY DEF Authorized
  <1>1. /\ call.principal # Gate!NoPrincipal
        /\ e.authentication = "jwt" => call.scheme = "bearer"
        /\ e.authentication = "service" => call.principal.type = "service_account"
        /\ ActionScope[e.action] = "principal" \/ e.action \in granted[call.principal]
    BY DEF Gate!Enforce, Gate!Authorize, Gate!Grants
  <1>2. call.credential \in {"user", "account", "psk"} /\ Gate!Facts(call.credential, session, mustChange,
        granted) \subseteq seen
    BY <1>1, GateStages DEF GateInv, CallTypeOK, Verified, NowIsSeen, Credentials
  <1>3. ASSUME e.action \in granted[call.principal]
             PROVE <<"grant", e.action>> \in Gate!Facts(call.credential, session, mustChange, granted)
    BY <1>2, <1>3 DEF GateInv, Verified, Gate!Facts
  <1> QED
    BY <1>1, <1>2, <1>3 DEF Authorized

\* Operation authorization.
LEMMA AuthorizationKeeps == ASSUME GateInv, Gate!operationAuthorization PROVE GateInv'
  <1>1. CASE Gate!Rejects
    BY <1>1, RejectsKeeps
  <1>2. ASSUME NEW next \in {"pin", "login", "handled"}, Gate!Moves([stage |-> next]),
               call.stage = "authorize",
               next = "handled" => ~call.route.login, next = "pin" => call.route.capability,
               \/ call.route.infrastructure
               \/ \E e \in Gate!Lookup(call.route) : Gate!Enforce(Gate!Grants(call.principal),
                  call.principal, call.scheme, e)
        PROVE  GateInv'
    <2> DEFINE changed == [stage |-> next]
    <2>1. /\ call.stage \in Identified /\ call.stage \in UnderWay /\ changed.stage = next
             /\ DOMAIN changed = {"stage"}
          /\ changed.stage \in Identified \ {"gate"} /\ changed.stage \in UnderWay
             /\ changed.stage \notin Capable
          /\ changed.stage # "answered" /\ (changed.stage = "login" => changed.stage \notin Inside)
      BY <1>2 DEF UnderWay, Identified, Inside, Capable
    <2>2. call'.stage = next
      BY <1>2, <2>1, Carried
    <2>3. AnswerIsPinned'
      BY <2>1, <2>2, NothingPinned
    <2>4. DOMAIN changed \cap Base \subseteq {"stage", "limited"} /\ "limited" \notin DOMAIN changed
      BY <2>1
    <2>5. call.must => call.route.password \/ call.route.infrastructure
      BY <1>2, <2>1 DEF GateInv, GatePassed
    <2>6. ~call.route.infrastructure => \E e \in served : e.route = call.route /\ Authorized(e)
      BY <1>2, <2>1, EnforcedIsAuthorized DEF Gate!Lookup
    <2>7. changed.stage \in Inside => ~call.route.login
      BY <1>2, <2>1, GateAssumption DEF GateInv, CallTypeOK
    <2> HIDE DEF changed
    <2> QED
      BY <1>2, <2>1, <2>3, <2>4, <2>5, <2>6, <2>7, Onward DEF changed
  <1>3. CASE Gate!Moves([stage |-> CASE call.route.capability -> "pin"
                                   [] call.route.login -> "login"
                                   [] OTHER -> "handled"])
             /\ \/ call.route.infrastructure
                \/ \E e \in Gate!Lookup(call.route) : Gate!Enforce(Gate!Grants(call.principal),
                   call.principal, call.scheme, e)
    <2>1. call.stage = "authorize" /\ call.route \in Route
      BY DEF Gate!operationAuthorization, GateInv, CallTypeOK, UnderWay, Identified
    <2>2. PICK next \in {"pin", "login", "handled"} :
            next = CASE call.route.capability -> "pin" [] call.route.login -> "login" [] OTHER -> "handled"
      OBVIOUS
    <2>3. (next = "handled" => ~call.route.login) /\ (next = "pin" => call.route.capability)
      BY <2>2
    <2>4. Gate!Moves([stage |-> next])
      BY <1>3, <2>2
    <2> QED
      BY <1>2, <1>3, <2>1, <2>3, <2>4
  <1> QED
    BY <1>1, <1>3 DEF Gate!operationAuthorization

\* The limiter of logins.
LEMMA LoginLimitKeeps == ASSUME GateInv, Gate!LoginRateLimit PROVE GateInv'
  <1>1. CASE Gate!Rejects
    BY <1>1, RejectsKeeps
  <1>2. CASE Gate!Moves([stage |-> "handled", limited |-> TRUE])
    <2> DEFINE changed == [stage |-> "handled", limited |-> TRUE]
    <2>1. /\ call.stage = "login" /\ call.stage \in Identified \ {"gate"} /\ call.stage \in UnderWay
          /\ changed.stage = "handled" /\ DOMAIN changed = {"stage", "limited"} /\ changed.limited
          /\ changed.stage \in Identified \ {"gate"} /\ changed.stage \in UnderWay
             /\ changed.stage \notin Capable
          /\ changed.stage # "answered" /\ "credential" \notin DOMAIN changed
      BY DEF Gate!LoginRateLimit, UnderWay, Identified, Inside, Capable
    <2>2. call'.stage = "handled"
      BY <1>2, <2>1, Carried
    <2>3. AnswerIsPinned'
      BY <2>1, <2>2, NothingPinned
    <2>4. call.must => call.route.password \/ call.route.infrastructure
      BY <2>1 DEF GateInv, GatePassed
    <2>5. ~call.route.infrastructure => \E e \in served : e.route = call.route /\ Authorized(e)
      BY <2>1 DEF GateInv, Admitted
    <2>6. DOMAIN changed \cap Base \subseteq {"stage", "limited"}
      BY <2>1
    <2> HIDE DEF changed
    <2> QED
      BY <1>2, <2>1, <2>3, <2>4, <2>5, <2>6, Onward DEF changed
  <1> QED
    BY <1>1, <1>2 DEF Gate!LoginRateLimit

\* A call is answered, and its caller may keep the answer.
LEMMA LeavesKeeps == ASSUME GateInv, Gate!Leaves PROVE GateInv'
  <1>1. /\ call'.stage = "idle" /\ UNCHANGED <<served, mustChange>> /\ mustChange' \in BOOLEAN
        /\ UNCHANGED <<session, granted>>
    BY DEF Gate!Leaves, Gate!NoCall, GateInv, CallTypeOK
  <1>2. CASE hint' = hint
    BY <1>1, <1>2, CallEnds
  <1>3. CASE call.stage = "answered"
            /\ hint' = [f \in {"principal", "revision", "items", "present", "rowItems"} |-> call[f]]
    <2>1. call.stage \in Capable /\ call.stage \in Capable \ {"evaluate"} /\ call.stage \in UnderWay
      BY <1>3, GateStages DEF Capable
    <2>2. /\ hint'.principal = call.principal /\ hint'.revision = call.revision /\ hint'.items = call.items
          /\ hint'.present = call.present /\ hint'.rowItems = call.rowItems
      BY <1>3
    <2>3. ASSUME NEW grants, NEW p, NEW a PROVE Offered(grants, p, a)' = Offered(grants, p, a)
      BY <1>1 DEF Offered, Gate!BearerRoutes, Gate!Find
    <2>4. /\ call.revision = <<call.grants, call.pinned>>
          /\ \A a \in DOMAIN call.items : call.items[a] = Offered(call.grants, call.principal, a)
          /\ call.rowItems = call.present \cap call.pinned
      BY <1>3, <2>1 DEF GateInv, AnswerIsPinned
    <2>5. HintIsPinned'
      BY <2>2, <2>3, <2>4 DEF HintIsPinned
    <2>6. call'.stage \notin UnderWay /\ call'.stage \notin Identified /\ call'.stage \notin Inside
          /\ call'.stage \notin Capable /\ call'.stage # "answered"
             /\ call'.stage \notin {"login"} \cup Inside
      BY <1>1, GateStages DEF UnderWay, Identified, Inside, Capable
    <2>7. ServedIsValid'
      BY <1>1, <2>1 DEF GateInv, ServedIsValid, Gate!validateEndpoint
    <2>8. CallTypeOK'
      BY <1>1, <2>6 DEF CallTypeOK
    <2>9. NowIsSeen' /\ Verified' /\ GatePassed' /\ Admitted' /\ LoginsAreLimited'
      BY <2>6 DEF NowIsSeen, Verified, GatePassed, Admitted, LoginsAreLimited
    <2>10. AnswerIsPinned'
      BY <2>6 DEF AnswerIsPinned
    <2> QED
      BY <2>5, <2>7, <2>8, <2>9, <2>10 DEF GateInv
  <1> QED
    BY <1>2, <1>3 DEF Gate!Leaves

\* A step of a capability call, which has passed every check.
LEMMA CapabilityStep ==
  ASSUME GateInv, call.stage \in Inside, NEW changed, "stage" \in DOMAIN changed, changed.stage \in Capable,
         Gate!Moves(changed), DOMAIN changed \cap Base = {"stage"},
         PinnedFields \subseteq DOMAIN changed \cup DOMAIN call,
         changed.stage = "answered" => {"present", "rowItems"} \subseteq DOMAIN changed,
         AnswerIsPinned'
  PROVE  GateInv'
  <1>1. /\ call.stage \in Identified \ {"gate"} /\ call.stage \in {"login"} \cup Inside
        /\ changed.stage \in Identified \ {"gate"} /\ changed.stage \in Inside
    BY GateStages
  <1>2. call.must => call.route.password \/ call.route.infrastructure
    BY <1>1 DEF GateInv, GatePassed
  <1>3. ~call.route.infrastructure => \E e \in served : e.route = call.route /\ Authorized(e)
    BY <1>1 DEF GateInv, Admitted
  <1>4. call.route.login => call.limited
    BY DEF GateInv, LoginsAreLimited
  <1>5. "limited" \notin DOMAIN changed
    BY DEF Base
  <1> QED
    BY <1>1, <1>2, <1>3, <1>4, <1>5, Onward

\* The grants and the policy are pinned.
LEMMA ForRequestKeeps == ASSUME GateInv, Gate!ForRequest PROVE GateInv'
  <1> DEFINE changed == [stage |-> "evaluate", grants |-> granted[call.principal], pinned |-> policy,
                items |-> <<>>,
                         revision |-> <<granted[call.principal], policy>>]
  <1>1. /\ call.stage \in Inside /\ call.stage \in UnderWay /\ changed.stage = "evaluate"
           /\ changed.stage \in Capable
        /\ changed.stage \in UnderWay /\ DOMAIN changed = {"stage", "grants", "pinned", "items", "revision"}
        /\ Gate!Moves(changed) /\ "credential" \notin DOMAIN changed
    BY DEF Gate!ForRequest, UnderWay, Identified, Inside, Capable
  <1>2. call'.stage = "evaluate" /\ \A f \in DOMAIN changed : call'[f] = changed[f]
    BY <1>1, Carried
  <1>3. call'.grants = changed.grants /\ call'.pinned = changed.pinned /\ call'.revision = changed.revision
    BY <1>1, <1>2
  <1>4. AnswerIsPinned'
    BY <1>2, <1>3 DEF AnswerIsPinned
  <1>5. DOMAIN changed \cap Base = {"stage"} /\ PinnedFields \subseteq DOMAIN changed
    BY <1>1 DEF Base, PinnedFields
  <1> HIDE DEF changed
  <1> QED
    BY <1>1, <1>4, <1>5, CapabilityStep DEF changed

\* The actions are decided under the pinned grants.
LEMMA EvaluateKeeps == ASSUME GateInv, NEW actions, NEW navigation, Gate!Evaluate(actions, navigation)
  PROVE GateInv'
  <1>1. CASE Gate!Rejects
    BY <1>1, RejectsKeeps
  <1> DEFINE items == [a \in actions |-> Gate!Resolves(a) /\ Gate!evaluateOperation(a)]
             changed == [stage |-> "rows", items |-> items]
  <1>2. CASE Gate!Moves(changed)
    <2>1. /\ call.stage = "evaluate" /\ call.stage \in Inside /\ call.stage \in Capable
             /\ call.stage \in UnderWay
          /\ changed.stage = "rows" /\ changed.stage \in Capable /\ changed.stage \in UnderWay
          /\ DOMAIN changed = {"stage", "items"} /\ "credential" \notin DOMAIN changed
      BY DEF Gate!Evaluate, UnderWay, Identified, Inside, Capable
    <2>2. /\ call'.stage = "rows" /\ \A f \in DOMAIN changed : call'[f] = changed[f]
          /\ \A f \in DOMAIN call \ DOMAIN changed : call'[f] = call[f]
          /\ UNCHANGED served
      BY <1>2, <2>1, Carried
    <2>3. Base \subseteq DOMAIN call /\ PinnedFields \subseteq DOMAIN call
      BY <2>1 DEF GateInv, CallTypeOK
    <2>4. /\ call'.items = items /\ call'.grants = call.grants /\ call'.pinned = call.pinned
          /\ call'.revision = call.revision /\ call'.principal = call.principal
      BY <2>1, <2>2, <2>3 DEF Base, PinnedFields
    <2>5. ASSUME NEW a \in actions PROVE items[a] = Offered(call.grants, call.principal, a)
      BY DEF Offered, Gate!evaluateOperation
    <2>6. ASSUME NEW grants, NEW p, NEW a PROVE Offered(grants, p, a)' = Offered(grants, p, a)
      BY <2>2 DEF Offered, Gate!BearerRoutes, Gate!Find
    <2>7. /\ call'.revision = <<call'.grants, call'.pinned>>
          /\ \A a \in DOMAIN call'.items : call'.items[a] = Offered(call.grants, call.principal, a)
      BY <2>1, <2>4, <2>5 DEF GateInv, AnswerIsPinned
    <2>8. \A a \in DOMAIN call'.items : call'.items[a] = Offered(call.grants, call.principal, a)'
      BY <2>4, <2>6, <2>7
    <2>9. AnswerIsPinned'
      BY <2>2, <2>7, <2>8 DEF AnswerIsPinned
    <2>10. DOMAIN changed \cap Base = {"stage"}
      BY <2>1 DEF Base
    <2> HIDE DEF changed
    <2> QED
      BY <1>2, <2>1, <2>3, <2>9, <2>10, CapabilityStep
  <1> QED
    BY <1>1, <1>2 DEF Gate!Evaluate

\* The rows are decided under the pinned policy.
LEMMA EvaluateRowsKeeps == ASSUME GateInv, Gate!EvaluateRows PROVE GateInv'
  <1> DEFINE changed == [stage |-> "answered", present |-> rows, rowItems |-> rows \cap call.pinned]
  <1>1. /\ call.stage = "rows" /\ call.stage \in Inside /\ call.stage \in Capable \ {"evaluate"}
           /\ call.stage \in UnderWay
        /\ changed.stage = "answered" /\ changed.stage \in Capable /\ changed.stage \in UnderWay
        /\ DOMAIN changed = {"stage", "present", "rowItems"} /\ "credential" \notin DOMAIN changed
        /\ Gate!Moves(changed)
    BY DEF Gate!EvaluateRows, UnderWay, Identified, Inside, Capable
  <1>2. /\ call'.stage = "answered" /\ \A f \in DOMAIN changed : call'[f] = changed[f]
        /\ \A f \in DOMAIN call \ DOMAIN changed : call'[f] = call[f]
        /\ UNCHANGED served
    BY <1>1, Carried
  <1>3. Base \subseteq DOMAIN call /\ PinnedFields \subseteq DOMAIN call
    BY <1>1 DEF GateInv, CallTypeOK
  <1>4. /\ call'.items = call.items /\ call'.grants = call.grants /\ call'.pinned = call.pinned
        /\ call'.revision = call.revision /\ call'.principal = call.principal
        /\ call'.present = rows /\ call'.rowItems = rows \cap call.pinned
    BY <1>1, <1>2, <1>3 DEF Base, PinnedFields
  <1>5. ASSUME NEW grants, NEW p, NEW a PROVE Offered(grants, p, a)' = Offered(grants, p, a)
    BY <1>2 DEF Offered, Gate!BearerRoutes, Gate!Find
  <1>6. /\ call'.revision = <<call'.grants, call'.pinned>> /\ call'.rowItems = call'.present \cap call'.pinned
        /\ \A a \in DOMAIN call'.items : call'.items[a] = Offered(call.grants, call.principal, a)
    BY <1>1, <1>4 DEF GateInv, AnswerIsPinned
  <1>7. \A a \in DOMAIN call'.items : call'.items[a] = Offered(call.grants, call.principal, a)'
    BY <1>4, <1>5, <1>6
  <1>8. AnswerIsPinned'
    BY <1>2, <1>6, <1>7 DEF AnswerIsPinned
  <1>9. DOMAIN changed \cap Base = {"stage"} /\ {"present", "rowItems"} \subseteq DOMAIN changed
    BY <1>1 DEF Base
  <1> HIDE DEF changed
  <1> QED
    BY <1>1, <1>3, <1>8, <1>9, CapabilityStep

\* What changes elsewhere adds to what was seen, and changes nothing the call has learnt.
LEMMA ElsewhereKeeps ==
  ASSUME GateInv, UNCHANGED <<served, call, hint>>, mustChange' \in BOOLEAN, Gate!Witness
  PROVE  GateInv'
  <1>1. CASE call.stage \in {"idle", "rejected"}
    BY <1>1, CallEnds
  <1>2. CASE call.stage \in UnderWay
    <2>1. call'.stage \notin {"idle", "rejected"}
      BY <1>2, GateStages
    <2>2. seen' = seen \cup Gate!Facts(call'.credential, session', mustChange', granted')
      BY <2>1 DEF Gate!Witness
    <2>3. ServedIsValid' /\ CallTypeOK' /\ GatePassed' /\ LoginsAreLimited'
      BY DEF GateInv, ServedIsValid, CallTypeOK, GatePassed, LoginsAreLimited, Gate!validateEndpoint
    <2>4. NowIsSeen' /\ Verified'
      BY <2>2 DEF GateInv, NowIsSeen, Verified
    <2>5. ASSUME NEW e, Authorized(e) PROVE Authorized(e)'
      BY <2>2, <2>5 DEF Authorized
    <2>6. Admitted'
      BY <2>5 DEF GateInv, Admitted
    <2>7. ASSUME NEW grants, NEW p, NEW a PROVE Offered(grants, p, a)' = Offered(grants, p, a)
      BY DEF Offered, Gate!BearerRoutes, Gate!Find
    <2>8. AnswerIsPinned'
      BY <2>7 DEF GateInv, AnswerIsPinned
    <2>9. HintIsPinned'
      BY HintStays DEF GateInv
    <2> QED
      BY <2>3, <2>4, <2>6, <2>8, <2>9 DEF GateInv
  <1> QED
    BY <1>1, <1>2 DEF GateInv, CallTypeOK

\* A server starts.
LEMMA NewServerKeeps == ASSUME GateInv, NEW defs \in SUBSET Candidate, Gate!NewServer(defs) PROVE GateInv'
  <1>1. /\ served = {} /\ served' = defs /\ defs # {} /\ Gate!NewEndpointRegistry(defs)
        /\ UNCHANGED <<session, mustChange, granted, policy, rows, call, seen, hint>>
    BY DEF Gate!NewServer
  <1>2. call.stage \notin UnderWay /\ hint = Gate!NoCall
    BY <1>1 DEF GateInv, ServedIsValid
  <1>3. call.stage \notin Identified /\ call.stage \notin Inside /\ call.stage \notin Capable
        /\ call.stage # "answered"
        /\ call.stage \notin {"login"} \cup Inside
    BY <1>2, GateStages DEF UnderWay, Identified, Inside, Capable
  <1>4. ServedIsValid'
    BY <1>1, <1>2 DEF ServedIsValid, Gate!NewEndpointRegistry, Gate!validateEndpoint
  <1>5. CallTypeOK'
    BY <1>1 DEF GateInv, CallTypeOK
  <1>6. NowIsSeen' /\ Verified' /\ GatePassed' /\ Admitted' /\ LoginsAreLimited'
    BY <1>1, <1>2, <1>3 DEF NowIsSeen, Verified, GatePassed, Admitted, LoginsAreLimited
  <1>7. AnswerIsPinned' /\ HintIsPinned'
    BY <1>1, <1>2, <1>3 DEF AnswerIsPinned, HintIsPinned
  <1> QED
    BY <1>4, <1>5, <1>6, <1>7 DEF GateInv

\* Every step.
LEMMA GateStep == GateInv /\ [Gate!Next]_(Gate!vars) => GateInv'
  <1> SUFFICES ASSUME GateInv, [Gate!Next]_(Gate!vars) PROVE GateInv'
    OBVIOUS
  <1>1. ASSUME NEW defs \in SUBSET Candidate, Gate!NewServer(defs) PROVE GateInv'
    BY <1>1, NewServerKeeps
  <1>2. ASSUME NEW route \in Route, NEW k \in {"none", "user", "account", "psk", "bad"},
               Gate!Arrives(route, k)
        PROVE  GateInv'
    BY <1>2, ArrivesKeeps DEF Credentials
  <1>3. CASE Gate!rateLimit \/ Gate!DatabaseAuthentication \/ Gate!PasswordChangeGate
             \/ Gate!operationAuthorization
             \/ Gate!LoginRateLimit \/ Gate!Leaves \/ Gate!ForRequest \/ Gate!EvaluateRows
    BY <1>3, RateLimitKeeps, AuthenticationKeeps, PasswordGateKeeps, AuthorizationKeeps,
       LoginLimitKeeps, LeavesKeeps,
       ForRequestKeeps, EvaluateRowsKeeps
  <1>4. CASE Gate!ContextEnds
    BY <1>4, RejectsKeeps DEF Gate!ContextEnds
  <1>5. ASSUME NEW actions, NEW navigation, Gate!Evaluate(actions, navigation) PROVE GateInv'
    BY <1>5, EvaluateKeeps
  <1>6. CASE Gate!Elsewhere /\ mustChange' \in {mustChange, ~mustChange}
    <2>1. UNCHANGED <<served, call, hint>> /\ Gate!Witness
      BY <1>6 DEF Gate!Elsewhere
    <2>2. mustChange' \in BOOLEAN
      BY <1>6 DEF GateInv, CallTypeOK
    <2> QED
      BY <2>1, <2>2, ElsewhereKeeps
  <1>7. CASE Gate!Revoked \/ Gate!PasswordReset
    BY <1>6, <1>7 DEF Gate!Revoked, Gate!PasswordReset
  <1>8. ASSUME NEW p, NEW g, Gate!GrantsChange(p, g) PROVE GateInv'
    BY <1>6, <1>8 DEF Gate!GrantsChange
  <1>9. ASSUME NEW t, Gate!PolicyRefreshed(t) \/ Gate!RowsChange(t) PROVE GateInv'
    BY <1>6, <1>9 DEF Gate!PolicyRefreshed, Gate!RowsChange
  <1>10. CASE UNCHANGED Gate!vars
    <2>1. UNCHANGED <<served, session, mustChange, granted, policy, rows, call, seen, hint>>
      BY <1>10 DEF Gate!vars
    <2>2. ServedIsValid'
      BY <2>1 DEF GateInv, ServedIsValid, Gate!validateEndpoint
    <2>7. CallTypeOK' /\ Verified'
      BY <2>1 DEF GateInv, CallTypeOK, Verified
    <2>8. GatePassed' /\ LoginsAreLimited'
      BY <2>1 DEF GateInv, GatePassed, LoginsAreLimited
    <2>6. NowIsSeen'
      BY <2>1 DEF GateInv, NowIsSeen, Gate!Facts
    <2>3. Admitted'
      BY <2>1 DEF GateInv, Admitted, Authorized
    <2>4. ASSUME NEW grants, NEW p, NEW a PROVE Offered(grants, p, a)' = Offered(grants, p, a)
      BY <2>1 DEF Offered, Gate!BearerRoutes, Gate!Find
    <2>5. AnswerIsPinned' /\ HintIsPinned'
      BY <2>1, <2>4, HintStays DEF GateInv, AnswerIsPinned
    <2> QED
      BY <2>2, <2>3, <2>5, <2>6, <2>7, <2>8 DEF GateInv
  <1> QED
    BY <1>1, <1>2, <1>3, <1>4, <1>5, <1>7, <1>8, <1>9, <1>10 DEF Gate!Next

\* No server and no call.
LEMMA GateStarts == Gate!Init => GateInv
  <1> SUFFICES ASSUME Gate!Init PROVE GateInv
    OBVIOUS
  <1>1. served = {} /\ call.stage = "idle" /\ hint = Gate!NoCall /\ mustChange \in BOOLEAN
    BY DEF Gate!Init, Gate!NoCall
  <1>2. call.stage \notin UnderWay /\ call.stage \notin Identified /\ call.stage \notin Inside
        /\ call.stage \notin Capable /\ call.stage # "answered" /\ call.stage \notin {"login"} \cup Inside
    BY <1>1, GateStages DEF UnderWay, Identified, Inside, Capable
  <1>3. ServedIsValid /\ CallTypeOK
    BY <1>1, <1>2 DEF ServedIsValid, CallTypeOK
  <1>4. NowIsSeen /\ Verified /\ GatePassed /\ Admitted /\ LoginsAreLimited
    BY <1>2 DEF NowIsSeen, Verified, GatePassed, Admitted, LoginsAreLimited
  <1>5. AnswerIsPinned /\ HintIsPinned
    BY <1>1, <1>2 DEF AnswerIsPinned, HintIsPinned
  <1> QED
    BY <1>3, <1>4, <1>5 DEF GateInv

\* The invariant holds for any routes, descriptors, principals, rows and settings.
THEOREM GateInvariant == Gate!Spec => []GateInv
  <1> QED
    BY GateStarts, GateStep, PTL DEF Gate!Spec

-----------------------------------------------------------------------------
(* The properties that the runs check.                                     *)

\* RequestsAreAnswered: a kept answer is real and replayed as it was given, and a success is given
\* exactly for a committed change, whatever crashes, times out or is retried (the idempotency
\* middleware and the handlers' transactions).
THEOREM RequestsAnswered == Keys!Spec /\ Handlers!Spec => []RequestsAreAnswered
  <1>1. KeysInv => Keys!AnswersAreKept
    BY AnswersKept
  <1>2. MutationInv => Handlers!ChangesAreAnswered
    BY DEF MutationInv
  <1>3. (Keys!AnswersAreKept /\ Handlers!ChangesAreAnswered) => RequestsAreAnswered
    BY DEF RequestsAreAnswered
  <1> QED
    BY <1>1, <1>2, <1>3, KeysInvariant, MutationInvariant, PTL

\* GateIsSound: a handler runs only for a call that deserved it, and what a caller was told it may do
\* is what the gate decides (the interceptors and middlewares of both transports).
THEOREM GateSound == Gate!Spec => []Gate!GateIsSound
  <1>1. GateInv => Gate!GateIsSound
    BY GuardedCalls, MatchingHints DEF Gate!GateIsSound
  <1> QED
    BY <1>1, GateInvariant, PTL

\* CallsAreSound: calls that come in are admitted as they deserve, calls that go out are resent only
\* where it is safe, and a replica is reported ready when a probe found it so.
THEOREM CallsSound == Gate!Spec /\ Upstream!Spec /\ Ready!Spec => []CallsAreSound
  <1>1. CallsInv => Upstream!OutboundIsSound
    BY CallsImply
  <1>2. ReadyInv => Ready!ReadinessIsEarned
    BY ReadyImplies
  <1>3. (Gate!GateIsSound /\ Upstream!OutboundIsSound /\ Ready!ReadinessIsEarned) => CallsAreSound
    BY DEF CallsAreSound
  <1> QED
    BY <1>1, <1>2, <1>3, GateSound, CallsInvariant, ReadyInvariant, PTL
=============================================================================
