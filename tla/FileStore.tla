----------------------------- MODULE FileStore -----------------------------
(***************************************************************************)
(* File upload and deletion (internal/files/service.go): a file is a row   *)
(* of files, an upload intent and an object in the object store, which no  *)
(* transaction spans.  Upload runs under the lock file:upload:<id>;        *)
(* whatever it leaves behind is repaired by the request itself and by the  *)
(* deletion workers of all replicas, step by step, each step against       *)
(* another system.                                                         *)
(*                                                                         *)
(* Two faults are possible in an execution, or are not: with "lockLoss"    *)
(* the lock's key vanishes from Redis while its holder works on (the lease *)
(* renewal notices later), and with "lateCommit" a COMMIT whose client     *)
(* gave up takes effect later.                                             *)
(***************************************************************************)
EXTENDS Naturals, FiniteSets

CONSTANTS
    Files,      \* file ids; f is also the name of f's own requests as an actor
    Workers,    \* RunDeletionWorker loops
    None,       \* no holder, no file
    Faults      \* the faults to consider

ASSUME FilesAssumption == /\ Files \cap Workers = {} /\ None \notin Files \cup Workers
                          /\ Faults \subseteq {"lockLoss", "lateCommit"}

Actors == Files \cup Workers

VARIABLES
    intent,    \* status of the file_upload_intents row
    due,       \* ids whose intent, or deletion, has its next attempt in the past
    file,      \* the files row: deleted_at and object_deleted_at
    object,    \* ids whose object is in the store
    upload,    \* what the upload request is doing
    holder,    \* holder of the lock file:upload:<id>
    repair,    \* processUploadIntent of every actor
    purge,     \* processDeletion of every actor
    inflight,  \* ids whose final COMMIT is on its way without a client
    fault      \* the faults of this execution; it never changes

filesVars == <<intent, due, file, object, upload, holder, repair, purge, inflight>>

NoJob == [pc |-> "idle", file |-> None]

FilesInit == /\ intent = [f \in Files |-> "none"]
             /\ due = {}
             /\ file = [f \in Files |-> "none"]
             /\ object = {}
             /\ upload = [f \in Files |-> "new"]
             /\ holder = [f \in Files |-> None]
             /\ repair = [a \in Actors |-> NoJob]
             /\ purge = [a \in Actors |-> NoJob]
             /\ inflight = {}
             /\ fault \in SUBSET Faults

\* Mutant: a lock without a lease stays with a holder that is gone.
Release_Never(a, f) == UNCHANGED holder

\* A lease is released by its owner only.
Release(a, f) == holder' = [holder EXCEPT ![f] = IF @ = a THEN None ELSE @]

Goto(f, pc) == upload' = [upload EXCEPT ![f] = pc]

-----------------------------------------------------------------------------
(* Upload.                                                                 *)

\* The lock is taken and the intent committed.  When the insert fails, or only its
\* acknowledgement is lost, the request leaves without a repair of its own.
InsertIntent(f, outcome) ==
    /\ upload[f] = "new" /\ holder[f] = None
    /\ intent' = [intent EXCEPT ![f] = IF outcome = "failed" THEN "none" ELSE "pending"]
    /\ holder' = [holder EXCEPT ![f] = IF outcome = "ok" THEN f ELSE None]
    /\ Goto(f, IF outcome = "ok" THEN "intent" ELSE "error")
    /\ UNCHANGED <<due, file, object, repair, purge, inflight>>

\* storage.Put; an error does not say whether the object is there.
Put(f, ok) ==
    /\ upload[f] = "intent"
    /\ object' \in {object \cup {f}} \cup (IF ok THEN {} ELSE {object})
    /\ IF ok THEN Goto(f, "put") /\ UNCHANGED holder ELSE Goto(f, "failed") /\ Release(f, f)
    /\ UNCHANGED <<intent, due, file, repair, purge, inflight>>

\* Mutant: the transaction does not insist on a pending intent.
Committable_Always(f) == TRUE

\* rows = 1 of UPDATE file_upload_intents ... WHERE status='pending'.
Committable(f) == intent[f] = "pending"

Completed(f) == /\ file' = [file EXCEPT ![f] = "live"]
                /\ intent' = [intent EXCEPT ![f] = IF @ = "pending" THEN "completed" ELSE @]

\* The final transaction: file row, intent and operation event together.
Commit(f, ok) ==
    /\ upload[f] = "put" /\ Committable(f)
    /\ Completed(f)
    /\ Goto(f, IF ok THEN "ok" ELSE "failed") /\ Release(f, f)
    /\ UNCHANGED <<due, object, repair, purge, inflight>>

Rollback(f) ==
    /\ upload[f] = "put"
    /\ Goto(f, "failed") /\ Release(f, f)
    /\ UNCHANGED <<intent, due, file, object, repair, purge, inflight>>

\* The client gives up on a COMMIT the server has not decided.
LeaveCommit(f) ==
    /\ "lateCommit" \in fault /\ upload[f] = "put" /\ Committable(f)
    /\ inflight' = inflight \cup {f}
    /\ Goto(f, "failed") /\ Release(f, f)
    /\ UNCHANGED <<intent, due, file, object, repair, purge>>

CommitLands(f) ==
    /\ f \in inflight
    /\ Completed(f)
    /\ inflight' = inflight \ {f}
    /\ UNCHANGED <<due, object, upload, holder, repair, purge>>

CommitDropped(f) ==
    /\ f \in inflight
    /\ inflight' = inflight \ {f}
    /\ UNCHANGED <<intent, due, file, object, upload, holder, repair, purge>>

\* The replica dies; its lock expires.
CrashUpload(f) ==
    /\ upload[f] \in {"intent", "put", "failed"} /\ repair[f] = NoJob
    /\ Goto(f, "error") /\ Release(f, f)
    /\ UNCHANGED <<intent, due, file, object, repair, purge, inflight>>

-----------------------------------------------------------------------------
(* processUploadIntent, by a worker or by the failed request.               *)

\* Mutant: a worker does not take the upload lock.
MayRepair_Unlocked(a, f) == IF a = f THEN upload[f] = "failed" ELSE a \in Workers /\ f \in due

MayRepair(a, f) == /\ holder[f] = None
                   /\ IF a = f THEN upload[f] = "failed" ELSE a \in Workers /\ f \in due

\* The intent is read under the lock; unless it is pending there is nothing to do.
ReadIntent(a, f) ==
    /\ repair[a] = NoJob /\ MayRepair(a, f)
    /\ IF intent[f] = "pending"
       THEN /\ repair' = [repair EXCEPT ![a] = [pc |-> "pending", file |-> f]]
            /\ holder' = [holder EXCEPT ![f] = a]
            /\ UNCHANGED upload
       ELSE /\ a = f /\ Goto(f, "error")
            /\ UNCHANGED <<repair, holder>>
    /\ UNCHANGED <<intent, due, file, object, purge, inflight>>

\* SELECT count(*) FROM files WHERE id=? AND deleted_at IS NULL
CountFiles(a) ==
    /\ repair[a].pc = "pending"
    /\ repair' = [repair EXCEPT ![a].pc = IF file[repair[a].file] = "live" THEN "present"
                                                                          ELSE "absent"]
    /\ UNCHANGED <<intent, due, file, object, upload, holder, purge, inflight>>

\* storage.Delete is idempotent; a failure does not say whether the object is gone.
RemoveObject(a, ok) ==
    LET f == repair[a].file IN
    /\ repair[a].pc = "absent"
    /\ object' \in {object \ {f}} \cup (IF ok THEN {} ELSE {object})
    /\ repair' = [repair EXCEPT ![a].pc = IF ok THEN "removed" ELSE "kept"]
    /\ UNCHANGED <<intent, due, file, upload, holder, purge, inflight>>

EndRepair(a, f) ==
    /\ repair' = [repair EXCEPT ![a] = NoJob]
    /\ Release(a, f)
    /\ upload' = IF a = f THEN [upload EXCEPT ![f] = "error"] ELSE upload

\* finishUploadIntent, or the new attempt after a failed removal; the UPDATE waits
\* for a transaction that holds the intent's row.
FinishIntent(a) ==
    LET f == repair[a].file IN
    /\ repair[a].pc \in {"present", "removed", "kept"} /\ f \notin inflight
    /\ intent' = [intent EXCEPT ![f] =
         IF @ # "pending" \/ repair[a].pc = "kept" THEN @
         ELSE IF repair[a].pc = "present" THEN "completed" ELSE "abandoned"]
    /\ due' = IF repair[a].pc = "kept" THEN due \ {f} ELSE due
    /\ EndRepair(a, f)
    /\ UNCHANGED <<file, object, purge, inflight>>

\* An error, the five-second limit, or the death of the replica ends a repair.
AbortRepair(a) ==
    /\ repair[a] # NoJob
    /\ EndRepair(a, repair[a].file)
    /\ UNCHANGED <<intent, due, file, object, purge, inflight>>

LockVanishes(f) ==
    /\ "lockLoss" \in fault /\ holder[f] # None
    /\ holder' = [holder EXCEPT ![f] = None]
    /\ UNCHANGED <<intent, due, file, object, upload, repair, purge, inflight>>

-----------------------------------------------------------------------------
(* Deletion: a soft delete, then the object, now or by a worker.  The lock  *)
(* file:deletion:<id> only saves duplicate work and is not modelled.        *)

Delete(f) ==
    /\ file[f] = "live"
    /\ file' = [file EXCEPT ![f] = "deleted"]
    /\ due' = due \cup {f}
    /\ purge' = [purge EXCEPT ![f] = [pc |-> "listed", file |-> f]]
    /\ UNCHANGED <<intent, object, upload, holder, repair, inflight>>

ListDeletion(w, f) ==
    /\ w \in Workers /\ purge[w] = NoJob
    /\ file[f] = "deleted" /\ f \in due
    /\ purge' = [purge EXCEPT ![w] = [pc |-> "listed", file |-> f]]
    /\ UNCHANGED <<intent, due, file, object, upload, holder, repair, inflight>>

PurgeObject(a, ok) ==
    LET f == purge[a].file IN
    /\ purge[a].pc = "listed"
    /\ object' \in {object \ {f}} \cup (IF ok THEN {} ELSE {object})
    /\ purge' = [purge EXCEPT ![a].pc = IF ok THEN "removed" ELSE "kept"]
    /\ UNCHANGED <<intent, due, file, upload, holder, repair, inflight>>

\* Mutant: object_deleted_at is set although the object store refused.
Purged_Anyway(pc) == pc \in {"removed", "kept"}

Purged(pc) == pc = "removed"

\* The result is written where the row is still deleted and not yet purged.
FinishPurge(a) ==
    LET f == purge[a].file IN
    /\ purge[a].pc \in {"removed", "kept"}
    /\ file' = [file EXCEPT ![f] = IF @ = "deleted" /\ Purged(purge[a].pc) THEN "purged" ELSE @]
    /\ due' = IF file[f] = "deleted" THEN due \ {f} ELSE due
    /\ purge' = [purge EXCEPT ![a] = NoJob]
    /\ UNCHANGED <<intent, object, upload, holder, repair, inflight>>

AbortPurge(a) ==
    /\ purge[a] # NoJob
    /\ purge' = [purge EXCEPT ![a] = NoJob]
    /\ UNCHANGED <<intent, due, file, object, upload, holder, repair, inflight>>

\* UploadStaleAfter, or the backoff of a failed attempt, is over.
ComesDue(f) ==
    /\ f \notin due /\ (intent[f] = "pending" \/ file[f] = "deleted")
    /\ due' = due \cup {f}
    /\ UNCHANGED <<intent, file, object, upload, holder, repair, purge, inflight>>

-----------------------------------------------------------------------------
UploadStep(f) == \/ \E outcome \in {"ok", "failed", "unacknowledged"} : InsertIntent(f, outcome)
                 \/ \E ok \in BOOLEAN : Put(f, ok) \/ Commit(f, ok)
                 \/ Rollback(f) \/ LeaveCommit(f) \/ CommitLands(f)
                 \/ CommitDropped(f) \/ CrashUpload(f)

RepairStep(a) == \/ \E f \in Files : ReadIntent(a, f)
                 \/ CountFiles(a) \/ FinishIntent(a) \/ AbortRepair(a)
                 \/ \E ok \in BOOLEAN : RemoveObject(a, ok)

PurgeStep(a) == \/ \E f \in Files : ListDeletion(a, f)
                \/ \E ok \in BOOLEAN : PurgeObject(a, ok)
                \/ FinishPurge(a) \/ AbortPurge(a)

FilesNext == \/ \E f \in Files : UploadStep(f) \/ Delete(f) \/ ComesDue(f) \/ LockVanishes(f)
             \/ \E a \in Actors : RepairStep(a) \/ PurgeStep(a)

FilesSpec == FilesInit /\ [][FilesNext /\ UNCHANGED fault]_<<filesVars, fault>>

\* The workers tick for ever, and one or another meets a working object store and a
\* working database again and again; attempts come due; a request and a job end; the
\* server decides a COMMIT.
FilesFairness ==
    /\ \A f \in Files : /\ WF_filesVars(ComesDue(f))
                        /\ WF_filesVars(Put(f, TRUE) \/ Put(f, FALSE) \/ Rollback(f) \/ CrashUpload(f))
                        /\ WF_filesVars(CommitLands(f) \/ CommitDropped(f))
    /\ \A a \in Actors : WF_filesVars(AbortRepair(a)) /\ WF_filesVars(AbortPurge(a))
    /\ SF_filesVars(\E w \in Workers, f \in Files : ReadIntent(w, f))
    /\ SF_filesVars(\E w \in Workers : CountFiles(w))
    /\ SF_filesVars(\E w \in Workers : RemoveObject(w, TRUE))
    /\ SF_filesVars(\E w \in Workers : repair[w].pc \in {"present", "removed"} /\ FinishIntent(w))
    /\ SF_filesVars(\E w \in Workers, f \in Files : ListDeletion(w, f))
    /\ SF_filesVars(\E w \in Workers : PurgeObject(w, TRUE))
    /\ SF_filesVars(\E w \in Workers : purge[w].pc = "removed" /\ FinishPurge(w))

FilesFairSpec == FilesSpec /\ FilesFairness

-----------------------------------------------------------------------------
\* Rows, locks and jobs have their types, and a job has a file exactly while it runs.
FilesTypeOK ==
    /\ intent \in [Files -> {"none", "pending", "completed", "abandoned"}]
    /\ due \subseteq Files /\ object \subseteq Files /\ inflight \subseteq Files
    /\ file \in [Files -> {"none", "live", "deleted", "purged"}]
    /\ upload \in [Files -> {"new", "intent", "put", "failed", "ok", "error"}]
    /\ holder \in [Files -> Actors \cup {None}]
    /\ repair \in [Actors -> [pc : {"idle", "pending", "present", "absent", "removed", "kept"},
                              file : Files \cup {None}]]
    /\ purge \in [Actors -> [pc : {"idle", "listed", "removed", "kept"},
                             file : Files \cup {None}]]
    /\ \A a \in Actors : /\ repair[a].pc = "idle" <=> repair[a].file = None
                         /\ purge[a].pc = "idle" <=> purge[a].file = None

\* A file that callers can see has its object: no repair, however it interleaves
\* with the upload's ambiguous commit, removes it ("An existing file row always
\* wins", ProcessPendingUploads).
LiveFileHasObject == \A f \in Files : file[f] = "live" => f \in object

\* So it is while locks last and no COMMIT is undecided.
FilesHaveObjects == fault = {} => LiveFileHasObject

\* No object is left that nobody will remove: it belongs to a file row that is not
\* purged, or its intent is pending.
NoOrphanObject ==
    "lockLoss" \notin fault =>
       \A f \in object : intent[f] = "pending" \/ file[f] \in {"live", "deleted"}

\* Both: rows and objects agree, whatever repair, purge and upload do side by side.
FilesMatchObjects == FilesHaveObjects /\ NoOrphanObject

\* The outcome of an upload is decided once, by whoever resolves the pending intent
\* first: a file row exists only with a completed intent, even without the lock.
IntentDecidesUpload ==
    \A f \in Files : (file[f] # "none") => intent[f] = "completed"

\* Every intent is resolved and every deleted file's object is removed, in spite of
\* crashes and of failing stores.
RepairsFinish ==
    \A f \in Files : /\ intent[f] = "pending" ~> intent[f] # "pending"
                     /\ file[f] = "deleted" ~> file[f] = "purged"
=============================================================================
