--------------------------- MODULE DocumentIngest ---------------------------
(***************************************************************************)
(* The life of one uploaded file: upload, de-duplication by checksum, the  *)
(* arq job that ingests it, retry and delete.                              *)
(*                                                                         *)
(* Every document of this module has the same bytes, so the same checksum; *)
(* documents with other bytes never meet one another.  A database          *)
(* transaction is split where another one can come between: at its reads,  *)
(* at the writes that take a lock, and at its commit.                      *)
(***************************************************************************)
EXTENDS Naturals, FiniteSets

CONSTANTS
    Document,    \* document ids: one for each upload that inserts a row
    Job,         \* arq job ids: one for each enqueue_ingest that reaches Redis
    Client,      \* concurrent callers of the retry and delete endpoints
    MaxTries,    \* WorkerSettings.max_tries
    MaxFaults,   \* bound on the failures of Faults in one behaviour
    Faults,      \* the failures this instance allows, out of FaultKind
    NoDocument

\* kill: the worker process dies.  commit: a worker's last COMMIT fails.
\* early: a job ends before ingest_document's try block.  record: mark_failed
\* itself fails.
\* enqueue: Redis or the API process fails after the commit.
\* rollback, undelete: an upload's or a delete's transaction is rolled back
\* after it touched the disk.
FaultKind ==
    {"kill", "commit", "early", "record", "enqueue", "rollback", "undelete"}

ASSUME MaxTriesAssumption  == MaxTries \in Nat \ {0}
ASSUME MaxFaultsAssumption == MaxFaults \in Nat
ASSUME FaultsAssumption    == Faults \subseteq FaultKind
ASSUME NoDocumentAssumption == NoDocument \notin Document

VARIABLES
    row,       \* the committed documents.status of each document
    chunks,    \* whether its complete set of chunks is committed
    stored,    \* whether its bytes are on disk
    upload,    \* where the upload request that owns this id is
    job,       \* the arq jobs and the worker session each one runs in
    request,   \* the retry and delete requests
    faults     \* how many failures have happened

vars == <<row, chunks, stored, upload, job, request, faults>>

DocumentStatus == {"pending", "processing", "ready", "failed"}
Row == DocumentStatus \union {"absent", "deleted"}

UploadPC == {"idle", "checked", "open", "committed", "accepted", "refused"}

\* "queued" to "failSeen" are live; the last three are how a job ends.
JobPC == {"unused", "queued", "loaded", "locked", "marking", "embedding",
          "replacing", "flushed", "failing", "failSeen",
          "succeeded", "finished", "abandoned"}

\* doc: the document it names.  tries: arq's job_try.
\* seen: the status the worker's session loaded, which its identity map keeps.
\* fresh: the status a short transaction of its own has just loaded.
\* had: whether replace_chunks' DELETE saw committed chunks.
\* why: what sent it to the failure path.
JobState ==
    [doc: Document \union {NoDocument}, pc: JobPC, tries: 0..MaxTries,
     seen: Row, fresh: Row, had: BOOLEAN,
     why: {"none", "error", "cancelled", "collision", "lost"}]

RequestState ==
    [doc: Document \union {NoDocument},
     pc: {"idle", "retrying", "retried", "deleting"}, seen: Row]

IdleJob == [doc |-> NoDocument, pc |-> "unused", tries |-> 0, seen |-> "absent",
            fresh |-> "absent", had |-> FALSE, why |-> "none"]
IdleRequest == [doc |-> NoDocument, pc |-> "idle", seen |-> "absent"]

Init ==
    /\ row = [d \in Document |-> "absent"]
    /\ chunks = [d \in Document |-> FALSE]
    /\ stored = [d \in Document |-> FALSE]
    /\ upload = [d \in Document |-> "idle"]
    /\ job = [j \in Job |-> IdleJob]
    /\ request = [c \in Client |-> IdleRequest]
    /\ faults = 0

-----------------------------------------------------------------------------
(* What the database gives the handlers *)

Exists(d) == row[d] \in DocumentStatus

\* The unit of work writes a column only when it differs from the value the
\* session loaded: assigning what was loaded emits no UPDATE of that column.
OrmWrite(loaded, new, committed) == IF loaded = new THEN committed ELSE new

\* pg_advisory_xact_lock on the document, held until the session ends.
HoldsLock(j, d) ==
    /\ job[j].doc = d
    /\ job[j].pc \in {"locked", "marking", "embedding", "replacing", "flushed"}

\* An uncommitted UPDATE or DELETE of the row makes every other writer wait.
RowLocked(d) ==
    \/ \E j \in Job : job[j].doc = d /\ job[j].pc = "flushed"
    \/ \E c \in Client : request[c].doc = d /\ request[c].pc = "deleting"

Live(j) == job[j].pc \notin {"unused", "succeeded", "finished", "abandoned"}

Fault(kind) ==
    /\ kind \in Faults
    /\ faults < MaxFaults
    /\ faults' = faults + 1

\* enqueue_ingest: a job nobody has used yet goes on the queue for d.
Enqueue(d) ==
    \E j \in Job :
        /\ job[j].pc = "unused"
        /\ job' = [job EXCEPT ![j] = [IdleJob EXCEPT !.doc = d, !.pc = "queued"]]

-----------------------------------------------------------------------------
(* POST /documents *)

\* find_by_checksum finds no committed row with these bytes.  (When it finds
\* one the request answers with it, writes nothing and enqueues nothing.)
UploadCheck(d) ==
    /\ upload[d] = "idle"
    /\ \A e \in Document : ~Exists(e)
    /\ upload' = [upload EXCEPT ![d] = "checked"]
    /\ UNCHANGED <<row, chunks, stored, job, request, faults>>

\* A slip: the checksum index is not unique.
UploadInsertUnchecked(d) ==
    /\ upload[d] = "checked"
    /\ upload' = [upload EXCEPT ![d] = "open"]
    /\ stored' = [stored EXCEPT ![d] = TRUE]
    /\ UNCHANGED <<row, chunks, job, request, faults>>

\* DocumentService.create flushes the row, then the bytes go to disk.  The
\* INSERT waits for any other open INSERT of the same checksum, and for a
\* DELETE of the row that has it; it fails if the row it waited for committed.
UploadInsert(d) ==
    /\ upload[d] = "checked"
    /\ \A e \in Document : upload[e] # "open"
    /\ \A c \in Client : request[c].pc # "deleting"
    /\ IF \E e \in Document : Exists(e)
         THEN /\ upload' = [upload EXCEPT ![d] = "refused"]
              /\ UNCHANGED stored
         ELSE /\ upload' = [upload EXCEPT ![d] = "open"]
              /\ stored' = [stored EXCEPT ![d] = TRUE]
    /\ UNCHANGED <<row, chunks, job, request, faults>>

UploadCommit(d) ==
    /\ upload[d] = "open"
    /\ upload' = [upload EXCEPT ![d] = "committed"]
    /\ row' = [row EXCEPT ![d] = "pending"]
    /\ UNCHANGED <<chunks, stored, job, request, faults>>

\* The transaction rolls back; the bytes it wrote stay on disk.
UploadRollback(d) ==
    /\ upload[d] = "open"
    /\ Fault("rollback")
    /\ upload' = [upload EXCEPT ![d] = "refused"]
    /\ UNCHANGED <<row, chunks, stored, job, request>>

UploadEnqueue(d) ==
    /\ upload[d] = "committed"
    /\ Enqueue(d)
    /\ upload' = [upload EXCEPT ![d] = "accepted"]
    /\ UNCHANGED <<row, chunks, stored, request, faults>>

\* The process or Redis fails between the commit and the enqueue.
UploadEnqueueLost(d) ==
    /\ upload[d] = "committed"
    /\ Fault("enqueue")
    /\ upload' = [upload EXCEPT ![d] = "refused"]
    /\ UNCHANGED <<row, chunks, stored, job, request>>

-----------------------------------------------------------------------------
(* POST /documents/{id}/retry *)

\* Reads the status without a lock and turns away "processing" and "ready".
RetryCheck(c, d) ==
    /\ request[c].pc = "idle"
    /\ row[d] \in {"failed", "pending"}
    /\ request' = [request EXCEPT ![c] =
                     [doc |-> d, pc |-> "retrying", seen |-> row[d]]]
    /\ UNCHANGED <<row, chunks, stored, upload, job, faults>>

\* mark_pending and the commit; NotFound when the row is gone by now.
RetryCommit(c) ==
    LET d == request[c].doc IN
    /\ request[c].pc = "retrying"
    /\ ~RowLocked(d)
    /\ IF Exists(d)
         THEN /\ row' = [row EXCEPT ![d] =
                           OrmWrite(request[c].seen, "pending", row[d])]
              /\ request' = [request EXCEPT ![c].pc = "retried"]
         ELSE /\ request' = [request EXCEPT ![c] = IdleRequest]
              /\ UNCHANGED row
    /\ UNCHANGED <<chunks, stored, upload, job, faults>>

RetryEnqueue(c) ==
    /\ request[c].pc = "retried"
    /\ Enqueue(request[c].doc)
    /\ request' = [request EXCEPT ![c] = IdleRequest]
    /\ UNCHANGED <<row, chunks, stored, upload, faults>>

RetryEnqueueLost(c) ==
    /\ request[c].pc = "retried"
    /\ Fault("enqueue")
    /\ request' = [request EXCEPT ![c] = IdleRequest]
    /\ UNCHANGED <<row, chunks, stored, upload, job>>

-----------------------------------------------------------------------------
(* deleteDocument *)

\* A slip: the bytes are unlinked before the row delete is flushed.
DeleteUnlinksFirst(c, d) ==
    /\ request[c].pc = "idle"
    /\ Exists(d)
    /\ stored' = [stored EXCEPT ![d] = FALSE]
    /\ UNCHANGED <<row, chunks, upload, job, request, faults>>

\* The DELETE is flushed, which needs every lock on the row, and the bytes are
\* unlinked while the transaction is still open.
DeleteFlush(c, d) ==
    /\ request[c].pc = "idle"
    /\ Exists(d)
    /\ ~RowLocked(d)
    /\ request' = [request EXCEPT ![c] =
                     [doc |-> d, pc |-> "deleting", seen |-> row[d]]]
    /\ stored' = [stored EXCEPT ![d] = FALSE]
    /\ UNCHANGED <<row, chunks, upload, job, faults>>

\* The commit takes the chunks with the row (ON DELETE CASCADE).
DeleteCommit(c) ==
    LET d == request[c].doc IN
    /\ request[c].pc = "deleting"
    /\ row' = [row EXCEPT ![d] = "deleted"]
    /\ chunks' = [chunks EXCEPT ![d] = FALSE]
    /\ request' = [request EXCEPT ![c] = IdleRequest]
    /\ UNCHANGED <<stored, upload, job, faults>>

DeleteRollback(c) ==
    /\ request[c].pc = "deleting"
    /\ Fault("undelete")
    /\ request' = [request EXCEPT ![c] = IdleRequest]
    /\ UNCHANGED <<row, chunks, stored, upload, job>>

-----------------------------------------------------------------------------
(* ingest_document_task: one run of a job by a worker *)

Requeued(j) == [IdleJob EXCEPT !.doc = job[j].doc, !.pc = "queued",
                               !.tries = job[j].tries]
Finished(j) == [job[j] EXCEPT !.pc = "finished"]
\* It ends with nothing recorded on the row.
Unrecorded(j) == [job[j] EXCEPT !.pc = "finished", !.why = "lost"]
Failing(j, reason) == [job[j] EXCEPT !.pc = "failing", !.why = reason]

\* The worker's session loads the row and keeps what it loaded; then the bytes
\* are read.  NotFoundError and FileNotFoundError end the job, and since they
\* are raised outside ingest_document nothing records them.
Start(j) ==
    LET d == job[j].doc IN
    /\ job[j].pc = "queued"
    /\ job[j].tries < MaxTries
    /\ job' = [job EXCEPT ![j] =
                 IF Exists(d) /\ stored[d]
                   THEN [job[j] EXCEPT !.pc = "loaded", !.seen = row[d],
                                       !.tries = job[j].tries + 1]
                   ELSE [Unrecorded(j) EXCEPT !.tries = job[j].tries + 1]]
    /\ UNCHANGED <<row, chunks, stored, upload, request, faults>>

\* The try block is not the whole job: an error of the database or of the
\* file, or arq's time limit during the wait for the lock, ends it before
\* that, and nothing records it.  (A shutdown that cancels it here is a Kill.)
EndsEarly(j) ==
    /\ job[j].pc \in {"queued", "loaded", "locked", "marking"}
    /\ job[j].pc = "queued" => job[j].tries < MaxTries
    /\ Fault("early")
    /\ job' = [job EXCEPT ![j] = Unrecorded(j)]
    /\ UNCHANGED <<row, chunks, stored, upload, request>>

\* A slip: no advisory lock.
TakeNoLock(j) ==
    /\ job[j].pc = "loaded"
    /\ job' = [job EXCEPT ![j].pc = "locked"]
    /\ UNCHANGED <<row, chunks, stored, upload, request, faults>>

TakeLock(j) ==
    /\ job[j].pc = "loaded"
    /\ \A k \in Job : ~HoldsLock(k, job[j].doc)
    /\ job' = [job EXCEPT ![j].pc = "locked"]
    /\ UNCHANGED <<row, chunks, stored, upload, request, faults>>

\* mark_processing, in a short transaction of its own: its SELECT, then its
\* UPDATE and commit.  It runs before the try block, so a row deleted by now
\* ends the job with nothing recorded.
MarkProcessingLoad(j) ==
    LET d == job[j].doc IN
    /\ job[j].pc = "locked"
    /\ job' = [job EXCEPT ![j] =
                 IF Exists(d) THEN [@ EXCEPT !.pc = "marking", !.fresh = row[d]]
                              ELSE Unrecorded(j)]
    /\ UNCHANGED <<row, chunks, stored, upload, request, faults>>

MarkProcessingCommit(j) ==
    LET d == job[j].doc IN
    /\ job[j].pc = "marking"
    /\ ~RowLocked(d)
    /\ IF Exists(d)
         THEN /\ row' = [row EXCEPT ![d] =
                           OrmWrite(job[j].fresh, "processing", row[d])]
              /\ job' = [job EXCEPT ![j].pc = "embedding"]
         ELSE /\ job' = [job EXCEPT ![j] = Unrecorded(j)]
              /\ UNCHANGED row
    /\ UNCHANGED <<chunks, stored, upload, request, faults>>

\* A slip: the old chunks are deleted in a transaction of their own.
ReplaceChunksDeleteCommitted(j) ==
    /\ job[j].pc = "embedding"
    /\ job' = [job EXCEPT ![j].pc = "replacing", ![j].had = FALSE]
    /\ chunks' = [chunks EXCEPT ![job[j].doc] = FALSE]
    /\ UNCHANGED <<row, stored, upload, request, faults>>

\* Extraction and embedding are done; replace_chunks checks the row is still
\* there and deletes the chunks its statement can see.
ReplaceChunksDelete(j) ==
    LET d == job[j].doc IN
    /\ job[j].pc = "embedding"
    /\ job' = [job EXCEPT ![j] =
                 IF Exists(d) THEN [@ EXCEPT !.pc = "replacing", !.had = chunks[d]]
                              ELSE Failing(j, "error")]
    /\ UNCHANGED <<row, chunks, stored, upload, request, faults>>

\* The INSERT of the new chunks and mark_ready's UPDATE, both uncommitted.
\* Chunks committed since the DELETE collide on uq_chunk_document_index; a row
\* deleted since fails the foreign key.
InsertAndMarkReady(j) ==
    LET d == job[j].doc IN
    /\ job[j].pc = "replacing"
    /\ ~RowLocked(d)
    /\ job' = [job EXCEPT ![j] =
                 IF ~Exists(d) THEN Failing(j, "error")
                 ELSE IF chunks[d] /\ ~job[j].had THEN Failing(j, "collision")
                 ELSE [@ EXCEPT !.pc = "flushed"]]
    /\ UNCHANGED <<row, chunks, stored, upload, request, faults>>

\* The worker's session commits the chunks and, when mark_ready's assignment
\* changed what the session had loaded, the status with them.
CommitReady(j) ==
    LET d == job[j].doc IN
    /\ job[j].pc = "flushed"
    /\ row' = [row EXCEPT ![d] = OrmWrite(job[j].seen, "ready", row[d])]
    /\ chunks' = [chunks EXCEPT ![d] = TRUE]
    /\ job' = [job EXCEPT ![j].pc = "succeeded"]
    /\ UNCHANGED <<stored, upload, request, faults>>

\* That commit fails, outside the try block: nothing records it.
CommitFails(j) ==
    /\ job[j].pc = "flushed"
    /\ Fault("commit")
    /\ job' = [job EXCEPT ![j] = Unrecorded(j)]
    /\ UNCHANGED <<row, chunks, stored, upload, request>>

\* A slip: there is no except clause for CancelledError.
FailIngestMissesCancellation(j) ==
    /\ job[j].pc \in {"embedding", "replacing"}
    /\ \/ job' = [job EXCEPT ![j] = Failing(j, "error")]
       \/ job' = [job EXCEPT ![j] = Finished(j)]
    /\ UNCHANGED <<row, chunks, stored, upload, request, faults>>

\* Something in the try block raises, or arq cancels the job: _record_failure
\* rolls the session back, which releases the advisory lock.
FailIngest(j) ==
    /\ job[j].pc \in {"embedding", "replacing"}
    /\ \E reason \in {"error", "cancelled"} :
         job' = [job EXCEPT ![j] = Failing(j, reason)]
    /\ UNCHANGED <<row, chunks, stored, upload, request, faults>>

\* mark_failed, in another short transaction.  The exception is re-raised: arq
\* runs a cancelled job again and ends one that failed.  A NotFoundError raised
\* here takes the place of a cancellation.
MarkFailedLoad(j) ==
    LET d == job[j].doc IN
    /\ job[j].pc = "failing"
    /\ job' = [job EXCEPT ![j] =
                 IF Exists(d) THEN [@ EXCEPT !.pc = "failSeen", !.fresh = row[d]]
                              ELSE Finished(j)]
    /\ UNCHANGED <<row, chunks, stored, upload, request, faults>>

MarkFailedCommit(j) ==
    LET d == job[j].doc IN
    /\ job[j].pc = "failSeen"
    /\ ~RowLocked(d)
    /\ IF Exists(d)
         THEN /\ row' = [row EXCEPT ![d] =
                           OrmWrite(job[j].fresh, "failed", row[d])]
              /\ job' = [job EXCEPT ![j] =
                           IF @.why = "cancelled" THEN Requeued(j) ELSE Finished(j)]
         ELSE /\ job' = [job EXCEPT ![j] = Finished(j)]
              /\ UNCHANGED row
    /\ UNCHANGED <<chunks, stored, upload, request, faults>>

\* _record_failure raises: what it was to record is lost.  (A shutdown that
\* cancels the job a second time is a Kill.)
RecordFails(j) ==
    /\ job[j].pc \in {"failing", "failSeen"}
    /\ Fault("record")
    /\ job' = [job EXCEPT ![j] = Unrecorded(j)]
    /\ UNCHANGED <<row, chunks, stored, upload, request>>

\* The worker dies, or is shut down and cancels its jobs where nothing handles
\* the cancellation: its sessions roll back and, once the in-progress key
\* expires, arq runs the job again.
Kill(j) ==
    /\ Live(j) /\ job[j].pc # "queued"
    /\ Fault("kill")
    /\ job' = [job EXCEPT ![j] = Requeued(j)]
    /\ UNCHANGED <<row, chunks, stored, upload, request>>

\* arq does not call a function whose tries are spent.
GiveUp(j) ==
    /\ job[j].pc = "queued"
    /\ job[j].tries = MaxTries
    /\ job' = [job EXCEPT ![j].pc = "abandoned"]
    /\ UNCHANGED <<row, chunks, stored, upload, request, faults>>

-----------------------------------------------------------------------------
UploadStep(d) ==
    \/ UploadCheck(d) \/ UploadInsert(d) \/ UploadCommit(d)
    \/ UploadEnqueue(d)

RequestStep(c) == RetryCommit(c) \/ RetryEnqueue(c) \/ DeleteCommit(c)

JobStep(j) ==
    \/ Start(j) \/ TakeLock(j)
    \/ MarkProcessingLoad(j) \/ MarkProcessingCommit(j)
    \/ ReplaceChunksDelete(j) \/ InsertAndMarkReady(j) \/ CommitReady(j)
    \/ FailIngest(j) \/ MarkFailedLoad(j) \/ MarkFailedCommit(j)
    \/ GiveUp(j)

JobFails(j) == EndsEarly(j) \/ CommitFails(j) \/ RecordFails(j) \/ Kill(j)

Next ==
    \/ \E d \in Document :
         \/ UploadStep(d) \/ UploadRollback(d) \/ UploadEnqueueLost(d)
         \/ \E c \in Client : RetryCheck(c, d) \/ DeleteFlush(c, d)
    \/ \E c \in Client :
         RequestStep(c) \/ RetryEnqueueLost(c) \/ DeleteRollback(c)
    \/ \E j \in Job : JobStep(j) \/ JobFails(j)

\* A worker takes every job it is given and the event loop resumes every
\* handler; no user is obliged to upload, retry or delete.
Fairness ==
    /\ \A j \in Job : WF_vars(JobStep(j))
    /\ \A c \in Client : WF_vars(RequestStep(c))

Spec == Init /\ [][Next]_vars
FairSpec == Spec /\ Fairness

-----------------------------------------------------------------------------
TypeOK ==
    /\ row \in [Document -> Row]
    /\ chunks \in [Document -> BOOLEAN]
    /\ stored \in [Document -> BOOLEAN]
    /\ upload \in [Document -> UploadPC]
    /\ job \in [Job -> JobState]
    /\ request \in [Client -> RequestState]
    /\ faults \in 0..MaxFaults
    /\ \A j \in Job : job[j].pc # "unused" => job[j].doc \in Document
    /\ \A c \in Client : request[c].pc # "idle" => request[c].doc \in Document

\* A document that says "ready", which is what retrieval filters on, has its
\* whole corpus committed, whatever job, retry or delete interleaved.
ReadyHasChunks == \A d \in Document : row[d] = "ready" => chunks[d]

\* No chunk outlives its document, although an ingest may be inserting chunks
\* while the delete runs.
NoOrphanChunks == \A d \in Document : chunks[d] => Exists(d)

\* The advisory lock does what it is there for: no job's INSERT meets chunks
\* that its own DELETE did not see.
NoCollision == \A j \in Job : job[j].why # "collision"

\* Two uploads of the same bytes never both leave a row, although each checks
\* before it inserts.
OneRowPerChecksum == \A d, e \in Document : Exists(d) /\ Exists(e) => d = e

\* A row is never committed without its bytes, nor left behind by a delete
\* that took them: only a delete still in progress may have unlinked them.
LiveRowHasBytes ==
    \A d \in Document : Exists(d) =>
        \/ stored[d]
        \/ \E c \in Client : request[c].doc = d /\ request[c].pc = "deleting"

\* What may leave d in a state nobody moves it from: a job that ran out of
\* tries, one that ended with nothing recorded, and one that re-ingested a
\* document its session had loaded as "ready" and so never wrote that again.
Stranded(d) ==
    \E j \in Job :
        /\ job[j].doc = d
        /\ \/ job[j].pc = "abandoned"
           \/ job[j].why = "lost"
           \/ job[j].pc = "succeeded" /\ job[j].seen = "ready"

\* A document is left "processing" with no job to move it only when one of its
\* jobs ended in one of the three ways of Stranded.
StuckOnlyByAbandonedOrReadyReingest ==
    \A d \in Document :
        row[d] = "processing" /\ ~(\E j \in Job : job[j].doc = d /\ Live(j))
          => Stranded(d)

\* Somebody is still at work on d: a job, or a retry about to enqueue one.
AtWork(d) ==
    \/ \E j \in Job : job[j].doc = d /\ Live(j)
    \/ \E c \in Client : request[c].doc = d /\ request[c].pc \in {"retrying", "retried"}

\* Every job on the queue comes to an end for good, whatever fails, waits for
\* the document's lock or is run again; and it does not leave the document
\* half done behind it.  Once it has ended the document is "ready", "failed"
\* or deleted, unless somebody else is at work on it by then or a job has
\* stranded it in one of the three ways above, which the code allows.
EveryJobSettles ==
    \A j \in Job, d \in Document :
        (job[j].pc = "queued" /\ job[j].doc = d)
          ~> /\ job[j].pc \in {"succeeded", "finished", "abandoned"}
             /\ \/ row[d] \in {"ready", "failed", "deleted"}
                \/ AtWork(d)
                \/ Stranded(d)

\* A job whose chunks commit leaves the document "ready", a second job over
\* the first included.
SuccessLeavesReady ==
    [][\A j \in Job : job[j].pc = "flushed" /\ job'[j].pc = "succeeded"
         => row'[job[j].doc] = "ready"]_vars

\* A retry moves a row only from the two states it accepts.
RetryOnlyFromRetriable ==
    [][\A d \in Document : row[d] \in {"processing", "ready"}
         => row'[d] # "pending"]_vars

\* The corpus retrieval searches: chunks of rows that say "ready".
corpusOf ==
    [d \in Document |->
       CASE row[d] = "absent"  -> "absent"
         [] row[d] = "deleted" -> "gone"
         [] OTHER -> IF chunks[d] THEN "indexed" ELSE "bare"]

visible == [d \in Document |-> row[d] = "ready"]

Corpus == INSTANCE DocumentCorpus WITH corpus <- corpusOf, searchable <- visible

\* Ingestion implements the corpus it promises: every upload, job, retry and
\* delete, failing or not, is a step of it or changes nothing it can see.
CorpusSpec == Corpus!Spec
=============================================================================
