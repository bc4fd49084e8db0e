------------------------ MODULE DocumentIngestProofs ------------------------
(***************************************************************************)
(* Theorems about DocumentIngest for any documents, jobs, clients, tries   *)
(* and failures.                                                           *)
(***************************************************************************)
EXTENDS DocumentIngest, TLAPS

USE MaxTriesAssumption, MaxFaultsAssumption, NoDocumentAssumption

LEMMA InitTyped == Init => TypeOK
  BY DEF Init, TypeOK, IdleJob, IdleRequest, Row, DocumentStatus, UploadPC,
         JobPC, JobState, RequestState

\* What a job or a request holds stays typed when its fields are assigned.
LEMMA IdleTyped == IdleJob \in JobState /\ IdleRequest \in RequestState
  BY DEF IdleJob, IdleRequest, JobState, RequestState, JobPC, Row

LEMMA UploadTyped ==
  ASSUME TypeOK, NEW d \in Document,
         UploadStep(d) \/ UploadRollback(d) \/ UploadEnqueueLost(d)
  PROVE  TypeOK'
<1>1. CASE UploadCheck(d)
  BY <1>1 DEF UploadCheck, TypeOK, UploadPC
<1>2. CASE UploadInsert(d)
  BY <1>2 DEF UploadInsert, TypeOK, UploadPC
<1>3. CASE UploadCommit(d)
  BY <1>3 DEF UploadCommit, TypeOK, UploadPC, Row, DocumentStatus
<1>4. CASE UploadEnqueue(d)
  <2>1. PICK j \in Job :
          job' = [job EXCEPT ![j] = [IdleJob EXCEPT !.doc = d, !.pc = "queued"]]
    BY <1>4 DEF UploadEnqueue, Enqueue
  <2>2. [IdleJob EXCEPT !.doc = d, !.pc = "queued"] \in JobState
    BY IdleTyped DEF JobState, JobPC
  <2>3. job' \in [Job -> JobState]
    BY <2>1, <2>2 DEF TypeOK
  <2>4. \A k \in Job : job'[k].pc # "unused" => job'[k].doc \in Document
    BY <2>1 DEF TypeOK, IdleJob
  <2>q. QED BY <1>4, <2>3, <2>4 DEF UploadEnqueue, TypeOK, UploadPC
<1>5. CASE UploadRollback(d)
  BY <1>5 DEF UploadRollback, Fault, TypeOK, UploadPC
<1>6. CASE UploadEnqueueLost(d)
  BY <1>6 DEF UploadEnqueueLost, Fault, TypeOK, UploadPC
<1>q. QED BY <1>1, <1>2, <1>3, <1>4, <1>5, <1>6 DEF UploadStep

\* A request's step changes its own record and at most the row, the chunks or
\* the bytes of its document, or adds a job.
LEMMA RequestTyped ==
  ASSUME TypeOK, NEW c \in Client,
         \/ RequestStep(c) \/ RetryEnqueueLost(c) \/ DeleteRollback(c)
         \/ \E d \in Document : RetryCheck(c, d) \/ DeleteFlush(c, d)
  PROVE  TypeOK'
<1>0. /\ request[c] \in RequestState
      /\ request[c].pc # "idle" => request[c].doc \in Document
  BY DEF TypeOK
<1>1. ASSUME NEW d \in Document, RetryCheck(c, d) PROVE TypeOK'
  <2>1. [doc |-> d, pc |-> "retrying", seen |-> row[d]] \in RequestState
    BY DEF TypeOK, RequestState
  <2>q. QED BY <1>1, <2>1 DEF RetryCheck, TypeOK
<1>2. ASSUME NEW d \in Document, DeleteFlush(c, d) PROVE TypeOK'
  <2>1. [doc |-> d, pc |-> "deleting", seen |-> row[d]] \in RequestState
    BY DEF TypeOK, RequestState
  <2>q. QED BY <1>2, <2>1 DEF DeleteFlush, TypeOK
<1>3. CASE RetryCommit(c)
  <2>1. /\ [request[c] EXCEPT !.pc = "retried"] \in RequestState
        /\ [request[c] EXCEPT !.pc = "retried"].doc \in Document
    BY <1>0, <1>3 DEF RetryCommit, RequestState
  <2>2. \E r \in RequestState :
          /\ r.pc # "idle" => r.doc \in Document
          /\ request' = [request EXCEPT ![c] = r]
    <3>1. CASE Exists(request[c].doc)
      BY <1>3, <2>1, <3>1 DEF RetryCommit
    <3>2. CASE ~Exists(request[c].doc)
      BY <1>3, <3>2, IdleTyped DEF RetryCommit, IdleRequest
    <3>q. QED BY <3>1, <3>2
  <2>3. /\ request' \in [Client -> RequestState]
        /\ \A b \in Client : request'[b].pc # "idle" => request'[b].doc \in Document
    BY <2>2 DEF TypeOK
  <2>4. row' \in [Document -> Row]
    BY <1>3 DEF RetryCommit, TypeOK, OrmWrite, Row, DocumentStatus
  <2>q. QED BY <1>3, <2>3, <2>4 DEF RetryCommit, TypeOK
<1>4. CASE RetryEnqueue(c)
  <2>1. request[c].doc \in Document
    BY <1>0, <1>4 DEF RetryEnqueue
  <2>2. PICK j \in Job : job' = [job EXCEPT ![j] =
          [IdleJob EXCEPT !.doc = request[c].doc, !.pc = "queued"]]
    BY <1>4 DEF RetryEnqueue, Enqueue
  <2>3. [IdleJob EXCEPT !.doc = request[c].doc, !.pc = "queued"] \in JobState
    BY <2>1, IdleTyped DEF JobState, JobPC
  <2>4. /\ job' \in [Job -> JobState]
        /\ \A k \in Job : job'[k].pc # "unused" => job'[k].doc \in Document
    BY <2>1, <2>2, <2>3 DEF TypeOK, IdleJob
  <2>q. QED BY <1>4, <2>4, IdleTyped DEF RetryEnqueue, TypeOK, IdleRequest
<1>5. CASE RetryEnqueueLost(c)
  BY <1>5, IdleTyped DEF RetryEnqueueLost, Fault, TypeOK, IdleRequest
<1>6. CASE DeleteCommit(c)
  BY <1>6, IdleTyped DEF DeleteCommit, TypeOK, Row, IdleRequest
<1>7. CASE DeleteRollback(c)
  BY <1>7, IdleTyped DEF DeleteRollback, Fault, TypeOK, IdleRequest
<1>q. QED BY <1>1, <1>2, <1>3, <1>4, <1>5, <1>6, <1>7 DEF RequestStep

\* A step of a job that leaves its record typed, and the row a status, keeps
\* everything typed.
LEMMA JobRecordTyped ==
  ASSUME TypeOK, NEW j \in Job, NEW s \in JobState,
         s.pc # "unused" => s.doc \in Document,
         job' = [job EXCEPT ![j] = s],
         row' \in [Document -> Row],
         chunks' \in [Document -> BOOLEAN],
         faults' \in 0..MaxFaults,
         UNCHANGED <<stored, upload, request>>
  PROVE  TypeOK'
BY DEF TypeOK

LEMMA JobTyped ==
  ASSUME TypeOK, NEW j \in Job, JobStep(j) \/ JobFails(j)
  PROVE  TypeOK'
<1> DEFINE d == job[j].doc
           After(s) == s \in JobState /\ (s.pc # "unused" => s.doc \in Document)
<1>0. /\ job[j] \in JobState
      /\ job[j].pc # "unused"
      /\ d \in Document
  BY DEF TypeOK, JobStep, JobFails, EndsEarly, RecordFails, Start, TakeLock,
     MarkProcessingLoad,
         MarkProcessingCommit, ReplaceChunksDelete, InsertAndMarkReady,
         CommitReady, CommitFails, FailIngest, MarkFailedLoad,
         MarkFailedCommit, Kill, Live, GiveUp
<1>1. After(Finished(j)) /\ After(Unrecorded(j)) /\ After(Requeued(j))
  BY <1>0, IdleTyped DEF Finished, Unrecorded, Requeued, JobState, JobPC
<1>2. \A why \in {"error", "cancelled", "collision"} : After(Failing(j, why))
  BY <1>0 DEF Failing, JobState, JobPC
<1>3. \A pc \in JobPC : After([job[j] EXCEPT !.pc = pc])
  BY <1>0 DEF JobState
<1>4. \A pc \in JobPC : After([job[j] EXCEPT !.pc = pc, !.fresh = row[d]])
  BY <1>0 DEF JobState, TypeOK
<1>5. ASSUME NEW s, After(s), job' = [job EXCEPT ![j] = s],
             UNCHANGED <<row, chunks, stored, upload, request, faults>>
      PROVE  TypeOK'
  BY <1>5, JobRecordTyped DEF TypeOK
<1>6. CASE Start(j)
  <2>1. job[j].tries + 1 \in 0..MaxTries
    BY <1>0, <1>6 DEF Start, JobState
  <2>2. /\ After([job[j] EXCEPT !.pc = "loaded", !.seen = row[d],
                                !.tries = job[j].tries + 1])
        /\ After([Unrecorded(j) EXCEPT !.tries = job[j].tries + 1])
    BY <1>0, <1>1, <2>1 DEF JobState, JobPC, TypeOK
  <2>3. CASE Exists(d) /\ stored[d]
    BY <1>6, <2>2, <2>3, <1>5 DEF Start
  <2>4. CASE ~(Exists(d) /\ stored[d])
    BY <1>6, <2>2, <2>4, <1>5 DEF Start
  <2>q. QED BY <2>3, <2>4
<1>7. CASE TakeLock(j)
  <2>1. After([job[j] EXCEPT !.pc = "locked"])
    BY <1>3 DEF JobPC
  <2>q. QED BY <1>7, <2>1, <1>5 DEF TakeLock
<1>8. CASE MarkProcessingLoad(j)
  <2>1. After([job[j] EXCEPT !.pc = "marking", !.fresh = row[d]])
    BY <1>4 DEF JobPC
  <2>q. QED BY <1>8, <2>1, <1>1, <1>5 DEF MarkProcessingLoad
<1>9. CASE MarkProcessingCommit(j)
  <2>1. After([job[j] EXCEPT !.pc = "embedding"])
    BY <1>3 DEF JobPC
  <2>2. row' \in [Document -> Row]
    BY <1>9 DEF MarkProcessingCommit, TypeOK, OrmWrite, Row, DocumentStatus
  <2>3. \E s : After(s) /\ job' = [job EXCEPT ![j] = s]
    BY <1>9, <2>1, <1>1 DEF MarkProcessingCommit
  <2>q. QED BY <1>9, <2>2, <2>3, JobRecordTyped DEF MarkProcessingCommit, TypeOK
<1>10. CASE ReplaceChunksDelete(j)
  <2>1. After([job[j] EXCEPT !.pc = "replacing", !.had = chunks[d]])
    BY <1>0 DEF JobState, JobPC, TypeOK
  <2>q. QED BY <1>10, <2>1, <1>2, <1>5 DEF ReplaceChunksDelete
<1>11. CASE InsertAndMarkReady(j)
  <2>1. After([job[j] EXCEPT !.pc = "flushed"])
    BY <1>3 DEF JobPC
  <2>2. \E s : After(s) /\ job' = [job EXCEPT ![j] = s]
    BY <1>11, <2>1, <1>2 DEF InsertAndMarkReady
  <2>q. QED BY <1>11, <2>2, <1>5 DEF InsertAndMarkReady
<1>12. CASE CommitReady(j)
  <2>1. After([job[j] EXCEPT !.pc = "succeeded"])
    BY <1>3 DEF JobPC
  <2>2. /\ row' \in [Document -> Row]
        /\ chunks' \in [Document -> BOOLEAN]
    BY <1>12 DEF CommitReady, TypeOK, OrmWrite, Row, DocumentStatus
  <2>q. QED BY <1>12, <2>1, <2>2, JobRecordTyped DEF CommitReady, TypeOK
<1>13. CASE JobFails(j)
  <2>1. faults' \in 0..MaxFaults
    BY <1>13 DEF JobFails, EndsEarly, CommitFails, RecordFails, Kill, Fault, TypeOK
  <2>2. /\ job' = [job EXCEPT ![j] = Unrecorded(j)] \/ job' = [job EXCEPT ![j] = Requeued(j)]
        /\ UNCHANGED <<row, chunks, stored, upload, request>>
    BY <1>13 DEF JobFails, EndsEarly, CommitFails, RecordFails, Kill
  <2>q. QED BY <2>1, <2>2, <1>1, JobRecordTyped DEF TypeOK
<1>14. CASE FailIngest(j)
  BY <1>14, <1>2, <1>5 DEF FailIngest
<1>15. CASE MarkFailedLoad(j)
  <2>1. After([job[j] EXCEPT !.pc = "failSeen", !.fresh = row[d]])
    BY <1>4 DEF JobPC
  <2>q. QED BY <1>15, <2>1, <1>1, <1>5 DEF MarkFailedLoad
<1>16. CASE MarkFailedCommit(j)
  <2>1. row' \in [Document -> Row]
    BY <1>16 DEF MarkFailedCommit, TypeOK, OrmWrite, Row, DocumentStatus
  <2>2. \E s : After(s) /\ job' = [job EXCEPT ![j] = s]
    BY <1>16, <1>1 DEF MarkFailedCommit
  <2>q. QED BY <1>16, <2>1, <2>2, JobRecordTyped DEF MarkFailedCommit, TypeOK
<1>18. CASE GiveUp(j)
  <2>1. After([job[j] EXCEPT !.pc = "abandoned"])
    BY <1>3 DEF JobPC
  <2>q. QED BY <1>18, <2>1, <1>5 DEF GiveUp
<1>q. QED
  BY <1>6, <1>7, <1>8, <1>9, <1>10, <1>11, <1>12, <1>13, <1>14, <1>15, <1>16,
     <1>18 DEF JobStep

LEMMA TypedStep == ASSUME TypeOK, [Next]_vars PROVE TypeOK'
<1>1. CASE UNCHANGED vars
  BY <1>1 DEF vars, TypeOK
<1>2. CASE Next
  BY <1>2, UploadTyped, RequestTyped, JobTyped DEF Next
<1>q. QED BY <1>1, <1>2

\* Every state of ingestion is typed, whatever the documents, jobs, clients,
\* tries and failures.
THEOREM Typed == Spec => []TypeOK
  BY InitTyped, TypedStep, PTL DEF Spec

-----------------------------------------------------------------------------
(* The corpus retrieval searches *)

\* An id has a row from its upload's commit on, and not before.
UploadOwnsRow ==
    \A d \in Document :
        upload[d] \in {"idle", "checked", "open"} => row[d] = "absent"

\* Whoever has written a row and not committed yet has a row to commit, and a
\* delete and an ingest never both have.
WritersHoldRow ==
    /\ \A j \in Job : job[j].pc = "flushed" => Exists(job[j].doc)
    /\ \A c \in Client : request[c].pc = "deleting" => Exists(request[c].doc)
    /\ \A j \in Job, c \in Client :
         job[j].pc = "flushed" /\ request[c].pc = "deleting"
           => job[j].doc # request[c].doc
    /\ \A b, c \in Client :
         request[b].pc = "deleting" /\ request[c].pc = "deleting" /\ b # c
           => request[b].doc # request[c].doc

\* The inductive invariant behind the corpus: ReadyHasChunks and
\* NoOrphanChunks are not inductive without who may write a row.
CorpusInv ==
    /\ TypeOK
    /\ ReadyHasChunks
    /\ NoOrphanChunks
    /\ UploadOwnsRow
    /\ WritersHoldRow

LEMMA CorpusInit == Init => CorpusInv
<1> SUFFICES ASSUME Init PROVE CorpusInv
  OBVIOUS
<1>1. /\ \A j \in Job : job[j].pc = "unused"
      /\ \A c \in Client : request[c].pc = "idle"
      /\ \A d \in Document : row[d] = "absent" /\ ~chunks[d]
  BY DEF Init, IdleJob, IdleRequest
<1>q. QED BY <1>1, InitTyped DEF CorpusInv, ReadyHasChunks, NoOrphanChunks,
             UploadOwnsRow, WritersHoldRow

\* A step after which nobody new has a write open, and every row is still
\* there.
StillWriting ==
    /\ \A j \in Job : job'[j].pc = "flushed" => job'[j] = job[j]
    /\ \A c \in Client : request'[c].pc = "deleting" => request'[c] = request[c]

LEMMA WritersKept ==
  ASSUME TypeOK, WritersHoldRow, StillWriting,
         \A d \in Document : row[d] \in DocumentStatus => row'[d] \in DocumentStatus
  PROVE  WritersHoldRow'
<1>1. \A j \in Job : job[j].pc = "flushed" => job[j].doc \in Document
  BY DEF TypeOK
<1>2. \A c \in Client : request[c].pc = "deleting" => request[c].doc \in Document
  BY DEF TypeOK
<1>3. \A j \in Job : job'[j].pc = "flushed" => row'[job'[j].doc] \in DocumentStatus
  BY <1>1 DEF StillWriting, WritersHoldRow, Exists
<1>4. \A c \in Client : request'[c].pc = "deleting" => row'[request'[c].doc] \in DocumentStatus
  BY <1>2 DEF StillWriting, WritersHoldRow, Exists
<1>5. \A j \in Job, c \in Client :
        job'[j].pc = "flushed" /\ request'[c].pc = "deleting"
          => job'[j].doc # request'[c].doc
  BY DEF StillWriting, WritersHoldRow
<1>6. \A b, c \in Client :
        request'[b].pc = "deleting" /\ request'[c].pc = "deleting" /\ b # c
          => request'[b].doc # request'[c].doc
  BY DEF StillWriting, WritersHoldRow
<1>q. QED BY <1>3, <1>4, <1>5, <1>6 DEF WritersHoldRow, Exists

\* A step that writes neither rows nor chunks disturbs nothing.
LEMMA CorpusQuiet ==
  ASSUME CorpusInv, TypeOK', StillWriting, UNCHANGED <<row, chunks, upload>>
  PROVE  CorpusInv'
<1>1. WritersHoldRow'
  BY WritersKept DEF CorpusInv
<1>q. QED BY <1>1 DEF CorpusInv, ReadyHasChunks, NoOrphanChunks, UploadOwnsRow, Exists

\* Nor does one that moves a live row to a status other than "ready".
LEMMA CorpusMark ==
  ASSUME CorpusInv, TypeOK', StillWriting, NEW d \in Document, NEW loaded,
         NEW status \in {"pending", "processing", "failed"}, Exists(d),
         row' = [row EXCEPT ![d] = OrmWrite(loaded, status, row[d])],
         UNCHANGED <<chunks, upload>>
  PROVE  CorpusInv'
<1>1. /\ row'[d] \in {row[d], status}
      /\ \A e \in Document : e # d => row'[e] = row[e]
  BY DEF OrmWrite, CorpusInv, TypeOK
<1>2. \A e \in Document : row[e] \in DocumentStatus => row'[e] \in DocumentStatus
  BY <1>1 DEF DocumentStatus
<1>3. WritersHoldRow'
  BY <1>2, WritersKept DEF CorpusInv
<1>4. ReadyHasChunks' /\ NoOrphanChunks' /\ UploadOwnsRow'
  BY <1>1, <1>2 DEF CorpusInv, ReadyHasChunks, NoOrphanChunks, UploadOwnsRow,
     Exists, DocumentStatus
<1>q. QED BY <1>3, <1>4 DEF CorpusInv

LEMMA CorpusUpload ==
  ASSUME CorpusInv, TypeOK', NEW d \in Document,
         UploadStep(d) \/ UploadRollback(d) \/ UploadEnqueueLost(d)
  PROVE  CorpusInv'
<1> USE DEF CorpusInv, TypeOK, ReadyHasChunks, NoOrphanChunks, UploadOwnsRow,
            WritersHoldRow, Exists
<1>1. CASE UploadCheck(d)
  BY <1>1 DEF UploadCheck
<1>2. CASE UploadInsert(d)
  BY <1>2 DEF UploadInsert
<1>3. CASE UploadCommit(d)
  BY <1>3 DEF UploadCommit, DocumentStatus
<1>4. CASE UploadEnqueue(d)
  BY <1>4 DEF UploadEnqueue, Enqueue, IdleJob
<1>5. CASE UploadRollback(d)
  BY <1>5 DEF UploadRollback
<1>6. CASE UploadEnqueueLost(d)
  BY <1>6 DEF UploadEnqueueLost
<1>q. QED BY <1>1, <1>2, <1>3, <1>4, <1>5, <1>6 DEF UploadStep

LEMMA CorpusRequest ==
  ASSUME CorpusInv, TypeOK', NEW c \in Client,
         \/ RequestStep(c) \/ RetryEnqueueLost(c) \/ DeleteRollback(c)
         \/ \E d \in Document : RetryCheck(c, d) \/ DeleteFlush(c, d)
  PROVE  CorpusInv'
<1>0. /\ TypeOK
      /\ request[c].pc # "idle" => request[c].doc \in Document
      /\ \A b \in Client : b # c => request'[b] = request[b]
  BY DEF CorpusInv, TypeOK, RequestStep, RetryEnqueueLost, DeleteRollback,
         RetryCheck, DeleteFlush, RetryCommit, RetryEnqueue, DeleteCommit
<1>1. ASSUME NEW d \in Document, RetryCheck(c, d) PROVE CorpusInv'
  <2>1. request'[c].pc = "retrying"
    BY <1>0, <1>1 DEF RetryCheck, TypeOK
  <2>2. StillWriting
    BY <1>0, <1>1, <2>1 DEF StillWriting, RetryCheck
  <2>q. QED BY <1>1, <2>2, CorpusQuiet DEF RetryCheck
<1>2. ASSUME NEW d \in Document, DeleteFlush(c, d) PROVE CorpusInv'
  <2>1. request'[c].doc = d /\ UNCHANGED <<row, chunks, upload, job>>
    BY <1>0, <1>2 DEF DeleteFlush, TypeOK
  <2>2. /\ Exists(d)
        /\ \A j \in Job : job[j].pc = "flushed" => job[j].doc # d
        /\ \A b \in Client : request[b].pc = "deleting" => request[b].doc # d
    BY <1>2 DEF DeleteFlush, RowLocked
  <2>3. WritersHoldRow'
    BY <1>0, <2>1, <2>2 DEF WritersHoldRow, CorpusInv, Exists
  <2>q. QED BY <2>1, <2>3 DEF CorpusInv, ReadyHasChunks, NoOrphanChunks,
        UploadOwnsRow, Exists
<1>3. CASE RetryCommit(c)
  <2>1. request'[c].pc # "deleting"
    BY <1>0, <1>3 DEF RetryCommit, TypeOK, RequestState, IdleRequest
  <2>2. StillWriting
    BY <1>0, <1>3, <2>1 DEF StillWriting, RetryCommit
  <2>3. CASE Exists(request[c].doc)
    <3>1. /\ row' = [row EXCEPT ![request[c].doc] =
                        OrmWrite(request[c].seen, "pending", row[request[c].doc])]
          /\ UNCHANGED <<chunks, upload>>
          /\ request[c].doc \in Document
      BY <1>0, <1>3, <2>3 DEF RetryCommit
    <3>q. QED BY <2>2, <2>3, <3>1, CorpusMark
  <2>4. CASE ~Exists(request[c].doc)
    BY <1>3, <2>2, <2>4, CorpusQuiet DEF RetryCommit
  <2>q. QED BY <2>3, <2>4
<1>4. CASE RetryEnqueue(c) \/ RetryEnqueueLost(c) \/ DeleteRollback(c)
  <2>1. request'[c].pc = "idle"
    BY <1>0, <1>4 DEF RetryEnqueue, RetryEnqueueLost, DeleteRollback, TypeOK,
       IdleRequest
  <2>2. \A j \in Job : job'[j].pc = "flushed" => job'[j] = job[j]
    <3>1. CASE RetryEnqueue(c)
      <4>1. PICK k \in Job : job' = [job EXCEPT ![k] =
              [IdleJob EXCEPT !.doc = request[c].doc, !.pc = "queued"]]
        BY <3>1 DEF RetryEnqueue, Enqueue
      <4>2. job'[k].pc = "queued"
        BY <1>0, <4>1 DEF TypeOK, IdleJob
      <4>q. QED BY <1>0, <4>1, <4>2 DEF TypeOK
    <3>q. QED BY <1>4, <3>1 DEF RetryEnqueueLost, DeleteRollback
  <2>3. StillWriting
    BY <1>0, <2>1, <2>2 DEF StillWriting
  <2>q. QED BY <1>4, <2>3, CorpusQuiet
        DEF RetryEnqueue, RetryEnqueueLost, DeleteRollback
<1>5. CASE DeleteCommit(c)
  <2> DEFINE d == request[c].doc
  <2>1. /\ \A e \in Document : e # d => row'[e] = row[e] /\ chunks'[e] = chunks[e]
        /\ d \in Document /\ row'[d] = "deleted" /\ ~chunks'[d]
        /\ UNCHANGED <<job, upload>>
        /\ request'[c].pc = "idle"
    BY <1>0, <1>5 DEF DeleteCommit, TypeOK, IdleRequest
  <2>2. /\ \A j \in Job : job[j].pc = "flushed" => job[j].doc # d /\ job[j].doc \in Document
        /\ \A b \in Client : b # c /\ request[b].pc = "deleting"
                               => request[b].doc # d /\ request[b].doc \in Document
    BY <1>0, <1>5 DEF DeleteCommit, CorpusInv, WritersHoldRow, TypeOK
  <2>3. WritersHoldRow'
    BY <1>0, <2>1, <2>2 DEF WritersHoldRow, CorpusInv, Exists
  <2>4. row[d] # "absent"
    BY <1>5 DEF DeleteCommit, CorpusInv, WritersHoldRow, Exists, DocumentStatus
  <2>q. QED BY <2>1, <2>3, <2>4 DEF CorpusInv, ReadyHasChunks, NoOrphanChunks,
        UploadOwnsRow, Exists
<1>q. QED BY <1>1, <1>2, <1>3, <1>4, <1>5 DEF RequestStep

\* A job's step leaves every other writer alone unless it reaches "flushed".
LEMMA JobStillWriting ==
  ASSUME TypeOK, NEW j \in Job, NEW s, s.pc # "flushed",
         job' = [job EXCEPT ![j] = s], UNCHANGED request
  PROVE  StillWriting
BY DEF StillWriting, TypeOK

LEMMA CorpusJob ==
  ASSUME CorpusInv, TypeOK', NEW j \in Job, JobStep(j) \/ JobFails(j)
  PROVE  CorpusInv'
<1> DEFINE d == job[j].doc
<1>0. /\ TypeOK
      /\ job[j].pc # "unused"
      /\ d \in Document
      /\ job[j] \in JobState
  BY DEF CorpusInv, TypeOK, JobStep, JobFails, EndsEarly, RecordFails, Start, TakeLock,
     MarkProcessingLoad,
         MarkProcessingCommit, ReplaceChunksDelete, InsertAndMarkReady,
         CommitReady, CommitFails, FailIngest, MarkFailedLoad,
         MarkFailedCommit, Kill, Live, GiveUp
<1>1. \A pc \in JobPC \ {"flushed"} : \A t \in JobState :
        [t EXCEPT !.pc = pc].pc # "flushed"
  BY DEF JobState
<1>2. /\ Finished(j).pc # "flushed" /\ Unrecorded(j).pc # "flushed"
      /\ Requeued(j).pc # "flushed" /\ \A why : Failing(j, why).pc # "flushed"
  BY <1>0 DEF Finished, Unrecorded, Requeued, Failing, JobState, IdleJob
<1>3. CASE Start(j)
  <2>1. /\ [job[j] EXCEPT !.pc = "loaded", !.seen = row[d],
                          !.tries = job[j].tries + 1].pc # "flushed"
        /\ [Unrecorded(j) EXCEPT !.tries = job[j].tries + 1].pc # "flushed"
    BY <1>0 DEF Unrecorded, JobState
  <2>q. QED BY <1>0, <1>3, <2>1, JobStillWriting, CorpusQuiet DEF Start
<1>4. CASE TakeLock(j)
  <2>1. [job[j] EXCEPT !.pc = "locked"].pc # "flushed"
    BY <1>0 DEF JobState
  <2>q. QED BY <1>0, <1>4, <2>1, JobStillWriting, CorpusQuiet DEF TakeLock
<1>5. CASE MarkProcessingLoad(j)
  <2>1. [job[j] EXCEPT !.pc = "marking", !.fresh = row[d]].pc # "flushed"
    BY <1>0 DEF JobState
  <2>q. QED BY <1>0, <1>5, <1>2, <2>1, JobStillWriting, CorpusQuiet DEF MarkProcessingLoad
<1>6. CASE MarkProcessingCommit(j)
  <2>1. [job[j] EXCEPT !.pc = "embedding"].pc # "flushed"
    BY <1>0 DEF JobState
  <2>2. CASE Exists(d)
    <3>2. StillWriting
      BY <1>0, <1>6, <2>1, <2>2, JobStillWriting DEF MarkProcessingCommit
    <3>3. /\ row' = [row EXCEPT ![d] = OrmWrite(job[j].fresh, "processing", row[d])]
          /\ UNCHANGED <<chunks, upload>>
      BY <1>0, <1>6, <2>2 DEF MarkProcessingCommit
    <3>q. QED BY <1>0, <2>2, <3>2, <3>3, CorpusMark
  <2>3. CASE ~Exists(d)
    BY <1>0, <1>6, <1>2, <2>3, JobStillWriting, CorpusQuiet DEF MarkProcessingCommit
  <2>q. QED BY <2>2, <2>3
<1>7. CASE ReplaceChunksDelete(j)
  <2>1. [job[j] EXCEPT !.pc = "replacing", !.had = chunks[d]].pc # "flushed"
    BY <1>0 DEF JobState
  <2>q. QED BY <1>0, <1>7, <1>2, <2>1, JobStillWriting, CorpusQuiet DEF ReplaceChunksDelete
<1>8. CASE InsertAndMarkReady(j)
  <2>1. CASE Exists(d) /\ ~(chunks[d] /\ ~job[j].had)
    <3>1. /\ job' = [job EXCEPT ![j] = [job[j] EXCEPT !.pc = "flushed"]]
          /\ UNCHANGED <<row, chunks, upload, request>>
      BY <1>0, <1>8, <2>1 DEF InsertAndMarkReady
    <3>2. \A c \in Client : request[c].pc = "deleting" => request[c].doc # d
      BY <1>8 DEF InsertAndMarkReady, RowLocked
    <3>3. job'[j].doc = d /\ \A k \in Job : k # j => job'[k] = job[k]
      BY <1>0, <3>1 DEF TypeOK, JobState
    <3>q. QED BY <1>0, <2>1, <3>1, <3>2, <3>3 DEF CorpusInv, ReadyHasChunks,
          NoOrphanChunks, UploadOwnsRow, WritersHoldRow, Exists
  <2>2. CASE ~Exists(d) \/ (chunks[d] /\ ~job[j].had)
    <3>1. \E why : job' = [job EXCEPT ![j] = Failing(j, why)]
      BY <1>0, <1>8, <2>2 DEF InsertAndMarkReady
    <3>2. UNCHANGED <<row, chunks, upload, request>>
      BY <1>8 DEF InsertAndMarkReady
    <3>q. QED BY <1>0, <1>2, <3>1, <3>2, JobStillWriting, CorpusQuiet
  <2>q. QED BY <2>1, <2>2
<1>9. CASE CommitReady(j)
  <2>1. /\ row'[d] \in {row[d], "ready"} /\ chunks'[d]
        /\ \A e \in Document : e # d => row'[e] = row[e] /\ chunks'[e] = chunks[e]
        /\ UNCHANGED <<upload, request>>
    BY <1>0, <1>9 DEF CommitReady, OrmWrite, TypeOK
  <2>2. /\ job'[j].pc = "succeeded"
        /\ \A k \in Job : k # j => job'[k] = job[k]
    BY <1>0, <1>9 DEF CommitReady, TypeOK, JobState
  <2>3. row[d] \in DocumentStatus /\ row'[d] \in DocumentStatus
    BY <1>0, <1>9, <2>1 DEF CommitReady, CorpusInv, WritersHoldRow, Exists, DocumentStatus
  <2>q. QED BY <1>0, <2>1, <2>2, <2>3 DEF CorpusInv, ReadyHasChunks, DocumentStatus,
        NoOrphanChunks, UploadOwnsRow, WritersHoldRow, Exists, TypeOK
<1>10. CASE JobFails(j)
  <2>1. /\ job' = [job EXCEPT ![j] = Unrecorded(j)] \/ job' = [job EXCEPT ![j] = Requeued(j)]
        /\ UNCHANGED <<row, chunks, upload, request>>
    BY <1>10 DEF JobFails, EndsEarly, CommitFails, RecordFails, Kill
  <2>q. QED BY <1>0, <2>1, <1>2, JobStillWriting, CorpusQuiet
<1>11. CASE FailIngest(j)
  <2>1. \E why : job' = [job EXCEPT ![j] = Failing(j, why)]
    BY <1>11 DEF FailIngest
  <2>q. QED BY <1>0, <1>11, <1>2, <2>1, JobStillWriting, CorpusQuiet DEF FailIngest
<1>12. CASE MarkFailedLoad(j)
  <2>1. [job[j] EXCEPT !.pc = "failSeen", !.fresh = row[d]].pc # "flushed"
    BY <1>0 DEF JobState
  <2>q. QED BY <1>0, <1>12, <1>2, <2>1, JobStillWriting, CorpusQuiet DEF MarkFailedLoad
<1>13. CASE MarkFailedCommit(j)
  <2>1. \E s : job' = [job EXCEPT ![j] = s] /\ s.pc # "flushed"
    BY <1>0, <1>13, <1>2 DEF MarkFailedCommit
  <2>2. CASE Exists(d)
    <3>1. /\ row' = [row EXCEPT ![d] = OrmWrite(job[j].fresh, "failed", row[d])]
          /\ UNCHANGED <<chunks, upload, request>>
      BY <1>0, <1>13, <2>2 DEF MarkFailedCommit
    <3>q. QED BY <1>0, <2>1, <2>2, <3>1, JobStillWriting, CorpusMark
  <2>3. CASE ~Exists(d)
    BY <1>0, <1>13, <2>1, <2>3, JobStillWriting, CorpusQuiet DEF MarkFailedCommit
  <2>q. QED BY <2>2, <2>3
<1>15. CASE GiveUp(j)
  <2>1. [job[j] EXCEPT !.pc = "abandoned"].pc # "flushed"
    BY <1>0 DEF JobState
  <2>q. QED BY <1>0, <1>15, <2>1, JobStillWriting, CorpusQuiet DEF GiveUp
<1>q. QED
  BY <1>0, <1>3, <1>4, <1>5, <1>6, <1>7, <1>8, <1>9, <1>10, <1>11, <1>12, <1>13,
     <1>15 DEF JobStep

LEMMA CorpusStep == ASSUME CorpusInv, [Next]_vars PROVE CorpusInv'
<1>0. TypeOK'
  BY TypedStep DEF CorpusInv
<1>1. CASE UNCHANGED vars
  BY <1>0, <1>1 DEF vars, CorpusInv, ReadyHasChunks, NoOrphanChunks,
     UploadOwnsRow, WritersHoldRow, Exists
<1>2. CASE Next
  BY <1>0, <1>2, CorpusUpload, CorpusRequest, CorpusJob DEF Next
<1>q. QED BY <1>1, <1>2

\* A document that says "ready" has its whole corpus, for any number of jobs,
\* retries, deletes and failures.
THEOREM ReadyIsWhole == Spec => []ReadyHasChunks
<1>1. CorpusInv => ReadyHasChunks
  BY DEF CorpusInv
<1>q. QED BY CorpusInit, CorpusStep, <1>1, PTL DEF Spec

\* No chunk outlives its document.
THEOREM ChunksHaveADocument == Spec => []NoOrphanChunks
<1>1. CorpusInv => NoOrphanChunks
  BY DEF CorpusInv
<1>q. QED BY CorpusInit, CorpusStep, <1>1, PTL DEF Spec

-----------------------------------------------------------------------------
(* The advisory lock *)

LockPC == {"locked", "marking", "embedding", "replacing", "flushed"}

LockIsExclusive ==
    \A j, k \in Job :
        job[j].pc \in LockPC /\ job[k].pc \in LockPC /\ j # k
          => job[j].doc # job[k].doc

\* What replace_chunks' DELETE saw is still all there is when it inserts.
SnapshotIsCurrent ==
    \A j \in Job : job[j].pc = "replacing" /\ chunks[job[j].doc] => job[j].had

LockInv == TypeOK /\ LockIsExclusive /\ SnapshotIsCurrent /\ NoCollision

LEMMA LockInit == Init => LockInv
<1> SUFFICES ASSUME Init PROVE LockInv
  OBVIOUS
<1>1. \A j \in Job : job[j].pc = "unused" /\ job[j].why = "none"
  BY DEF Init, IdleJob
<1>q. QED BY <1>1, InitTyped DEF LockInv, LockIsExclusive, LockPC,
             SnapshotIsCurrent, NoCollision

\* One job changes, takes no lock it did not have, and no chunks appear.
LEMMA LockKept ==
  ASSUME LockInv, TypeOK', NEW j \in Job, NEW s,
         job' = [job EXCEPT ![j] = s], s.why # "collision",
         s.pc \in LockPC => job[j].pc \in LockPC /\ s.doc = job[j].doc,
         s.pc = "replacing" /\ chunks[s.doc] => s.had,
         \A d \in Document : chunks'[d] => chunks[d]
  PROVE  LockInv'
<1>1. job'[j] = s /\ \A k \in Job : k # j => job'[k] = job[k]
  BY DEF LockInv, TypeOK
<1>2. LockIsExclusive'
  BY <1>1 DEF LockInv, LockIsExclusive
<1>3. \A k \in Job : job'[k].pc = "replacing" => job'[k].doc \in Document
  BY DEF TypeOK
<1>4. SnapshotIsCurrent'
  BY <1>1, <1>3 DEF LockInv, SnapshotIsCurrent
<1>5. NoCollision'
  BY <1>1 DEF LockInv, NoCollision
<1>q. QED BY <1>2, <1>4, <1>5 DEF LockInv

\* No job changes and no chunks appear.
LEMMA LockIdle ==
  ASSUME LockInv, TypeOK', UNCHANGED job, \A d \in Document : chunks'[d] => chunks[d]
  PROVE  LockInv'
<1>1. \A k \in Job : job'[k].pc = "replacing" => job'[k].doc \in Document
  BY DEF TypeOK
<1>q. QED BY <1>1 DEF LockInv, LockIsExclusive, SnapshotIsCurrent, NoCollision

LEMMA LockEnqueue ==
  ASSUME LockInv, TypeOK', NEW d, Enqueue(d), UNCHANGED chunks
  PROVE  LockInv'
<1>1. PICK j \in Job :
        job' = [job EXCEPT ![j] = [IdleJob EXCEPT !.doc = d, !.pc = "queued"]]
  BY DEF Enqueue
<1>2. /\ [IdleJob EXCEPT !.doc = d, !.pc = "queued"].pc = "queued"
      /\ [IdleJob EXCEPT !.doc = d, !.pc = "queued"].why = "none"
  BY DEF IdleJob
<1>q. QED BY <1>1, <1>2, LockKept DEF LockPC

LEMMA LockJob ==
  ASSUME LockInv, TypeOK', NEW j \in Job, JobStep(j) \/ JobFails(j)
  PROVE  LockInv'
<1> DEFINE d == job[j].doc
<1>0. /\ job[j] \in JobState
      /\ job[j].pc # "unused"
      /\ d \in Document
      /\ job[j].why # "collision"
  BY DEF LockInv, NoCollision, TypeOK, JobStep, JobFails, EndsEarly, RecordFails, Start,
     TakeLock, MarkProcessingLoad,
         MarkProcessingCommit, ReplaceChunksDelete, InsertAndMarkReady,
         CommitReady, CommitFails, FailIngest, MarkFailedLoad,
         MarkFailedCommit, Kill, Live, GiveUp
<1>1. \A s \in {Finished(j), Unrecorded(j), Requeued(j), Failing(j, "error"),
                 Failing(j, "cancelled")} :
        s.pc \notin LockPC /\ s.why # "collision"
  BY <1>0 DEF Finished, Unrecorded, Requeued, Failing, IdleJob, JobState, LockPC
<1>2. CASE Start(j)
  <2>1. \A s \in {[job[j] EXCEPT !.pc = "loaded", !.seen = row[d],
                                  !.tries = job[j].tries + 1],
                   [Unrecorded(j) EXCEPT !.tries = job[j].tries + 1]} :
          s.pc \notin LockPC /\ s.why # "collision"
    BY <1>0 DEF Unrecorded, JobState, LockPC
  <2>q. QED BY <1>2, <2>1, LockKept DEF Start, LockPC
<1>3. CASE TakeLock(j)
  <2>1. /\ job'[j].pc = "locked" /\ job'[j].doc = d /\ job'[j].why = job[j].why
        /\ \A k \in Job : k # j => job'[k] = job[k]
        /\ UNCHANGED chunks
    BY <1>0, <1>3 DEF TakeLock, LockInv, TypeOK, JobState
  <2>2. \A k \in Job : ~(job[k].pc \in LockPC /\ job[k].doc = d)
    BY <1>3 DEF TakeLock, HoldsLock, LockPC
  <2>q. QED BY <1>0, <2>1, <2>2 DEF LockInv, LockIsExclusive, SnapshotIsCurrent,
        NoCollision
<1>4. CASE MarkProcessingLoad(j)
  <2>1. \A s \in {[job[j] EXCEPT !.pc = "marking", !.fresh = row[d]]} :
          s.pc = "marking" /\ s.doc = d /\ s.why = job[j].why
    BY <1>0 DEF JobState
  <2>q. QED BY <1>0, <1>4, <1>1, <2>1, LockKept DEF MarkProcessingLoad, LockPC
<1>5. CASE MarkProcessingCommit(j)
  <2>1. \A s \in {[job[j] EXCEPT !.pc = "embedding"]} :
          s.pc = "embedding" /\ s.doc = d /\ s.why = job[j].why
    BY <1>0 DEF JobState
  <2>q. QED BY <1>0, <1>5, <1>1, <2>1, LockKept DEF MarkProcessingCommit, LockPC
<1>6. CASE ReplaceChunksDelete(j)
  <2>1. \A s \in {[job[j] EXCEPT !.pc = "replacing", !.had = chunks[d]]} :
          /\ s.pc = "replacing" /\ s.doc = d /\ s.why = job[j].why
          /\ s.had = chunks[d]
    BY <1>0 DEF JobState
  <2>q. QED BY <1>0, <1>6, <1>1, <2>1, LockKept DEF ReplaceChunksDelete, LockPC
<1>7. CASE InsertAndMarkReady(j)
  <2>1. \A s \in {[job[j] EXCEPT !.pc = "flushed"]} :
          s.pc = "flushed" /\ s.doc = d /\ s.why = job[j].why
    BY <1>0 DEF JobState
  <2>2. chunks[d] => job[j].had
    BY <1>7 DEF InsertAndMarkReady, LockInv, SnapshotIsCurrent
  <2>q. QED BY <1>0, <1>7, <1>1, <2>1, <2>2, LockKept DEF InsertAndMarkReady, LockPC
<1>8. CASE CommitReady(j)
  <2>1. /\ job'[j].pc = "succeeded" /\ job'[j].why = job[j].why
        /\ \A k \in Job : k # j => job'[k] = job[k]
        /\ \A e \in Document : e # d => chunks'[e] = chunks[e]
    BY <1>0, <1>8 DEF CommitReady, LockInv, TypeOK, JobState
  <2>2. \A k \in Job : k # j /\ job[k].pc = "replacing" =>
          job[k].doc # d /\ job[k].doc \in Document
    BY <1>8 DEF CommitReady, LockInv, LockIsExclusive, LockPC, TypeOK
  <2>q. QED BY <1>0, <2>1, <2>2 DEF LockInv, LockIsExclusive, LockPC,
        SnapshotIsCurrent, NoCollision
<1>9. CASE JobFails(j) \/ FailIngest(j)
  BY <1>0, <1>9, <1>1, LockKept
     DEF JobFails, EndsEarly, CommitFails, RecordFails, FailIngest, Kill, LockPC
<1>10. CASE MarkFailedLoad(j)
  <2>1. \A s \in {[job[j] EXCEPT !.pc = "failSeen", !.fresh = row[d]]} :
          s.pc = "failSeen" /\ s.why = job[j].why
    BY <1>0 DEF JobState
  <2>q. QED BY <1>0, <1>10, <1>1, <2>1, LockKept DEF MarkFailedLoad, LockPC
<1>11. CASE MarkFailedCommit(j)
  BY <1>0, <1>11, <1>1, LockKept DEF MarkFailedCommit, LockPC
<1>12. CASE GiveUp(j)
  <2>1. \A s \in {[job[j] EXCEPT !.pc = "abandoned"]} :
          s.pc = "abandoned" /\ s.why = job[j].why
    BY <1>0 DEF JobState
  <2>q. QED BY <1>0, <1>12, <2>1, LockKept DEF GiveUp, LockPC
<1>q. QED BY <1>2, <1>3, <1>4, <1>5, <1>6, <1>7, <1>8, <1>9, <1>10, <1>11, <1>12
          DEF JobStep

LEMMA LockStep == ASSUME LockInv, [Next]_vars PROVE LockInv'
<1>0. TypeOK'
  BY TypedStep DEF LockInv
<1>1. CASE UNCHANGED vars
  BY <1>0, <1>1, LockIdle DEF vars
<1>2. ASSUME NEW d \in Document,
             UploadStep(d) \/ UploadRollback(d) \/ UploadEnqueueLost(d)
      PROVE  LockInv'
  BY <1>0, <1>2, LockIdle, LockEnqueue DEF UploadStep, UploadCheck, UploadInsert,
     UploadCommit, UploadEnqueue, UploadRollback, UploadEnqueueLost
<1>3. ASSUME NEW c \in Client,
             \/ RequestStep(c) \/ RetryEnqueueLost(c) \/ DeleteRollback(c)
             \/ \E d \in Document : RetryCheck(c, d) \/ DeleteFlush(c, d)
      PROVE  LockInv'
  <2>1. CASE RetryEnqueue(c)
    BY <1>0, <2>1, LockEnqueue DEF RetryEnqueue
  <2>2. CASE DeleteCommit(c)
    <3>1. UNCHANGED job /\ \A d \in Document : chunks'[d] => chunks[d]
      BY <2>2 DEF DeleteCommit, LockInv, TypeOK
    <3>q. QED BY <1>0, <3>1, LockIdle
  <2>q. QED BY <1>0, <1>3, <2>1, <2>2, LockIdle DEF RequestStep, RetryCommit,
        RetryEnqueueLost, DeleteRollback, RetryCheck, DeleteFlush
<1>4. ASSUME NEW j \in Job, JobStep(j) \/ JobFails(j) PROVE LockInv'
  BY <1>0, <1>4, LockJob
<1>q. QED BY <1>1, <1>2, <1>3, <1>4 DEF Next

\* With the advisory lock no job's INSERT meets chunks its DELETE did not see,
\* for any number of workers on one document.
THEOREM LockPreventsCollision == Spec => []NoCollision
<1>1. LockInv => NoCollision
  BY DEF LockInv
<1>q. QED BY LockInit, LockStep, <1>1, PTL DEF Spec

-----------------------------------------------------------------------------
(* Ingestion implements the corpus retrieval relies on *)

\* A step that touches one document is a step of the corpus when what it did to
\* that document is.
LEMMA CorpusMove ==
  ASSUME CorpusInv, CorpusInv', NEW d \in Document,
         \A e \in Document \ {d} : row'[e] = row[e] /\ chunks'[e] = chunks[e],
         \/ row[d] = "absent" /\ row'[d] = "pending" /\ chunks'[d] = chunks[d]
         \/ Exists(d) /\ row'[d] = "deleted"
         \/ Exists(d) /\ Exists(d)' /\ chunks'[d]
         \/ /\ Exists(d) /\ Exists(d)' /\ chunks'[d] = chunks[d]
            /\ row'[d] \in {row[d], "pending", "processing", "failed"}
  PROVE  Corpus!Next \/ UNCHANGED <<corpusOf, visible>>
<1>0. /\ corpusOf \in [Document -> {"absent", "bare", "indexed", "gone"}]
      /\ corpusOf' \in [Document -> {"absent", "bare", "indexed", "gone"}]
      /\ visible \in [Document -> BOOLEAN] /\ visible' \in [Document -> BOOLEAN]
      /\ \A e \in Document \ {d} :
           corpusOf'[e] = corpusOf[e] /\ visible'[e] = visible[e]
  BY DEF corpusOf, visible
<1>1. /\ visible[d] = (row[d] = "ready") /\ visible'[d] = (row'[d] = "ready")
      /\ Exists(d) => corpusOf[d] = IF chunks[d] THEN "indexed" ELSE "bare"
      /\ Exists(d)' => corpusOf'[d] = IF chunks'[d] THEN "indexed" ELSE "bare"
      /\ row[d] = "absent" => corpusOf[d] = "absent"
      /\ row'[d] = "deleted" => corpusOf'[d] = "gone"
  BY DEF corpusOf, visible, Exists, DocumentStatus
<1>2. CASE row[d] = "absent" /\ row'[d] = "pending" /\ chunks'[d] = chunks[d]
  <2>1. ~chunks'[d]
    BY <1>2 DEF CorpusInv, NoOrphanChunks, Exists, DocumentStatus
  <2>2. corpusOf'[d] = "bare" /\ visible'[d] = visible[d]
    BY <1>1, <1>2, <2>1 DEF Exists, DocumentStatus
  <2>3. corpusOf' = [corpusOf EXCEPT ![d] = "bare"] /\ visible' = visible
    BY <1>0, <2>2
  <2>q. QED BY <1>1, <1>2, <2>3 DEF Corpus!Next, Corpus!Create
<1>3. CASE Exists(d) /\ row'[d] = "deleted"
  <2>1. corpusOf' = [corpusOf EXCEPT ![d] = "gone"]
    BY <1>0, <1>1, <1>3
  <2>2. visible' = [visible EXCEPT ![d] = FALSE]
    BY <1>0, <1>1, <1>3
  <2>q. QED BY <1>1, <1>3, <2>1, <2>2 DEF Corpus!Next, Corpus!Remove
<1>4. CASE Exists(d) /\ Exists(d)' /\ chunks'[d]
  <2>1. corpusOf' = [corpusOf EXCEPT ![d] = "indexed"]
    BY <1>0, <1>1, <1>4
  <2>2. visible' = [visible EXCEPT ![d] = visible'[d]] /\ visible'[d] \in BOOLEAN
    BY <1>0
  <2>q. QED BY <1>1, <1>4, <2>1, <2>2 DEF Corpus!Next, Corpus!Index
<1>5. CASE /\ Exists(d) /\ Exists(d)' /\ chunks'[d] = chunks[d]
           /\ row'[d] \in {row[d], "pending", "processing", "failed"}
  <2>1. corpusOf' = corpusOf
    BY <1>0, <1>1, <1>5
  <2>2. visible' = visible \/ visible' = [visible EXCEPT ![d] = FALSE]
    BY <1>0, <1>1, <1>5
  <2>q. QED BY <2>1, <2>2 DEF Corpus!Next, Corpus!Hide
<1>q. QED BY <1>2, <1>3, <1>4, <1>5

LEMMA CorpusRefinesNext ==
  ASSUME CorpusInv, CorpusInv', Next
  PROVE  Corpus!Next \/ UNCHANGED <<corpusOf, visible>>
<1>1. CASE UNCHANGED <<row, chunks>>
  BY <1>1 DEF corpusOf, visible
<1>2. ASSUME NEW d \in Document, UploadCommit(d)
      PROVE  Corpus!Next \/ UNCHANGED <<corpusOf, visible>>
  BY <1>2, CorpusMove DEF UploadCommit, CorpusInv, TypeOK, UploadOwnsRow
<1>3. ASSUME NEW c \in Client, RetryCommit(c) \/ DeleteCommit(c)
      PROVE  Corpus!Next \/ UNCHANGED <<corpusOf, visible>>
  <2>0. PICK d \in Document : d = request[c].doc
    BY <1>3 DEF RetryCommit, DeleteCommit, CorpusInv, TypeOK
  <2>t. row \in [Document -> Row] /\ chunks \in [Document -> BOOLEAN]
    BY DEF CorpusInv, TypeOK
  <2>1. CASE RetryCommit(c) /\ Exists(d)
    <3>1. /\ \A e \in Document \ {d} : row'[e] = row[e] /\ chunks'[e] = chunks[e]
          /\ row'[d] \in {row[d], "pending"} /\ chunks'[d] = chunks[d]
      BY <2>0, <2>t, <2>1 DEF RetryCommit, OrmWrite
    <3>2. Exists(d)'
      BY <2>1, <3>1 DEF Exists, DocumentStatus
    <3>q. QED BY <2>1, <3>1, <3>2, CorpusMove
  <2>2. CASE DeleteCommit(c)
    <3>1. /\ \A e \in Document \ {d} : row'[e] = row[e] /\ chunks'[e] = chunks[e]
          /\ row'[d] = "deleted" /\ Exists(d)
      BY <2>0, <2>t, <2>2 DEF DeleteCommit, CorpusInv, WritersHoldRow
    <3>q. QED BY <3>1, CorpusMove
  <2>3. CASE RetryCommit(c) /\ ~Exists(d)
    BY <2>0, <2>3, <1>1 DEF RetryCommit
  <2>q. QED BY <1>3, <2>1, <2>2, <2>3
<1>4. ASSUME NEW j \in Job,
             MarkProcessingCommit(j) \/ MarkFailedCommit(j) \/ CommitReady(j)
      PROVE  Corpus!Next \/ UNCHANGED <<corpusOf, visible>>
  <2>0. PICK d \in Document : d = job[j].doc
    BY <1>4 DEF MarkProcessingCommit, MarkFailedCommit, CommitReady, CorpusInv, TypeOK
  <2>t. row \in [Document -> Row] /\ chunks \in [Document -> BOOLEAN]
    BY DEF CorpusInv, TypeOK
  <2>1. CASE (MarkProcessingCommit(j) \/ MarkFailedCommit(j)) /\ Exists(d)
    <3>1. /\ \A e \in Document \ {d} : row'[e] = row[e] /\ chunks'[e] = chunks[e]
          /\ row'[d] \in {row[d], "processing", "failed"} /\ chunks'[d] = chunks[d]
      BY <2>0, <2>t, <2>1 DEF MarkProcessingCommit, MarkFailedCommit, OrmWrite
    <3>2. Exists(d)'
      BY <2>1, <3>1 DEF Exists, DocumentStatus
    <3>q. QED BY <2>1, <3>1, <3>2, CorpusMove
  <2>2. CASE CommitReady(j)
    <3>1. /\ \A e \in Document \ {d} : row'[e] = row[e] /\ chunks'[e] = chunks[e]
          /\ row'[d] \in {row[d], "ready"} /\ chunks'[d] /\ Exists(d)
      BY <2>0, <2>t, <2>2 DEF CommitReady, OrmWrite, CorpusInv, WritersHoldRow
    <3>2. Exists(d)'
      BY <3>1 DEF Exists, DocumentStatus
    <3>q. QED BY <3>1, <3>2, CorpusMove
  <2>3. CASE (MarkProcessingCommit(j) \/ MarkFailedCommit(j)) /\ ~Exists(d)
    BY <2>0, <2>3, <1>1 DEF MarkProcessingCommit, MarkFailedCommit
  <2>q. QED BY <1>4, <2>1, <2>2, <2>3
<1>q. QED BY <1>1, <1>2, <1>3, <1>4 DEF Next, UploadStep, RequestStep, JobStep, JobFails,
      EndsEarly, RecordFails,
      UploadCheck, UploadInsert, UploadEnqueue, UploadRollback, UploadEnqueueLost,
      RetryCheck, RetryEnqueue, RetryEnqueueLost, DeleteFlush, DeleteRollback,
      Start, TakeLock, MarkProcessingLoad, ReplaceChunksDelete,
      InsertAndMarkReady, CommitFails, FailIngest, MarkFailedLoad, Kill, GiveUp

\* Ingestion implements DocumentCorpus: whatever workers, retries, deletes and
\* failures do, chunks appear whole, stay until the document goes, and are only
\* searched when they are there.
THEOREM IngestImplementsCorpus == Spec => CorpusSpec
<1>1. Init => Corpus!Init
  BY DEF Init, Corpus!Init, corpusOf, visible
<1>2. CorpusInv /\ [Next]_vars => [Corpus!Next]_<<corpusOf, visible>>
  <2> SUFFICES ASSUME CorpusInv, [Next]_vars
               PROVE  Corpus!Next \/ UNCHANGED <<corpusOf, visible>>
    OBVIOUS
  <2>1. CASE UNCHANGED vars
    BY <2>1 DEF vars, corpusOf, visible
  <2>2. CASE Next
    BY <2>2, CorpusStep, CorpusRefinesNext
  <2>q. QED BY <2>1, <2>2
<1>q. QED BY CorpusInit, CorpusStep, <1>1, <1>2, PTL
          DEF Spec, CorpusSpec, Corpus!Spec, Corpus!vars

-----------------------------------------------------------------------------
(* One row, with its bytes *)

\* The row of a document, or the INSERT of it that is not committed yet.
Occupies(d) == Exists(d) \/ upload[d] = "open"

OneOccupant == \A d, e \in Document : Occupies(d) /\ Occupies(e) => d = e

\* The bytes are on disk before the row is committed.
BytesFirst == \A d \in Document : upload[d] = "open" => stored[d]

\* Only an upload's commit makes a row.
LEMMA RowsAreUploaded ==
  ASSUME CorpusInv, [Next]_vars, NEW d \in Document, Exists(d)'
  PROVE  Exists(d) \/ UploadCommit(d)
<1>t. row \in [Document -> Row]
  BY DEF CorpusInv, TypeOK
<1>1. CASE UNCHANGED row
  BY <1>1 DEF Exists
<1>2. ASSUME NEW e \in Document, UploadCommit(e) PROVE Exists(d) \/ UploadCommit(d)
  BY <1>t, <1>2 DEF UploadCommit, Exists
<1>3. ASSUME NEW c \in Client, RetryCommit(c) \/ DeleteCommit(c) PROVE Exists(d)
  BY <1>t, <1>3 DEF RetryCommit, DeleteCommit, Exists, DocumentStatus
<1>4. ASSUME NEW j \in Job, MarkProcessingCommit(j) \/ MarkFailedCommit(j) PROVE Exists(d)
  BY <1>t, <1>4 DEF MarkProcessingCommit, MarkFailedCommit, Exists
<1>5. ASSUME NEW j \in Job, CommitReady(j) PROVE Exists(d)
  BY <1>t, <1>5 DEF CommitReady, Exists, CorpusInv, WritersHoldRow
<1>q. QED BY <1>1, <1>2, <1>3, <1>4, <1>5 DEF vars, Next, UploadStep, RequestStep,
      JobStep, JobFails, EndsEarly, RecordFails,
      UploadCheck, UploadInsert, UploadEnqueue, UploadRollback, UploadEnqueueLost,
      RetryCheck, RetryEnqueue, RetryEnqueueLost, DeleteFlush, DeleteRollback,
      Start, TakeLock, MarkProcessingLoad, ReplaceChunksDelete,
      InsertAndMarkReady, CommitFails, FailIngest, MarkFailedLoad, Kill, GiveUp

\* Only an INSERT that met no row and no other INSERT is left open.
LEMMA InsertsAreAlone ==
  ASSUME CorpusInv, [Next]_vars, NEW d \in Document, upload'[d] = "open"
  PROVE  \/ upload[d] = "open"
         \/ UploadInsert(d) /\ \A e \in Document : ~Occupies(e)
<1>t. upload \in [Document -> UploadPC]
  BY DEF CorpusInv, TypeOK
<1>1. CASE UNCHANGED upload
  BY <1>1
<1>2. ASSUME NEW e \in Document,
             \/ UploadCheck(e) \/ UploadCommit(e) \/ UploadEnqueue(e) \/ UploadRollback(e)
             \/ UploadEnqueueLost(e)
      PROVE  upload[d] = "open"
  BY <1>t, <1>2 DEF UploadCheck, UploadCommit, UploadEnqueue, UploadRollback,
     UploadEnqueueLost
<1>3. ASSUME NEW e \in Document, UploadInsert(e), upload[d] # "open"
      PROVE  UploadInsert(d) /\ \A f \in Document : ~Occupies(f)
  <2>1. e = d
    BY <1>t, <1>3 DEF UploadInsert
  <2>2. \A f \in Document : ~Exists(f)
    BY <1>t, <1>3, <2>1 DEF UploadInsert
  <2>q. QED BY <1>3, <2>1, <2>2 DEF UploadInsert, Occupies
<1>q. QED BY <1>1, <1>2, <1>3 DEF vars, Next, UploadStep, RequestStep, JobStep, JobFails,
      EndsEarly, RecordFails,
      RetryCheck, RetryCommit, RetryEnqueue, RetryEnqueueLost, DeleteFlush, DeleteCommit,
      DeleteRollback, Start, TakeLock, MarkProcessingLoad, MarkProcessingCommit,
      ReplaceChunksDelete, InsertAndMarkReady, CommitReady, CommitFails, FailIngest,
      MarkFailedLoad, MarkFailedCommit, Kill, GiveUp

LEMMA OccupantStep ==
  ASSUME CorpusInv, OneOccupant, [Next]_vars
  PROVE  OneOccupant'
<1>1. ASSUME NEW d \in Document, Occupies(d)'
      PROVE  Occupies(d) \/ (UploadInsert(d) /\ \A e \in Document : ~Occupies(e))
  <2>1. CASE Exists(d)'
    BY <2>1, RowsAreUploaded DEF UploadCommit, Occupies
  <2>2. CASE upload'[d] = "open"
    BY <2>2, InsertsAreAlone DEF Occupies
  <2>q. QED BY <1>1, <2>1, <2>2 DEF Occupies
<1>2. ASSUME NEW d \in Document, NEW e \in Document, UploadInsert(d), upload'[d] = "open",
             upload[e] # "open", upload'[e] = "open"
      PROVE  d = e
  BY <1>2 DEF UploadInsert, CorpusInv, TypeOK
<1>3. ASSUME NEW d \in Document, NEW e \in Document, Occupies(d)', Occupies(e)' PROVE d = e
  <2>1. CASE Occupies(d) /\ Occupies(e)
    BY <2>1 DEF OneOccupant
  <2>2. CASE UploadInsert(d) /\ \A f \in Document : ~Occupies(f)
    <3>1. UNCHANGED row
      BY <2>2 DEF UploadInsert
    <3>2. \A f \in Document : ~Exists(f)' /\ upload[f] # "open"
      BY <2>2, <3>1 DEF Occupies, Exists
    <3>3. upload'[d] = "open" /\ upload'[e] = "open"
      BY <1>3, <3>2 DEF Occupies
    <3>q. QED BY <1>2, <2>2, <3>2, <3>3
  <2>3. CASE UploadInsert(e) /\ \A f \in Document : ~Occupies(f)
    <3>1. UNCHANGED row
      BY <2>3 DEF UploadInsert
    <3>2. \A f \in Document : ~Exists(f)' /\ upload[f] # "open"
      BY <2>3, <3>1 DEF Occupies, Exists
    <3>3. upload'[d] = "open" /\ upload'[e] = "open"
      BY <1>3, <3>2 DEF Occupies
    <3>q. QED BY <1>2, <2>3, <3>2, <3>3
  <2>q. QED BY <1>1, <1>3, <2>1, <2>2, <2>3
<1>q. QED BY <1>3 DEF OneOccupant

\* However many uploads of the same bytes are under way, one row at most is
\* left of them.
THEOREM RowsAreUnique == Spec => []OneRowPerChecksum
<1>1. Init => OneOccupant
  BY DEF Init, OneOccupant, Occupies, Exists, DocumentStatus
<1>2. OneOccupant => OneRowPerChecksum
  BY DEF OneOccupant, Occupies, OneRowPerChecksum
<1>3. CorpusInv /\ OneOccupant /\ [Next]_vars => OneOccupant'
  BY OccupantStep
<1>q. QED BY CorpusInit, CorpusStep, <1>1, <1>2, <1>3, PTL DEF Spec

\* A delete that unlinked the bytes and has not committed.
Unlinking(d) == \E c \in Client : request[c].doc = d /\ request[c].pc = "deleting"

LEMMA BytesStep ==
  ASSUME "undelete" \notin Faults, CorpusInv, BytesFirst, LiveRowHasBytes, [Next]_vars
  PROVE  BytesFirst' /\ LiveRowHasBytes'
<1>t. /\ stored \in [Document -> BOOLEAN] /\ upload \in [Document -> UploadPC]
      /\ row \in [Document -> Row] /\ request \in [Client -> RequestState]
  BY DEF CorpusInv, TypeOK
<1>1. ASSUME NEW d \in Document, stored[d], ~stored'[d]
      PROVE  Exists(d) /\ \E c \in Client : DeleteFlush(c, d)
  <2>1. \/ \E e \in Document : UploadInsert(e)
        \/ \E c \in Client, e \in Document : DeleteFlush(c, e)
    BY <1>1 DEF vars, Next, UploadStep, RequestStep, JobStep, JobFails, EndsEarly,
       RecordFails, UploadCheck, UploadCommit,
       UploadEnqueue, UploadRollback, UploadEnqueueLost, RetryCheck, RetryCommit,
       RetryEnqueue, RetryEnqueueLost, DeleteCommit,
       DeleteRollback, Start, TakeLock, MarkProcessingLoad, MarkProcessingCommit,
       ReplaceChunksDelete, InsertAndMarkReady, CommitReady, CommitFails, FailIngest,
       MarkFailedLoad, MarkFailedCommit, Kill, GiveUp
  <2>2. ASSUME NEW e \in Document, UploadInsert(e) PROVE FALSE
    BY <1>t, <1>1, <2>2 DEF UploadInsert
  <2>3. ASSUME NEW c \in Client, NEW e \in Document, DeleteFlush(c, e)
        PROVE  e = d /\ Exists(e)
    BY <1>t, <1>1, <2>3 DEF DeleteFlush
  <2>q. QED BY <2>1, <2>2, <2>3
<1>2. ASSUME NEW d \in Document, Unlinking(d), ~Unlinking(d)' PROVE row'[d] = "deleted"
  <2>1. PICK c \in Client : request[c].doc = d /\ request[c].pc = "deleting"
    BY <1>2 DEF Unlinking
  <2>2. request'[c] # request[c]
    BY <1>2, <2>1 DEF Unlinking
  <2>3. \E b \in Client : \/ RequestStep(b) \/ RetryEnqueueLost(b) \/ DeleteRollback(b)
                          \/ \E e \in Document : RetryCheck(b, e) \/ DeleteFlush(b, e)
    BY <2>2 DEF vars, Next, UploadStep, JobStep, JobFails, EndsEarly, RecordFails,
       UploadCheck, UploadInsert, UploadCommit,
       UploadEnqueue, UploadRollback, UploadEnqueueLost,
       Start, TakeLock, MarkProcessingLoad, MarkProcessingCommit,
       ReplaceChunksDelete, InsertAndMarkReady, CommitReady, CommitFails, FailIngest,
       MarkFailedLoad, MarkFailedCommit, Kill, GiveUp
  <2>4. ASSUME NEW b \in Client, \/ RetryCommit(b) \/ RetryEnqueue(b) \/ RetryEnqueueLost(b)
                                 \/ \E e \in Document : RetryCheck(b, e) \/ DeleteFlush(b, e)
        PROVE  FALSE
    BY <1>t, <2>1, <2>2, <2>4
       DEF RetryCommit, RetryEnqueue, RetryEnqueueLost, RetryCheck, DeleteFlush
  <2>5. ASSUME NEW b \in Client, DeleteRollback(b) PROVE FALSE
    BY <2>5 DEF DeleteRollback, Fault
  <2>6. ASSUME NEW b \in Client, DeleteCommit(b) PROVE row'[d] = "deleted"
    BY <1>t, <2>1, <2>2, <2>6 DEF DeleteCommit
  <2>q. QED BY <2>3, <2>4, <2>5, <2>6 DEF RequestStep
<1>3. ASSUME NEW d \in Document, upload'[d] = "open" PROVE stored'[d]
  <2>1. CASE upload[d] = "open"
    <3>1. stored[d] /\ ~Exists(d)
      BY <2>1 DEF BytesFirst, CorpusInv, UploadOwnsRow, Exists, DocumentStatus
    <3>q. QED BY <1>1, <3>1
  <2>2. CASE upload[d] # "open"
    <3>1. UploadInsert(d)
      BY <1>3, <2>2, InsertsAreAlone
    <3>q. QED BY <1>t, <1>3, <2>2, <3>1 DEF UploadInsert
  <2>q. QED BY <2>1, <2>2
<1>4. ASSUME NEW d \in Document, Exists(d)' PROVE stored'[d] \/ Unlinking(d)'
  <2>1. CASE UploadCommit(d)
    BY <2>1 DEF UploadCommit, BytesFirst
  <2>2. CASE Exists(d) /\ stored[d] /\ ~stored'[d]
    <3>1. PICK c \in Client : DeleteFlush(c, d)
      BY <1>1, <2>2
    <3>2. request'[c].doc = d /\ request'[c].pc = "deleting"
      BY <1>t, <3>1 DEF DeleteFlush
    <3>q. QED BY <3>2 DEF Unlinking
  <2>3. CASE Exists(d) /\ Unlinking(d)
    BY <1>2, <1>4, <2>3 DEF Exists, DocumentStatus
  <2>4. Exists(d) \/ UploadCommit(d)
    BY <1>4, RowsAreUploaded
  <2>q. QED BY <2>1, <2>2, <2>3, <2>4 DEF LiveRowHasBytes, Unlinking
<1>q. QED BY <1>3, <1>4 DEF BytesFirst, LiveRowHasBytes, Unlinking

\* A committed row has its bytes on disk unless a delete still under way has
\* taken them, as long as no delete is rolled back once it has.
THEOREM BytesOutliveTheRow == "undelete" \notin Faults => (Spec => []LiveRowHasBytes)
<1> SUFFICES ASSUME "undelete" \notin Faults PROVE Spec => []LiveRowHasBytes
  OBVIOUS
<1>1. Init => BytesFirst /\ LiveRowHasBytes
  BY DEF Init, BytesFirst, LiveRowHasBytes, Exists, DocumentStatus
<1>2. CorpusInv /\ BytesFirst /\ LiveRowHasBytes /\ [Next]_vars => BytesFirst' /\ LiveRowHasBytes'
  BY BytesStep
<1>q. QED BY CorpusInit, CorpusStep, <1>1, <1>2, PTL DEF Spec

-----------------------------------------------------------------------------
(* No document is left "processing" without a reason *)

\* A live job will write its document's status yet, unless it is about to write
\* "failed" over a "failed" it has loaded, which writes nothing.
Owes(j) == Live(j) /\ ~(job[j].pc = "failSeen" /\ job[j].fresh = "failed")

Excused(j) ==
    \/ job[j].pc = "abandoned"
    \/ job[j].pc = "finished" /\ job[j].why = "lost"
    \/ job[j].pc = "succeeded" /\ job[j].seen = "ready"

Answers(j) == Owes(j) \/ Excused(j)

\* A live job is not enough: one that writes nothing may be all that is left.
Answered ==
    \A d \in Document : row[d] = "processing" =>
        \E j \in Job : job[j].doc = d /\ Answers(j)

\* No row becomes "processing", and no job that answers for one stops.
LEMMA AnsweredKept ==
  ASSUME TypeOK, Answered,
         \A d \in Document : row'[d] = "processing" => row[d] = "processing",
         \A j \in Job : job[j].pc # "unused" => job'[j] = job[j]
  PROVE  Answered'
<1>1. ASSUME NEW j \in Job, NEW d \in Document, job[j].doc = d, Answers(j)
      PROVE  job'[j].doc = d /\ Answers(j)'
  <2>1. job[j].pc # "unused"
    BY <1>1 DEF Answers, Owes, Excused, Live
  <2>q. QED BY <1>1, <2>1 DEF Answers, Owes, Excused, Live
<1>q. QED BY <1>1 DEF Answered

\* A step of a job.
LEMMA AnsweredMoves ==
  ASSUME TypeOK, Answered, NEW j \in Job, job[j].doc \in Document,
         \A k \in Job \ {j} : job'[k] = job[k],
         job'[j].doc = job[j].doc,
         \A d \in Document \ {job[j].doc} : row'[d] = row[d],
         row'[job[j].doc] = "processing" =>
            \/ Answers(j)'
            \/ row[job[j].doc] = "processing" /\ ~Answers(j)
  PROVE  Answered'
<1> DEFINE d == job[j].doc
<1>1. ASSUME NEW k \in Job \ {j}, Answers(k) PROVE Answers(k)'
  BY <1>1 DEF Answers, Owes, Excused, Live
<1>2. ASSUME NEW e \in Document, row'[e] = "processing"
      PROVE  \E k \in Job : job'[k].doc = e /\ Answers(k)'
  <2>1. CASE e = d /\ Answers(j)'
    BY <2>1
  <2>2. CASE e = d /\ row[d] = "processing" /\ ~Answers(j)
    <3>1. PICK k \in Job : job[k].doc = d /\ Answers(k)
      BY <2>2 DEF Answered
    <3>q. QED BY <1>1, <2>2, <3>1
  <2>3. CASE e # d
    <3>1. PICK k \in Job : job[k].doc = e /\ Answers(k)
      BY <1>2, <2>3 DEF Answered
    <3>q. QED BY <1>1, <2>3, <3>1
  <2>q. QED BY <1>2, <2>1, <2>2, <2>3
<1>q. QED BY <1>2 DEF Answered

LEMMA AnsweredJob ==
  ASSUME CorpusInv, Answered, NEW j \in Job, JobStep(j) \/ JobFails(j)
  PROVE  Answered'
<1> DEFINE d == job[j].doc
<1>0. /\ TypeOK /\ job \in [Job -> JobState] /\ row \in [Document -> Row]
      /\ job[j].pc # "unused" /\ d \in Document /\ job[j] \in JobState
  BY DEF CorpusInv, TypeOK, JobStep, JobFails, EndsEarly, RecordFails, Start, TakeLock,
     MarkProcessingLoad,
         MarkProcessingCommit, ReplaceChunksDelete, InsertAndMarkReady,
         CommitReady, CommitFails, FailIngest, MarkFailedLoad,
         MarkFailedCommit, Kill, Live, GiveUp
<1>1. ASSUME NEW s, job' = [job EXCEPT ![j] = s]
      PROVE  job'[j] = s /\ \A k \in Job \ {j} : job'[k] = job[k]
  BY <1>0, <1>1
<1>2. /\ Finished(j).doc = d /\ Finished(j).pc = "finished"
      /\ Unrecorded(j).doc = d /\ Unrecorded(j).pc = "finished" /\ Unrecorded(j).why = "lost"
      /\ Requeued(j).doc = d /\ Requeued(j).pc = "queued"
      /\ \A why : Failing(j, why).doc = d /\ Failing(j, why).pc = "failing"
  BY <1>0 DEF Finished, Unrecorded, Requeued, Failing, IdleJob, JobState
\* The job still answers for its document.
<1>3. ASSUME NEW s, job' = [job EXCEPT ![j] = s], UNCHANGED row, s.doc = d,
             \/ s.pc \in {"queued", "loaded", "locked", "marking", "embedding", "replacing",
                          "flushed", "failing", "abandoned"}
             \/ s.pc = "finished" /\ s.why = "lost"
      PROVE  Answered'
  <2>1. job'[j] = s /\ \A k \in Job \ {j} : job'[k] = job[k]
    BY <1>1, <1>3
  <2>2. Answers(j)'
    BY <1>3, <2>1 DEF Answers, Owes, Excused, Live
  <2>q. QED BY <1>0, <1>3, <2>1, <2>2, AnsweredMoves
<1>5. CASE Start(j)
  <2>1. /\ [job[j] EXCEPT !.pc = "loaded", !.seen = row[d], !.tries = job[j].tries + 1].doc = d
        /\ [job[j] EXCEPT !.pc = "loaded", !.seen = row[d],
                          !.tries = job[j].tries + 1].pc = "loaded"
    BY <1>0 DEF JobState
  <2>2. /\ [Unrecorded(j) EXCEPT !.tries = job[j].tries + 1].doc = d
        /\ [Unrecorded(j) EXCEPT !.tries = job[j].tries + 1].pc = "finished"
        /\ [Unrecorded(j) EXCEPT !.tries = job[j].tries + 1].why = "lost"
    BY <1>0 DEF Unrecorded, JobState
  <2>q. QED BY <1>3, <1>5, <2>1, <2>2 DEF Start
<1>6. CASE TakeLock(j) \/ GiveUp(j)
  <2>1. \A s \in {[job[j] EXCEPT !.pc = "locked"], [job[j] EXCEPT !.pc = "abandoned"]} :
          s.doc = d /\ s.pc \in {"locked", "abandoned"}
    BY <1>0 DEF JobState
  <2>q. QED BY <1>3, <1>6, <2>1 DEF TakeLock, GiveUp
<1>7. CASE MarkProcessingLoad(j)
  <2>1. /\ [job[j] EXCEPT !.pc = "marking", !.fresh = row[d]].doc = d
        /\ [job[j] EXCEPT !.pc = "marking", !.fresh = row[d]].pc = "marking"
    BY <1>0 DEF JobState
  <2>q. QED BY <1>2, <1>3, <1>7, <2>1 DEF MarkProcessingLoad
<1>8. CASE MarkProcessingCommit(j)
  <2>1. CASE ~Exists(d)
    BY <1>2, <1>3, <1>8, <2>1 DEF MarkProcessingCommit
  <2>2. CASE Exists(d)
    <3>1. /\ job'[j].doc = d /\ job'[j].pc = "embedding"
          /\ \A k \in Job \ {j} : job'[k] = job[k]
          /\ \A e \in Document \ {d} : row'[e] = row[e]
      <4>1. [job[j] EXCEPT !.pc = "embedding"].doc = d /\ [job[j] EXCEPT !.pc = "embedding"].pc = "embedding"
        BY <1>0 DEF JobState
      <4>2. job' = [job EXCEPT ![j] = [job[j] EXCEPT !.pc = "embedding"]]
        BY <1>8, <2>2 DEF MarkProcessingCommit
      <4>3. job'[j] = [job[j] EXCEPT !.pc = "embedding"] /\ \A k \in Job \ {j} : job'[k] = job[k]
        BY <1>1, <4>2
      <4>4. \A e \in Document \ {d} : row'[e] = row[e]
        BY <1>0, <1>8, <2>2 DEF MarkProcessingCommit
      <4>q. QED BY <4>1, <4>3, <4>4
    <3>2. Answers(j)'
      BY <3>1 DEF Answers, Owes, Live
    <3>q. QED BY <1>0, <3>1, <3>2, AnsweredMoves
  <2>q. QED BY <2>1, <2>2
<1>9. CASE ReplaceChunksDelete(j)
  <2>1. /\ [job[j] EXCEPT !.pc = "replacing", !.had = chunks[d]].doc = d
        /\ [job[j] EXCEPT !.pc = "replacing", !.had = chunks[d]].pc = "replacing"
    BY <1>0 DEF JobState
  <2>q. QED BY <1>2, <1>3, <1>9, <2>1 DEF ReplaceChunksDelete
<1>10. CASE InsertAndMarkReady(j)
  <2>1. PICK s \in {[job[j] EXCEPT !.pc = "flushed"], Failing(j, "error"), Failing(j, "collision")} :
           job' = [job EXCEPT ![j] = s]
    BY <1>10 DEF InsertAndMarkReady
  <2>2. [job[j] EXCEPT !.pc = "flushed"].doc = d /\ [job[j] EXCEPT !.pc = "flushed"].pc = "flushed"
    BY <1>0 DEF JobState
  <2>3. UNCHANGED row
    BY <1>10 DEF InsertAndMarkReady
  <2>4. s.doc = d /\ s.pc \in {"flushed", "failing"}
    BY <1>2, <2>2
  <2>q. QED BY <1>3, <2>1, <2>3, <2>4
<1>11. CASE CommitReady(j)
  <2>1. /\ job'[j].doc = d /\ job'[j].pc = "succeeded" /\ job'[j].seen = job[j].seen
        /\ \A k \in Job \ {j} : job'[k] = job[k]
        /\ \A e \in Document \ {d} : row'[e] = row[e]
        /\ row'[d] = OrmWrite(job[j].seen, "ready", row[d])
    BY <1>0, <1>11 DEF CommitReady, JobState
  <2>2. row'[d] = "processing" => Answers(j)'
    BY <2>1 DEF OrmWrite, Answers, Excused
  <2>q. QED BY <1>0, <2>1, <2>2, AnsweredMoves
<1>12. CASE JobFails(j) \/ FailIngest(j)
  BY <1>2, <1>3, <1>12 DEF JobFails, EndsEarly, CommitFails, RecordFails, FailIngest, Kill
<1>13. CASE MarkFailedLoad(j)
  <2>1. CASE Exists(d)
    <3>1. /\ job'[j].doc = d /\ job'[j].pc = "failSeen" /\ job'[j].fresh = row[d]
          /\ \A k \in Job \ {j} : job'[k] = job[k]
          /\ UNCHANGED row
      BY <1>0, <1>13, <2>1 DEF MarkFailedLoad, JobState
    <3>2. row'[d] = "processing" => Answers(j)'
      BY <3>1 DEF Answers, Owes, Live
    <3>q. QED BY <1>0, <3>1, <3>2, AnsweredMoves
  <2>2. CASE ~Exists(d)
    <3>1. /\ job'[j].doc = d /\ \A k \in Job \ {j} : job'[k] = job[k]
          /\ UNCHANGED row
      BY <1>0, <1>2, <1>13, <2>2 DEF MarkFailedLoad
    <3>2. row'[d] # "processing"
      BY <2>2, <3>1 DEF Exists, DocumentStatus
    <3>q. QED BY <1>0, <3>1, <3>2, AnsweredMoves
  <2>q. QED BY <2>1, <2>2
<1>14. CASE MarkFailedCommit(j)
  <2>1. /\ job'[j].doc = d /\ \A k \in Job \ {j} : job'[k] = job[k]
        /\ \A e \in Document \ {d} : row'[e] = row[e]
    BY <1>0, <1>2, <1>14 DEF MarkFailedCommit
  <2>2. row'[d] = "processing" => row[d] = "processing" /\ job[j].fresh = "failed"
    <3>1. CASE Exists(d)
      BY <1>0, <1>14, <3>1 DEF MarkFailedCommit, OrmWrite
    <3>2. CASE ~Exists(d)
      BY <1>0, <1>14, <3>2 DEF MarkFailedCommit, Exists, DocumentStatus
    <3>q. QED BY <3>1, <3>2
  <2>3. job[j].pc = "failSeen"
    BY <1>14 DEF MarkFailedCommit
  <2>4. row'[d] = "processing" => ~Answers(j)
    BY <2>2, <2>3 DEF Answers, Owes, Excused
  <2>q. QED BY <1>0, <2>1, <2>2, <2>4, AnsweredMoves
<1>q. QED BY <1>5, <1>6, <1>7, <1>8, <1>9, <1>10, <1>11, <1>12, <1>13, <1>14 DEF JobStep

LEMMA AnsweredStep ==
  ASSUME CorpusInv, Answered, [Next]_vars
  PROVE  Answered'
<1>0. TypeOK /\ row \in [Document -> Row] /\ job \in [Job -> JobState]
  BY DEF CorpusInv, TypeOK
<1>1. CASE UNCHANGED <<row, job>>
  BY <1>0, <1>1, AnsweredKept
<1>2. ASSUME NEW d, Enqueue(d), UNCHANGED row PROVE Answered'
  <2>1. \A j \in Job : job[j].pc # "unused" => job'[j] = job[j]
    BY <1>0, <1>2 DEF Enqueue
  <2>q. QED BY <1>0, <1>2, <2>1, AnsweredKept
<1>3. ASSUME NEW d \in Document, UploadCommit(d) PROVE Answered'
  <2>1. \A e \in Document : row'[e] = "processing" => row[e] = "processing"
    BY <1>0, <1>3 DEF UploadCommit
  <2>q. QED BY <1>0, <1>3, <2>1, AnsweredKept DEF UploadCommit
<1>4. ASSUME NEW c \in Client, RetryCommit(c) \/ DeleteCommit(c) PROVE Answered'
  <2>1. UNCHANGED job /\ \A e \in Document : row'[e] = "processing" => row[e] = "processing"
    BY <1>0, <1>4 DEF RetryCommit, DeleteCommit, OrmWrite
  <2>q. QED BY <1>0, <2>1, AnsweredKept
<1>5. ASSUME NEW j \in Job, JobStep(j) \/ JobFails(j) PROVE Answered'
  BY <1>5, AnsweredJob
<1>q. QED BY <1>1, <1>2, <1>3, <1>4, <1>5 DEF vars, Next, UploadStep, RequestStep,
      UploadCheck, UploadInsert, UploadEnqueue, UploadRollback, UploadEnqueueLost,
      RetryCheck, RetryEnqueue, RetryEnqueueLost, DeleteFlush, DeleteRollback

\* A document is left "processing" by a job that ran out of tries, by one that
\* ended with nothing recorded, or by a second ingest of a document its session
\* had loaded as "ready"; by nothing else, whatever fails and interleaves.
THEOREM StuckForAReason == Spec => []StuckOnlyByAbandonedOrReadyReingest
<1>1. Init => Answered
  BY DEF Init, Answered
<1>2. Answered => StuckOnlyByAbandonedOrReadyReingest
  BY DEF Answered, Answers, Owes, Excused, Stranded, StuckOnlyByAbandonedOrReadyReingest
<1>3. CorpusInv /\ Answered /\ [Next]_vars => Answered'
  BY AnsweredStep
<1>q. QED BY CorpusInit, CorpusStep, <1>1, <1>2, <1>3, PTL DEF Spec
=============================================================================
