------------------------ MODULE ProductImportProofs ------------------------
(***************************************************************************)
(* Theorems about ProductImport for any products, texts, imports, chunk    *)
(* size and failures.                                                      *)
(***************************************************************************)
EXTENDS ProductImport, FiniteSetTheorems, TLAPS

USE TextAssumption, ChunkAssumption, BoundsAssumption, ProductAssumption

\* In the try block of run_import; with the failure path, run_import itself.
Trying == {"choosing", "writing", "holding"}
Running == Trying \union {"failing"}

\* Every row of the file is on exactly one of the four lists.
Partition(i) ==
    /\ RowsOf(file[i]) =
         job[i].todo \union job[i].alone \union job[i].written \union job[i].refused
    /\ job[i].written \intersect job[i].refused = {}
    /\ (job[i].written \union job[i].refused)
         \intersect (job[i].todo \union job[i].alone) = {}
    /\ job[i].todo \intersect job[i].alone = {}

JobOK(i) ==
    /\ job[i].pc = "absent" =>
         /\ status[i] = "absent"
         /\ job[i].pending = {} /\ job[i].todo = {}
         /\ job[i].alone = {} /\ job[i].refused = {}
    /\ job[i].pc \in Running => status[i] = "processing"
    /\ job[i].pc = "queued" =>
         job[i].written = {} /\ job[i].refused = {} /\ job[i].alone = {}
    /\ job[i].pc \in {"created", "unqueued"} =>
         job[i].written = {} /\ job[i].refused = {} /\ job[i].alone = {}
    /\ job[i].pc = "absent" => job[i].written = {}
    /\ job[i].pc \in Trying => Partition(i)
    /\ job[i].pc = "writing" =>
         job[i].batch \subseteq
           IF job[i].alone = {} THEN job[i].todo ELSE job[i].alone
    /\ job[i].pending \subseteq RowsOf(file[i])

\* What pending lists exists, and what is held is read as it stands.
Rows(i) ==
    /\ \A p \in job[i].pending : text[p] # NoText
    /\ job[i].pc = "holding" =>
         \A p \in job[i].batch : job[i].read[p] = text[p] /\ text[p] # NoText

\* An unflagged hash is the text's; unless raced, a hash is the vector's.
Flags ==
    \A p \in Product :
        /\ hash[p] # NoText /\ ~stale[p] => hash[p] = text[p]
        /\ ~raced[p] => hash[p] \in {NoText, vector[p]}

Jobs == \A i \in Import : JobOK(i)
AllRows == \A i \in Import : Rows(i)

Step(i) ==
    \/ Submit(i) \/ Enqueue(i) \/ EnqueueLost(i) \/ JobStep(i)
    \/ ChunkRefused(i) \/ RowRefused(i) \/ EmbeddingFails(i)
    \/ Break(i) \/ RecordLost(i) \/ Kill(i)

LEMMA InitTyped == Init => TypeOK
  BY DEF Init, TypeOK, Blank, Texts, Files, Unreadable, FreshJob, JobState, JobPC,
         NoReport

LEMMA SliceSubset ==
  ASSUME NEW S, NEW s \in Slices(S) PROVE s \subseteq S
  BY DEF Slices

\* A step that leaves everything else typed and gives import i a typed job.
LEMMA JobTyped ==
  ASSUME TypeOK, NEW i \in Import, NEW s \in JobState,
         job' = [job EXCEPT ![i] = s],
         UNCHANGED <<catalogue, status, report, file>>,
         faults' \in 0..MaxFaults
  PROVE  TypeOK'
  BY DEF TypeOK, catalogue

LEMMA FreshTyped == FreshJob \in JobState
  BY DEF FreshJob, JobState, JobPC, Blank, Texts

LEMMA FaultTyped ==
  ASSUME TypeOK, NEW kind, Fault(kind) PROVE faults' \in 0..MaxFaults
  BY DEF Fault, TypeOK

LEMMA StepTyped ==
  ASSUME TypeOK, [Next]_vars PROVE TypeOK'
<1>s. CASE UNCHANGED vars
  BY <1>s DEF TypeOK, vars
<1>n. ASSUME NEW i \in Import, Step(i) PROVE TypeOK'
  <2>0. /\ job[i] \in JobState
        /\ job[i].batch \subseteq Product /\ job[i].read \in [Product -> Texts]
        /\ file[i].rows \in [Product -> Texts] /\ file[i].spoiled \in Nat
    <3>1. file[i] \in Files /\ job[i] \in JobState
      BY DEF TypeOK
    <3>2. file[i].rows \in [Product -> Texts] /\ file[i].spoiled \in Nat
      <4>1. CASE file[i] = Unreadable
        BY <4>1 DEF Unreadable, Blank, Texts
      <4>2. CASE file[i] # Unreadable
        <5>1. file[i] \in [rows : [Product -> Texts], spoiled : 0..MaxSpoiled,
                           readable : {TRUE}]
          BY <3>1, <4>2 DEF Files
        <5>2. file[i].rows \in [Product -> Texts] /\ file[i].spoiled \in 0..MaxSpoiled
          BY <5>1, Zenon
        <5>3. 0..MaxSpoiled \subseteq Nat
          OBVIOUS
        <5>q. QED BY <5>2, <5>3, Zenon
      <4>q. QED BY <4>1, <4>2
    <3>q. QED BY <3>1, <3>2 DEF JobState
  <2>pc. \A pc \in JobPC : [job[i] EXCEPT !.pc = pc] \in JobState
    BY <2>0 DEF JobState
  <2>fault. \A kind : Fault(kind) => faults' \in 0..MaxFaults
    BY FaultTyped
  <2>same. faults' = faults => faults' \in 0..MaxFaults
    BY DEF TypeOK
  <2>requeued. Requeued(i) \in JobState
    BY <2>0, FreshTyped DEF Requeued, JobState, JobPC
  <2>taken. Taken(i) \in JobState
    BY <2>0 DEF Taken, JobState, JobPC, Blank, Texts
  <2>1. CASE Submit(i)
    BY <2>1, <2>pc DEF Submit, TypeOK, JobPC, catalogue
  <2>2. CASE Enqueue(i)
    <3>1. job' = [job EXCEPT ![i] = [job[i] EXCEPT !.pc = "queued"]]
      BY <2>2 DEF Enqueue, TypeOK
    <3>q. QED BY <2>2, <3>1, <2>pc, <2>same, JobTyped DEF Enqueue, JobPC
  <2>3. CASE EnqueueLost(i)
    <3>1. job' = [job EXCEPT ![i] = [job[i] EXCEPT !.pc = "unqueued"]]
      BY <2>3 DEF EnqueueLost, TypeOK
    <3>q. QED BY <2>3, <3>1, <2>pc, <2>fault, JobTyped DEF EnqueueLost, JobPC
  <2>4. CASE Start(i)
    <3>1. job[i].tries + 1 \in 0..MaxTries
      BY <2>0, <2>4 DEF Start, JobState
    <3>2. RowsOf(file[i]) \subseteq Product
      BY DEF RowsOf
    <3> DEFINE s == [job[i] EXCEPT !.tries = job[i].tries + 1, !.todo = RowsOf(file[i]),
                       !.pc = IF file[i].readable THEN "choosing" ELSE "failing"]
    <3>3. s \in JobState
      BY <2>0, <3>1, <3>2 DEF JobState, JobPC
    <3>4. job' = [job EXCEPT ![i] = s]
      BY <2>4 DEF Start, TypeOK
    <3>q. QED BY <2>4, <3>3, <3>4 DEF Start, TypeOK, catalogue
  <2>5. CASE ReadHashes(i)
    <3>1. PICK rows \in (IF job[i].alone # {} THEN {{p} : p \in job[i].alone}
                                          ELSE Slices(job[i].todo)) :
            job' = [job EXCEPT ![i] = [job[i] EXCEPT !.pc = "writing", !.batch = rows,
                      !.read = [p \in Product |->
                                  IF p \in rows THEN hash[p] ELSE NoText]]]
      BY <2>5 DEF ReadHashes
    <3>2. rows \subseteq Product
      BY <2>0, <3>1, SliceSubset DEF JobState
    <3>3. [p \in Product |-> IF p \in rows THEN hash[p] ELSE NoText]
            \in [Product -> Texts]
      BY DEF TypeOK, Texts
    <3>4. job'[i] \in JobState /\ job' = [job EXCEPT ![i] = job'[i]]
      BY <2>0, <3>1, <3>2, <3>3 DEF JobState, JobPC, TypeOK
    <3>q. QED BY <2>5, <3>4, <2>same, JobTyped DEF ReadHashes
  <2>6. CASE Upsert(i)
    <3>1. /\ text' \in [Product -> Texts] /\ hash' \in [Product -> Texts]
          /\ stale' \in [Product -> BOOLEAN] /\ raced' \in [Product -> BOOLEAN]
      BY <2>0, <2>6 DEF Upsert, TypeOK
    <3>2. /\ job'[i] \in JobState /\ job' = [job EXCEPT ![i] = job'[i]]
      BY <2>0, <2>6, <2>taken DEF Upsert, TypeOK, JobState
    <3>q. QED BY <2>6, <3>1, <3>2 DEF Upsert, TypeOK
  <2>7. CASE EmbedRows(i)
    <3>1. PICK rows \in Slices(job[i].pending) :
            job' = [job EXCEPT ![i] =
              [job[i] EXCEPT !.pc = "holding", !.batch = {p \in rows : NeedsReembedding(p)},
                 !.pending = job[i].pending \ (rows \ {p \in rows : NeedsReembedding(p)}),
                 !.read = [p \in Product |->
                    IF p \in {q \in rows : NeedsReembedding(q)} THEN text[p] ELSE NoText]]]
      BY <2>7 DEF EmbedRows
    <3>2. rows \subseteq Product
      BY <2>0, <3>1, SliceSubset DEF JobState
    <3>3. [p \in Product |-> IF p \in {q \in rows : NeedsReembedding(q)}
                               THEN text[p] ELSE NoText] \in [Product -> Texts]
      BY DEF TypeOK, Texts
    <3> DEFINE needy == {p \in rows : NeedsReembedding(p)}
               s == [job[i] EXCEPT !.pc = "holding", !.batch = needy,
                       !.pending = job[i].pending \ (rows \ needy),
                       !.read = [p \in Product |->
                                   IF p \in needy THEN text[p] ELSE NoText]]
    <3>4. s \in JobState
      BY <2>0, <3>2, <3>3 DEF JobState, JobPC
    <3>5. job' = [job EXCEPT ![i] = s]
      BY <3>1 DEF TypeOK
    <3>q. QED BY <2>7, <3>4, <3>5, <2>same, JobTyped DEF EmbedRows
  <2>8. CASE StoreVectors(i)
    <3>1. /\ vector' \in [Product -> Texts] /\ hash' \in [Product -> Texts]
          /\ stale' \in [Product -> BOOLEAN] /\ raced' \in [Product -> BOOLEAN]
      BY <2>0, <2>8 DEF StoreVectors, TypeOK
    <3> DEFINE s == [job[i] EXCEPT !.pc = "choosing", !.batch = {}, !.read = Blank,
                                   !.pending = job[i].pending \ job[i].batch]
    <3>2. s \in JobState
      BY <2>0 DEF JobState, JobPC, Blank, Texts
    <3>3. job' = [job EXCEPT ![i] = s]
      BY <2>8 DEF StoreVectors, TypeOK
    <3>q. QED BY <2>8, <3>1, <3>2, <3>3 DEF StoreVectors, TypeOK
  <2>9. CASE Complete(i)
    <3>1. /\ Cardinality(RowsOf(file[i])) \in Nat
          /\ Cardinality(job[i].written) \in Nat
          /\ Cardinality(job[i].refused) \in Nat
      BY <2>0, FS_Subset, FS_CardinalityType DEF RowsOf, JobState
    <3>2. [total |-> Cardinality(RowsOf(file[i])) + file[i].spoiled,
           succeeded |-> Cardinality(job[i].written),
           failed |-> file[i].spoiled + Cardinality(job[i].refused),
           warning |-> job[i].warned]
            \in [total : Nat, succeeded : Nat, failed : Nat, warning : BOOLEAN]
      BY <2>0, <3>1 DEF JobState
    <3>3. report' \in [Import -> [total : Nat, succeeded : Nat, failed : Nat,
                                  warning : BOOLEAN]]
      BY <2>9, <3>2 DEF Complete, TypeOK
    <3>4. job' = [job EXCEPT ![i] = [job[i] EXCEPT !.pc = "recorded"]]
      BY <2>9 DEF Complete, TypeOK
    <3>q. QED BY <2>9, <3>3, <3>4, <2>pc DEF Complete, TypeOK, JobPC, catalogue
  <2>10. CASE MarkFailed(i)
    <3>1. \E s \in JobState : job' = [job EXCEPT ![i] = s]
      BY <2>10, <2>pc, <2>requeued DEF MarkFailed, JobPC, TypeOK
    <3>q. QED BY <2>10, <3>1 DEF MarkFailed, TypeOK, catalogue
  <2>11. CASE Acknowledge(i)
    <3>1. job' = [job EXCEPT ![i] = [job[i] EXCEPT !.pc = "finished"]]
      BY <2>11 DEF Acknowledge, TypeOK
    <3>q. QED BY <2>11, <3>1, <2>pc, <2>same, JobTyped DEF Acknowledge, JobPC
  <2>12. CASE GiveUp(i)
    <3>1. job' = [job EXCEPT ![i] = [job[i] EXCEPT !.pc = "abandoned"]]
      BY <2>12 DEF GiveUp, TypeOK
    <3>q. QED BY <2>12, <3>1, <2>pc, <2>same, JobTyped DEF GiveUp, JobPC
  <2>13. CASE ChunkRefused(i)
    <3>1. [Taken(i) EXCEPT !.alone = job[i].batch] \in JobState
      BY <2>0, <2>taken DEF JobState
    <3>q. QED BY <2>13, <3>1, <2>fault, JobTyped DEF ChunkRefused
  <2>14. CASE RowRefused(i)
    <3>1. [Taken(i) EXCEPT !.refused = job[i].refused \union job[i].batch] \in JobState
      BY <2>0, <2>taken DEF JobState
    <3>q. QED BY <2>14, <3>1, <2>same, JobTyped DEF RowRefused
  <2>15. CASE EmbeddingFails(i)
    <3>1. [job[i] EXCEPT !.pc = "choosing", !.batch = {}, !.read = Blank,
                         !.warned = TRUE] \in JobState
      BY <2>0 DEF JobState, JobPC, Blank, Texts
    <3>2. job' = [job EXCEPT ![i] = [job[i] EXCEPT !.pc = "choosing",
                    !.batch = {}, !.read = Blank, !.warned = TRUE]]
      BY <2>15 DEF EmbeddingFails, TypeOK
    <3>q. QED BY <2>15, <3>1, <3>2, <2>fault, JobTyped DEF EmbeddingFails
  <2>16. CASE Break(i)
    <3>1. PICK cancelled \in BOOLEAN : job' = [job EXCEPT ![i] =
            [job[i] EXCEPT !.pc = "failing", !.batch = {}, !.read = Blank,
                           !.cancelled = cancelled]]
      BY <2>16 DEF Break, TypeOK
    <3>2. [job[i] EXCEPT !.pc = "failing", !.batch = {}, !.read = Blank,
                         !.cancelled = cancelled] \in JobState
      BY <2>0 DEF JobState, JobPC, Blank, Texts
    <3>q. QED BY <2>16, <3>1, <3>2, <2>fault, JobTyped DEF Break
  <2>17. CASE RecordLost(i)
    <3>1. job' = [job EXCEPT ![i] = [job[i] EXCEPT !.pc = "lost"]]
      BY <2>17 DEF RecordLost, TypeOK
    <3>q. QED BY <2>17, <3>1, <2>pc, <2>fault, JobTyped DEF RecordLost, JobPC
  <2>18. CASE Kill(i)
    BY <2>18, <2>requeued, <2>fault, JobTyped DEF Kill
  <2>q. QED
    BY <1>n, <2>1, <2>2, <2>3, <2>4, <2>5, <2>6, <2>7, <2>8, <2>9, <2>10, <2>11,
       <2>12, <2>13, <2>14, <2>15, <2>16, <2>17, <2>18 DEF Step, JobStep
<1>q. QED BY <1>s, <1>n DEF Next, Step

\* Every variable keeps its type.
THEOREM ImportTyped == Spec => []TypeOK
<1>1. TypeOK /\ [Next]_vars => TypeOK'
  BY StepTyped
<1>q. QED BY InitTyped, <1>1, PTL DEF Spec

-----------------------------------------------------------------------------
\* A step of one import touches no other's record, file or job.
LEMMA Frame ==
  ASSUME TypeOK, NEW i \in Import, Step(i), NEW k \in Import, k # i
  PROVE  /\ job'[k] = job[k] /\ file'[k] = file[k]
         /\ status'[k] = status[k] /\ report'[k] = report[k]
<1>1. CASE Submit(i) \/ Enqueue(i) \/ EnqueueLost(i) \/ Start(i) \/ ReadHashes(i)
  BY <1>1 DEF Submit, Enqueue, EnqueueLost, Start, ReadHashes, TypeOK
<1>2. CASE Upsert(i) \/ EmbedRows(i) \/ StoreVectors(i) \/ Complete(i)
  BY <1>2 DEF Upsert, EmbedRows, StoreVectors, Complete, TypeOK
<1>3. CASE MarkFailed(i) \/ Acknowledge(i) \/ GiveUp(i) \/ ChunkRefused(i) \/ RowRefused(i)
  BY <1>3 DEF MarkFailed, Acknowledge, GiveUp, ChunkRefused, RowRefused, TypeOK
<1>4. CASE EmbeddingFails(i) \/ Break(i) \/ RecordLost(i) \/ Kill(i)
  BY <1>4 DEF EmbeddingFails, Break, RecordLost, Kill, TypeOK
<1>q. QED BY <1>1, <1>2, <1>3, <1>4 DEF Step, JobStep

LEMMA JobsInit == Init => Jobs /\ AllRows /\ Flags
  BY DEF Init, Jobs, AllRows, Flags, JobOK, Rows, FreshJob, Blank, Running, Trying

\* What a transaction took from the lists was on one of them.
LEMMA BatchOnList ==
  ASSUME TypeOK, NEW i \in Import, JobOK(i), job[i].pc = "writing"
  PROVE  job[i].batch \subseteq RowsOf(file[i])
  BY DEF JobOK, Partition, Trying

LEMMA JobOKStep ==
  ASSUME TypeOK, NEW i \in Import, JobOK(i), Step(i) PROVE JobOK(i)'
<1>0. job[i] \in JobState
  BY DEF TypeOK
<1> USE DEF JobOK, Running, Trying
<1>1. CASE Submit(i)
  <2>1. job'[i] = [job[i] EXCEPT !.pc = "created"]
    BY <1>1 DEF Submit, TypeOK
  <2>q. QED BY <1>0, <1>1, <2>1 DEF Submit, JobState
<1>2. CASE Enqueue(i)
  <2>1. job'[i] = [job[i] EXCEPT !.pc = "queued"]
    BY <1>2 DEF Enqueue, TypeOK
  <2>q. QED BY <1>0, <1>2, <2>1 DEF Enqueue, JobState
<1>3. CASE EnqueueLost(i)
  <2>1. job'[i] = [job[i] EXCEPT !.pc = "unqueued"]
    BY <1>3 DEF EnqueueLost, TypeOK
  <2>q. QED BY <1>0, <1>3, <2>1 DEF EnqueueLost, JobState
<1>4. CASE Start(i)
  <2>1. /\ job'[i].todo = RowsOf(file[i])
        /\ job'[i].pc \in {"choosing", "failing"}
        /\ job'[i].alone = job[i].alone /\ job'[i].written = job[i].written
        /\ job'[i].refused = job[i].refused /\ job'[i].pending = job[i].pending
    BY <1>0, <1>4 DEF Start, TypeOK, JobState
  <2>2. status'[i] = "processing" /\ file' = file
    BY <1>4 DEF Start, TypeOK
  <2>q. QED BY <1>4, <2>1, <2>2 DEF Start, Partition
<1>5. CASE ReadHashes(i)
  <2>1. PICK rows \in (IF job[i].alone # {} THEN {{p} : p \in job[i].alone}
                                        ELSE Slices(job[i].todo)) :
          job' = [job EXCEPT ![i] = [job[i] EXCEPT !.pc = "writing", !.batch = rows,
                    !.read = [p \in Product |->
                                IF p \in rows THEN hash[p] ELSE NoText]]]
    BY <1>5 DEF ReadHashes
  <2>2. rows \subseteq IF job[i].alone = {} THEN job[i].todo ELSE job[i].alone
    BY <2>1, SliceSubset
  <2>3. /\ job'[i].pc = "writing" /\ job'[i].batch = rows
        /\ job'[i].todo = job[i].todo /\ job'[i].alone = job[i].alone
        /\ job'[i].written = job[i].written /\ job'[i].refused = job[i].refused
        /\ job'[i].pending = job[i].pending
    BY <1>0, <2>1 DEF TypeOK, JobState
  <2>4. job[i].pc = "choosing" /\ file' = file /\ status' = status
    BY <1>5 DEF ReadHashes
  <2>q. QED BY <2>2, <2>3, <2>4 DEF Partition
<1>6. CASE Upsert(i)
  <2>1. /\ job'[i].pc = "choosing"
        /\ job'[i].todo = job[i].todo \ job[i].batch
        /\ job'[i].alone = job[i].alone \ job[i].batch
        /\ job'[i].written = job[i].written \union job[i].batch
        /\ job'[i].refused = job[i].refused
        /\ job'[i].pending \subseteq job[i].pending \union job[i].batch
    BY <1>0, <1>6 DEF Upsert, Taken, TypeOK, JobState
  <2>2. job[i].pc = "writing" /\ file' = file /\ status' = status
    BY <1>6 DEF Upsert
  <2>3. Partition(i)'
    BY <2>1, <2>2 DEF Partition
  <2>q. QED BY <2>1, <2>2, <2>3, BatchOnList
<1>7. CASE EmbedRows(i)
  <2>1. /\ job'[i].pc = "holding"
        /\ job'[i].todo = job[i].todo /\ job'[i].alone = job[i].alone
        /\ job'[i].written = job[i].written /\ job'[i].refused = job[i].refused
        /\ job'[i].pending \subseteq job[i].pending
    BY <1>0, <1>7 DEF EmbedRows, TypeOK, JobState
  <2>2. job[i].pc = "choosing" /\ file' = file /\ status' = status
    BY <1>7 DEF EmbedRows, AllWritten
  <2>q. QED BY <2>1, <2>2 DEF Partition
<1>8. CASE StoreVectors(i)
  <2>1. /\ job'[i].pc = "choosing"
        /\ job'[i].todo = job[i].todo /\ job'[i].alone = job[i].alone
        /\ job'[i].written = job[i].written /\ job'[i].refused = job[i].refused
        /\ job'[i].pending \subseteq job[i].pending
    BY <1>0, <1>8 DEF StoreVectors, TypeOK, JobState
  <2>2. job[i].pc = "holding" /\ file' = file /\ status' = status
    BY <1>8 DEF StoreVectors
  <2>q. QED BY <2>1, <2>2 DEF Partition
<1>9. CASE Complete(i)
  <2>1. job'[i] = [job[i] EXCEPT !.pc = "recorded"]
    BY <1>9 DEF Complete, TypeOK
  <2>q. QED BY <1>0, <1>9, <2>1 DEF Complete, AllWritten, JobState
<1>10. CASE MarkFailed(i)
  <2>1. \/ job'[i] = [job[i] EXCEPT !.pc = "finished"]
        \/ job'[i] = Requeued(i)
    BY <1>10 DEF MarkFailed, TypeOK
  <2>q. QED BY <1>0, <1>10, <2>1 DEF MarkFailed, Requeued, FreshJob, JobState
<1>11. CASE Acknowledge(i)
  <2>1. job'[i] = [job[i] EXCEPT !.pc = "finished"]
    BY <1>11 DEF Acknowledge, TypeOK
  <2>q. QED BY <1>0, <1>11, <2>1 DEF Acknowledge, JobState
<1>12. CASE GiveUp(i)
  <2>1. job'[i] = [job[i] EXCEPT !.pc = "abandoned"]
    BY <1>12 DEF GiveUp, TypeOK
  <2>q. QED BY <1>0, <1>12, <2>1 DEF GiveUp, JobState
<1>13. CASE ChunkRefused(i)
  <2>1. /\ job'[i].pc = "choosing"
        /\ job'[i].todo = job[i].todo \ job[i].batch
        /\ job'[i].alone = job[i].batch
        /\ job'[i].written = job[i].written /\ job'[i].refused = job[i].refused
        /\ job'[i].pending = job[i].pending
    BY <1>0, <1>13 DEF ChunkRefused, Taken, TypeOK, JobState
  <2>2. /\ job[i].pc = "writing" /\ job[i].alone = {}
        /\ file' = file /\ status' = status
    BY <1>13 DEF ChunkRefused
  <2>q. QED BY <2>1, <2>2 DEF Partition
<1>14. CASE RowRefused(i)
  <2>1. /\ job'[i].pc = "choosing"
        /\ job'[i].todo = job[i].todo \ job[i].batch
        /\ job'[i].alone = job[i].alone \ job[i].batch
        /\ job'[i].written = job[i].written
        /\ job'[i].refused = job[i].refused \union job[i].batch
        /\ job'[i].pending = job[i].pending
    BY <1>0, <1>14 DEF RowRefused, Taken, TypeOK, JobState
  <2>2. job[i].pc = "writing" /\ file' = file /\ status' = status
    BY <1>14 DEF RowRefused
  <2>q. QED BY <2>1, <2>2 DEF Partition
<1>15. CASE EmbeddingFails(i)
  <2>1. /\ job'[i].pc = "choosing"
        /\ job'[i].todo = job[i].todo /\ job'[i].alone = job[i].alone
        /\ job'[i].written = job[i].written /\ job'[i].refused = job[i].refused
        /\ job'[i].pending = job[i].pending
    BY <1>0, <1>15 DEF EmbeddingFails, TypeOK, JobState
  <2>2. job[i].pc = "holding" /\ file' = file /\ status' = status
    BY <1>15 DEF EmbeddingFails
  <2>q. QED BY <2>1, <2>2 DEF Partition
<1>16. CASE Break(i)
  <2>1. /\ job'[i].pc = "failing" /\ job'[i].pending = job[i].pending
    BY <1>0, <1>16 DEF Break, TypeOK, JobState
  <2>2. job[i].pc \in Trying /\ file' = file /\ status' = status
    BY <1>16 DEF Break
  <2>q. QED BY <2>1, <2>2
<1>17. CASE RecordLost(i)
  <2>1. job'[i] = [job[i] EXCEPT !.pc = "lost"]
    BY <1>17 DEF RecordLost, TypeOK
  <2>q. QED BY <1>0, <1>17, <2>1 DEF RecordLost, JobState
<1>18. CASE Kill(i)
  <2>1. job'[i] = Requeued(i)
    BY <1>18 DEF Kill, TypeOK
  <2>2. /\ job'[i].pc = "queued" /\ job'[i].pending = {}
        /\ job'[i].alone = {} /\ job'[i].written = {} /\ job'[i].refused = {}
    BY <2>1 DEF Requeued, FreshJob
  <2>q. QED BY <2>2
<1>q. QED
  BY <1>1, <1>2, <1>3, <1>4, <1>5, <1>6, <1>7, <1>8, <1>9, <1>10, <1>11, <1>12,
     <1>13, <1>14, <1>15, <1>16, <1>17, <1>18 DEF Step, JobStep

LEMMA JobsStep == TypeOK /\ Jobs /\ [Next]_vars => Jobs'
<1> SUFFICES ASSUME TypeOK, Jobs, [Next]_vars PROVE Jobs'
  OBVIOUS
<1>s. CASE UNCHANGED vars
  BY <1>s DEF Jobs, JobOK, Partition, vars
<1>n. ASSUME NEW i \in Import, Step(i), NEW k \in Import PROVE JobOK(k)'
  <2>1. CASE k = i
    BY <1>n, <2>1, JobOKStep DEF Jobs
  <2>2. CASE k # i
    BY <1>n, <2>2, Frame DEF Jobs, JobOK, Partition, RowsOf
  <2>q. QED BY <2>1, <2>2
<1>q. QED BY <1>s, <1>n DEF Next, Step, Jobs

-----------------------------------------------------------------------------
\* Only Upsert and StoreVectors write products.
LEMMA CatalogueSteps ==
  ASSUME TypeOK, NEW i \in Import, Step(i), ~Upsert(i), ~StoreVectors(i)
  PROVE  UNCHANGED catalogue
<1>1. CASE Submit(i) \/ Enqueue(i) \/ EnqueueLost(i) \/ Start(i) \/ ReadHashes(i)
  BY <1>1 DEF Submit, Enqueue, EnqueueLost, Start, ReadHashes
<1>2. CASE EmbedRows(i) \/ Complete(i) \/ MarkFailed(i) \/ Acknowledge(i) \/ GiveUp(i)
  BY <1>2 DEF EmbedRows, Complete, MarkFailed, Acknowledge, GiveUp
<1>3. CASE \/ ChunkRefused(i) \/ RowRefused(i) \/ EmbeddingFails(i)
           \/ Break(i) \/ RecordLost(i) \/ Kill(i)
  BY <1>3 DEF ChunkRefused, RowRefused, EmbeddingFails, Break, RecordLost, Kill
<1>q. QED BY <1>1, <1>2, <1>3 DEF Step, JobStep

\* An upsert writes text into the rows of its batch, which the file has.
LEMMA UpsertWrites ==
  ASSUME TypeOK, NEW i \in Import, JobOK(i), Upsert(i), NEW p \in Product
  PROVE  /\ p \in job[i].batch => text'[p] = file[i].rows[p] /\ text'[p] # NoText
         /\ p \notin job[i].batch =>
              text'[p] = text[p] /\ hash'[p] = hash[p] /\ stale'[p] = stale[p]
         /\ text[p] # NoText => text'[p] # NoText
         /\ vector' = vector
<1>1. p \in job[i].batch => file[i].rows[p] # NoText
  BY BatchOnList DEF Upsert, RowsOf
<1>q. QED BY <1>1 DEF Upsert, TypeOK

LEMMA FlagsStep ==
  ASSUME TypeOK, Jobs, AllRows, Flags, [Next]_vars PROVE Flags'
<1>s. CASE UNCHANGED vars
  BY <1>s DEF vars, Flags
<1>n. ASSUME NEW i \in Import, Step(i) PROVE Flags'
  <2>1. CASE Upsert(i)
    <3> SUFFICES ASSUME NEW p \in Product
                 PROVE  /\ hash'[p] # NoText /\ ~stale'[p] => hash'[p] = text'[p]
                        /\ ~raced'[p] => hash'[p] \in {NoText, vector'[p]}
      BY DEF Flags
    <3>1. CASE p \in job[i].batch
      BY <2>1, <3>1 DEF Upsert, Flags
    <3>2. CASE p \notin job[i].batch
      BY <2>1, <3>2 DEF Upsert, Flags
    <3>q. QED BY <3>1, <3>2
  <2>2. CASE StoreVectors(i)
    <3> SUFFICES ASSUME NEW p \in Product
                 PROVE  /\ hash'[p] # NoText /\ ~stale'[p] => hash'[p] = text'[p]
                        /\ ~raced'[p] => hash'[p] \in {NoText, vector'[p]}
      BY DEF Flags
    <3>1. CASE p \in job[i].batch
      <4>1. job[i].read[p] = text[p]
        BY <2>2, <3>1 DEF StoreVectors, AllRows, Rows
      <4>q. QED BY <2>2, <3>1, <4>1 DEF StoreVectors
    <3>2. CASE p \notin job[i].batch
      BY <2>2, <3>2 DEF StoreVectors, Flags
    <3>q. QED BY <3>1, <3>2
  <2>3. CASE ~Upsert(i) /\ ~StoreVectors(i)
    BY <1>n, <2>3, CatalogueSteps DEF catalogue, Flags
  <2>q. QED BY <2>1, <2>2, <2>3
<1>q. QED BY <1>s, <1>n DEF Next, Step

\* What import k lists and holds stays as it is while import i moves.
LEMMA RowsStep ==
  ASSUME TypeOK, Jobs, AllRows, NEW i \in Import, Step(i), NEW k \in Import
  PROVE  Rows(k)'
<1>0. job[i] \in JobState /\ job[k] \in JobState /\ JobOK(i) /\ Rows(i) /\ Rows(k)
  BY DEF TypeOK, Jobs, AllRows
<1>1. CASE Upsert(i)
  <2>1. ASSUME NEW p \in Product, text[p] # NoText PROVE text'[p] # NoText
    BY <1>0, <1>1, <2>1, UpsertWrites
  <2>2. CASE k = i
    <3>1. /\ job'[i].pc = "choosing"
          /\ job'[i].pending \subseteq job[i].pending \union job[i].batch
      BY <1>0, <1>1 DEF Upsert, Taken, TypeOK, JobState
    <3>q. QED BY <1>0, <1>1, <2>1, <2>2, <3>1, UpsertWrites DEF Rows, JobState
  <2>3. CASE k # i
    <3>1. job'[k] = job[k]
      BY <2>3, Frame
    <3>2. ASSUME job[k].pc = "holding", NEW p \in job[k].batch
          PROVE  text'[p] = text[p]
      <4>1. p \in Product /\ p \notin job[i].batch
        BY <1>0, <1>1, <2>3, <3>2 DEF Upsert, Held, JobState
      <4>q. QED BY <1>0, <1>1, <4>1, UpsertWrites
    <3>q. QED BY <1>0, <2>1, <3>1, <3>2 DEF Rows, JobState
  <2>q. QED BY <2>2, <2>3
<1>2. CASE EmbedRows(i) /\ k = i
  <2>1. PICK rows \in Slices(job[i].pending) :
          job' = [job EXCEPT ![i] =
            [job[i] EXCEPT !.pc = "holding", !.batch = {p \in rows : NeedsReembedding(p)},
               !.pending = job[i].pending \ (rows \ {p \in rows : NeedsReembedding(p)}),
               !.read = [p \in Product |->
                  IF p \in {q \in rows : NeedsReembedding(q)} THEN text[p] ELSE NoText]]]
    BY <1>2 DEF EmbedRows
  <2>2. rows \subseteq job[i].pending /\ rows \subseteq Product
    BY <1>0, SliceSubset DEF JobState
  <2>3. /\ job'[i].pending \subseteq job[i].pending
        /\ job'[i].batch = {p \in rows : NeedsReembedding(p)}
        /\ job'[i].read = [p \in Product |->
              IF p \in {q \in rows : NeedsReembedding(q)} THEN text[p] ELSE NoText]
    BY <1>0, <2>1 DEF TypeOK, JobState
  <2>4. text' = text
    BY <1>2 DEF EmbedRows, catalogue
  <2>q. QED BY <1>0, <1>2, <2>2, <2>3, <2>4 DEF Rows
<1>3. CASE ~Upsert(i) /\ ~(EmbedRows(i) /\ k = i)
  <2>1. text' = text
    BY <1>3, CatalogueSteps DEF catalogue, StoreVectors
  <2>2. CASE k # i
    BY <1>0, <2>1, <2>2, Frame DEF Rows
  <2>3. CASE k = i
    <3>1. job'[i].pending \subseteq job[i].pending /\ job'[i].pc # "holding"
      <4>pc. ASSUME NEW pc, pc # "holding", job'[i] = [job[i] EXCEPT !.pc = pc]
             PROVE  job'[i].pending \subseteq job[i].pending /\ job'[i].pc # "holding"
        BY <1>0, <4>pc DEF JobState
      <4>1. CASE Submit(i) \/ Enqueue(i) \/ EnqueueLost(i)
        <5>1. \E pc \in {"created", "queued", "unqueued"} :
                job'[i] = [job[i] EXCEPT !.pc = pc]
          BY <4>1 DEF Submit, Enqueue, EnqueueLost, TypeOK
        <5>q. QED BY <4>pc, <5>1
      <4>2. CASE Start(i)
        BY <1>0, <4>2 DEF Start, TypeOK, JobState
      <4>3. CASE ReadHashes(i)
        BY <1>0, <4>3 DEF ReadHashes, TypeOK, JobState
      <4>4. CASE StoreVectors(i)
        BY <1>0, <4>4 DEF StoreVectors, TypeOK, JobState
      <4>5. CASE Complete(i) \/ Acknowledge(i) \/ GiveUp(i) \/ RecordLost(i)
        <5>1. \E pc \in {"recorded", "finished", "abandoned", "lost"} :
                job'[i] = [job[i] EXCEPT !.pc = pc]
          BY <4>5 DEF Complete, Acknowledge, GiveUp, RecordLost, TypeOK
        <5>q. QED BY <4>pc, <5>1
      <4>6. CASE MarkFailed(i) \/ Kill(i)
        <5>1. \/ job'[i] = [job[i] EXCEPT !.pc = "finished"]
              \/ job'[i] = Requeued(i)
          BY <4>6 DEF MarkFailed, Kill, TypeOK
        <5>2. Requeued(i).pending = {} /\ Requeued(i).pc = "queued"
          BY DEF Requeued, FreshJob
        <5>q. QED BY <1>0, <5>1, <5>2 DEF JobState
      <4>7. CASE ChunkRefused(i)
        BY <1>0, <4>7 DEF ChunkRefused, Taken, TypeOK, JobState
      <4>8. CASE RowRefused(i)
        BY <1>0, <4>8 DEF RowRefused, Taken, TypeOK, JobState
      <4>9. CASE EmbeddingFails(i)
        BY <1>0, <4>9 DEF EmbeddingFails, TypeOK, JobState
      <4>10. CASE Break(i)
        BY <1>0, <4>10 DEF Break, TypeOK, JobState
      <4>q. QED
        BY <1>3, <2>3, <4>1, <4>2, <4>3, <4>4, <4>5, <4>6, <4>7, <4>8, <4>9, <4>10
           DEF Step, JobStep
    <3>q. QED BY <1>0, <2>1, <2>3, <3>1 DEF Rows
  <2>q. QED BY <2>2, <2>3
<1>q. QED BY <1>1, <1>2, <1>3

IInv == TypeOK /\ Jobs /\ AllRows /\ Flags

\* Types, lists, locks and flags hold together.
LEMMA Invariant == Spec => []IInv
<1>1. IInv /\ [Next]_vars => IInv'
  <2> SUFFICES ASSUME IInv, [Next]_vars PROVE IInv'
    OBVIOUS
  <2>1. TypeOK' /\ Jobs' /\ Flags'
    BY StepTyped, JobsStep, FlagsStep DEF IInv
  <2>2. AllRows'
    <3>1. CASE UNCHANGED vars
      BY <3>1 DEF vars, IInv, AllRows, Rows
    <3>2. ASSUME NEW i \in Import, Step(i) PROVE AllRows'
      BY <3>2, RowsStep DEF IInv, AllRows
    <3>q. QED BY <3>1, <3>2 DEF Next, Step
  <2>q. QED BY <2>1, <2>2 DEF IInv
<1>2. Init => IInv
  BY InitTyped, JobsInit DEF IInv
<1>q. QED BY <1>1, <1>2, PTL DEF Spec

\* Unless two imports raced over its row, a product that says its vector is
\* current has the vector of the text it says.
THEOREM ImportCertifies == Spec => []CertifiedUnlessRaced
<1>1. IInv => CertifiedUnlessRaced
  BY DEF IInv, Flags, CertifiedUnlessRaced, Certified, NeedsReembedding
<1>q. QED BY Invariant, <1>1, PTL

\* Imports implement the catalogue: rows and vectors stay, and a vector is
\* stored only for the text its row has at that moment.
THEOREM ImportImplementsCatalogue == Spec => CatalogueSpec
<1>1. Init => Promise!Init
  BY DEF Init, Promise!Init, Blank
<1>2. IInv /\ IInv' /\ [Next]_vars => [Promise!Next]_(Promise!vars)
  <2> SUFFICES ASSUME IInv, IInv', [Next]_vars
               PROVE  Promise!Next \/ UNCHANGED <<text, vector>>
    BY DEF Promise!vars
  <2>1. CASE UNCHANGED vars
    BY <2>1 DEF vars
  <2>2. ASSUME NEW i \in Import, Step(i)
        PROVE  Promise!Next \/ UNCHANGED <<text, vector>>
    <3>1. CASE Upsert(i)
      <4>1. \A p \in Product : text[p] # NoText => text'[p] # NoText
        BY <3>1, UpsertWrites DEF IInv, Jobs
      <4>2. text' \in [Product -> Text \union {NoText}] /\ vector' = vector
        BY <3>1 DEF IInv, TypeOK, Texts, Upsert
      <4>q. QED BY <4>1, <4>2 DEF Promise!Next, Promise!Write
    <3>2. CASE StoreVectors(i)
      <4>1. \A p \in Product :
              vector'[p] # vector[p] => vector'[p] = text[p] /\ text[p] # NoText
        BY <3>2 DEF StoreVectors, IInv, AllRows, Rows, TypeOK
      <4>2. vector' \in [Product -> Text \union {NoText}] /\ text' = text
        BY <3>2 DEF IInv, TypeOK, Texts, StoreVectors
      <4>q. QED BY <4>1, <4>2 DEF Promise!Next, Promise!Embed
    <3>3. CASE ~Upsert(i) /\ ~StoreVectors(i)
      BY <2>2, <3>3, CatalogueSteps DEF IInv, catalogue
    <3>q. QED BY <3>1, <3>2, <3>3
  <2>q. QED BY <2>1, <2>2 DEF Next, Step
<1>q. QED BY Invariant, <1>1, <1>2, PTL DEF Spec, CatalogueSpec, Promise!Spec

-----------------------------------------------------------------------------
\* A record says completed only with counts that add up, and says nothing
\* final only while somebody may still write it.
Recorded(i) ==
    /\ status[i] = "completed" => report[i].succeeded + report[i].failed = report[i].total
    /\ status[i] \in {"pending", "processing"} =>
         job[i].pc \notin {"absent", "recorded", "finished"}

LEMMA PartitionCounts ==
  ASSUME TypeOK, NEW i \in Import, JobOK(i), AllWritten(i)
  PROVE  /\ Cardinality(RowsOf(file[i]))
              = Cardinality(job[i].written) + Cardinality(job[i].refused)
         /\ Cardinality(job[i].written) \in Nat /\ Cardinality(job[i].refused) \in Nat
<1>1. /\ RowsOf(file[i]) = job[i].written \union job[i].refused
      /\ job[i].written \intersect job[i].refused = {}
  BY DEF AllWritten, JobOK, Trying, Partition
<1>2. IsFiniteSet(job[i].written) /\ IsFiniteSet(job[i].refused)
  BY FS_Subset DEF TypeOK, JobState
<1>3. Cardinality(job[i].written) \in Nat /\ Cardinality(job[i].refused) \in Nat
  BY <1>2, FS_CardinalityType
<1>4. Cardinality(job[i].written \intersect job[i].refused) = 0
  BY <1>1, FS_EmptySet
<1>5. Cardinality(job[i].written \union job[i].refused)
        = Cardinality(job[i].written) + Cardinality(job[i].refused)
            - Cardinality(job[i].written \intersect job[i].refused)
  BY <1>2, FS_Union
<1>q. QED BY <1>1, <1>3, <1>4, <1>5

LEMMA RecordedStep ==
  ASSUME IInv, NEW i \in Import, Step(i), Recorded(i) PROVE Recorded(i)'
<1>0. /\ TypeOK /\ job[i] \in JobState /\ JobOK(i)
      /\ report[i] \in [total : Nat, succeeded : Nat, failed : Nat, warning : BOOLEAN]
  BY DEF IInv, TypeOK, Jobs
<1> USE DEF Recorded
<1>1. CASE Submit(i)
  BY <1>0, <1>1 DEF Submit, TypeOK
<1>2. CASE Enqueue(i) \/ EnqueueLost(i) \/ GiveUp(i) \/ RecordLost(i)
  <2>1. \E pc \in {"queued", "unqueued", "abandoned", "lost"} :
          job'[i] = [job[i] EXCEPT !.pc = pc]
    BY <1>0, <1>2 DEF Enqueue, EnqueueLost, GiveUp, RecordLost, TypeOK
  <2>2. job'[i].pc \in {"queued", "unqueued", "abandoned", "lost"}
    BY <1>0, <2>1 DEF JobState
  <2>3. status' = status /\ report' = report
    BY <1>2 DEF Enqueue, EnqueueLost, GiveUp, RecordLost
  <2>q. QED BY <2>2, <2>3
<1>3. CASE Start(i)
  <2>1. status'[i] = "processing" /\ job'[i].pc \in {"choosing", "failing"}
    BY <1>0, <1>3 DEF Start, TypeOK, JobState
  <2>q. QED BY <2>1
<1>4. CASE ReadHashes(i)
  BY <1>0, <1>4 DEF ReadHashes, TypeOK, JobState
<1>5. CASE Upsert(i)
  BY <1>0, <1>5 DEF Upsert, Taken, TypeOK, JobState
<1>6. CASE EmbedRows(i)
  BY <1>0, <1>6 DEF EmbedRows, TypeOK, JobState
<1>7. CASE StoreVectors(i)
  BY <1>0, <1>7 DEF StoreVectors, TypeOK, JobState
<1>8. CASE Complete(i)
  <2>1. /\ status'[i] = "completed"
        /\ report'[i].total = Cardinality(RowsOf(file[i])) + file[i].spoiled
        /\ report'[i].succeeded = Cardinality(job[i].written)
        /\ report'[i].failed = file[i].spoiled + Cardinality(job[i].refused)
    BY <1>0, <1>8 DEF Complete, TypeOK
  <2>2. file[i].spoiled \in Nat
    <3>1. file[i] \in Files
      BY <1>0 DEF TypeOK
    <3>2. CASE file[i] = Unreadable
      BY <3>2 DEF Unreadable
    <3>3. CASE file[i] # Unreadable
      <4>1. file[i].spoiled \in 0..MaxSpoiled
        BY <3>1, <3>3, Zenon DEF Files
      <4>q. QED BY <4>1
    <3>q. QED BY <3>2, <3>3
  <2>q. QED BY <1>0, <1>8, <2>1, <2>2, PartitionCounts DEF Complete
<1>9. CASE MarkFailed(i)
  <2>1. status'[i] = "failed"
    BY <1>0, <1>9 DEF MarkFailed, TypeOK
  <2>q. QED BY <2>1
<1>10. CASE Acknowledge(i)
  <2>1. status' = status /\ report' = report /\ job[i].pc = "recorded"
    BY <1>10 DEF Acknowledge
  <2>q. QED BY <2>1
<1>11. CASE ChunkRefused(i)
  BY <1>0, <1>11 DEF ChunkRefused, Taken, TypeOK, JobState
<1>12. CASE RowRefused(i)
  BY <1>0, <1>12 DEF RowRefused, Taken, TypeOK, JobState
<1>13. CASE EmbeddingFails(i)
  BY <1>0, <1>13 DEF EmbeddingFails, TypeOK, JobState
<1>14. CASE Break(i)
  BY <1>0, <1>14 DEF Break, TypeOK, JobState
<1>15. CASE Kill(i)
  BY <1>0, <1>15 DEF Kill, Requeued, FreshJob, TypeOK, JobState
<1>q. QED
  BY <1>1, <1>2, <1>3, <1>4, <1>5, <1>6, <1>7, <1>8, <1>9, <1>10, <1>11, <1>12,
     <1>13, <1>14, <1>15 DEF Step, JobStep

LEMMA RecordedAlways == Spec => [](\A i \in Import : Recorded(i))
<1>1. Init => \A i \in Import : Recorded(i)
  BY DEF Init, Recorded
<1>2. IInv /\ (\A i \in Import : Recorded(i)) /\ [Next]_vars
        => (\A i \in Import : Recorded(i))'
  <2> SUFFICES ASSUME IInv, \A i \in Import : Recorded(i), [Next]_vars,
                      NEW k \in Import
               PROVE  Recorded(k)'
    OBVIOUS
  <2>1. CASE UNCHANGED vars
    BY <2>1 DEF vars, Recorded
  <2>2. ASSUME NEW i \in Import, Step(i) PROVE Recorded(k)'
    <3>1. CASE k = i
      BY <2>2, <3>1, RecordedStep
    <3>2. CASE k # i
      BY <2>2, <3>2, Frame DEF IInv, Recorded
    <3>q. QED BY <3>1, <3>2
  <2>q. QED BY <2>1, <2>2 DEF Next, Step
<1>q. QED BY Invariant, <1>1, <1>2, PTL DEF Spec

\* A completed import's counts add up to the rows of its file, whichever of
\* its chunks were refused and however often it ran.
THEOREM ImportAccounts == Spec => []AccountsForEveryRow
<1>1. (\A i \in Import : Recorded(i)) => AccountsForEveryRow
  BY DEF Recorded, AccountsForEveryRow
<1>q. QED BY RecordedAlways, <1>1, PTL

\* An import is silent for good only when it was lost.
THEOREM ImportSpeaks == Spec => []SilentOnlyWhenLost
<1>1. (\A i \in Import : Recorded(i)) => SilentOnlyWhenLost
  BY DEF Recorded, SilentOnlyWhenLost
<1>q. QED BY RecordedAlways, <1>1, PTL

-----------------------------------------------------------------------------
\* What an import owes it goes on owing, until somebody has embedded the row.
LEMMA OwesStep ==
  ASSUME IInv, NEW i \in Import, Step(i), NEW p \in Product, Owes(i, p),
         ~(p \in job[i].batch /\ (Upsert(i) \/ StoreVectors(i))),
         EmbedRows(i) => NeedsReembedding(p)
  PROVE  Owes(i, p)'
<1>0. TypeOK /\ job[i] \in JobState /\ JobOK(i)
  BY DEF IInv, TypeOK, Jobs
<1> USE DEF Owes
<1>1. CASE Submit(i)
  BY <1>0, <1>1 DEF Submit, JobOK
<1>2. CASE Enqueue(i) \/ EnqueueLost(i)
  <2>1. \E pc \in {"queued", "unqueued"} : job'[i] = [job[i] EXCEPT !.pc = pc]
    BY <1>0, <1>2 DEF Enqueue, EnqueueLost, TypeOK
  <2>2. /\ job'[i].pending = job[i].pending /\ job'[i].todo = job[i].todo
        /\ job'[i].alone = job[i].alone /\ job'[i].refused = job[i].refused
        /\ job[i].pc = "created"
        /\ file' = file /\ status' = status /\ report' = report
    BY <1>0, <1>2, <2>1 DEF Enqueue, EnqueueLost, JobState
  <2>q. QED BY <2>2 DEF RowsOf
<1>3. CASE Start(i)
  <2>1. job'[i].todo = RowsOf(file[i]) /\ file' = file
    BY <1>0, <1>3 DEF Start, TypeOK, JobState
  <2>q. QED BY <2>1 DEF RowsOf
<1>4. CASE ReadHashes(i)
  <2>1. /\ job'[i].pending = job[i].pending /\ job'[i].todo = job[i].todo
        /\ job'[i].alone = job[i].alone /\ job'[i].refused = job[i].refused
        /\ job[i].pc = "choosing"
        /\ file' = file /\ status' = status /\ report' = report
    BY <1>0, <1>4 DEF ReadHashes, TypeOK, JobState
  <2>q. QED BY <2>1 DEF RowsOf
<1>5. CASE Upsert(i)
  <2>1. /\ job[i].pending \subseteq job'[i].pending
        /\ job'[i].todo = job[i].todo \ job[i].batch
        /\ job'[i].alone = job[i].alone \ job[i].batch
        /\ job'[i].refused = job[i].refused
        /\ job[i].pc = "writing"
        /\ file' = file /\ status' = status /\ report' = report
    BY <1>0, <1>5 DEF Upsert, Taken, TypeOK, JobState
  <2>q. QED BY <1>5, <2>1 DEF RowsOf
<1>6. CASE EmbedRows(i)
  <2>1. PICK rows \in Slices(job[i].pending) :
          job' = [job EXCEPT ![i] =
            [job[i] EXCEPT !.pc = "holding", !.batch = {q \in rows : NeedsReembedding(q)},
               !.pending = job[i].pending \ (rows \ {q \in rows : NeedsReembedding(q)}),
               !.read = [r \in Product |->
                  IF r \in {q \in rows : NeedsReembedding(q)} THEN text[r] ELSE NoText]]]
    BY <1>6 DEF EmbedRows
  <2>2. /\ job'[i].pending = job[i].pending \ (rows \ {q \in rows : NeedsReembedding(q)})
        /\ job'[i].todo = job[i].todo
        /\ job'[i].alone = job[i].alone /\ job'[i].refused = job[i].refused
    BY <1>0, <2>1 DEF TypeOK, JobState
  <2>3. /\ job[i].pc = "choosing" /\ NeedsReembedding(p)
        /\ file' = file /\ status' = status /\ report' = report
    BY <1>6 DEF EmbedRows, AllWritten
  <2>q. QED BY <2>2, <2>3 DEF RowsOf
<1>7. CASE StoreVectors(i)
  <2>1. /\ job'[i].pending = job[i].pending \ job[i].batch
        /\ job'[i].todo = job[i].todo
        /\ job'[i].alone = job[i].alone /\ job'[i].refused = job[i].refused
        /\ job[i].pc = "holding"
        /\ file' = file /\ status' = status /\ report' = report
    BY <1>0, <1>7 DEF StoreVectors, TypeOK, JobState
  <2>q. QED BY <1>7, <2>1 DEF RowsOf
<1>8. CASE Complete(i)
  <2>1. job'[i] = [job[i] EXCEPT !.pc = "recorded"]
    BY <1>0, <1>8 DEF Complete, TypeOK
  <2>2. /\ job'[i].pending = job[i].pending /\ job'[i].refused = job[i].refused
        /\ file' = file
        /\ status'[i] = "completed" /\ report'[i].warning = job[i].warned
    BY <1>0, <1>8, <2>1 DEF Complete, TypeOK, JobState
  <2>3. /\ job[i].pc = "choosing" /\ job[i].todo = {} /\ job[i].alone = {}
        /\ job[i].pending = {} \/ job[i].warned
        /\ status[i] = "processing"
    BY <1>0, <1>8 DEF Complete, AllWritten, JobOK, Running, Trying
  <2>q. QED BY <2>2, <2>3 DEF RowsOf
<1>9. CASE MarkFailed(i)
  <2>1. status'[i] = "failed" /\ file' = file
    BY <1>0, <1>9 DEF MarkFailed, TypeOK
  <2>q. QED BY <2>1 DEF RowsOf
<1>10. CASE Acknowledge(i) \/ GiveUp(i) \/ RecordLost(i)
  <2>1. \E pc \in {"finished", "abandoned", "lost"} :
          /\ job'[i] = [job[i] EXCEPT !.pc = pc]
          /\ pc = "finished" => job[i].pc = "recorded"
    BY <1>0, <1>10 DEF Acknowledge, GiveUp, RecordLost, TypeOK
  <2>2. /\ job'[i].pending = job[i].pending /\ job'[i].todo = job[i].todo
        /\ job'[i].alone = job[i].alone /\ job'[i].refused = job[i].refused
        /\ job[i].pc = "recorded" \/ job'[i].pc \in {"abandoned", "lost"}
    BY <1>0, <2>1 DEF JobState
  <2>3. file' = file /\ status' = status /\ report' = report
    BY <1>10 DEF Acknowledge, GiveUp, RecordLost
  <2>q. QED BY <2>2, <2>3 DEF RowsOf
<1>11. CASE ChunkRefused(i)
  <2>1. /\ job'[i].pending = job[i].pending
        /\ job'[i].todo = job[i].todo \ job[i].batch /\ job'[i].alone = job[i].batch
        /\ job'[i].refused = job[i].refused
        /\ job[i].pc = "writing" /\ job[i].alone = {}
        /\ file' = file /\ status' = status /\ report' = report
    BY <1>0, <1>11 DEF ChunkRefused, Taken, TypeOK, JobState
  <2>q. QED BY <2>1 DEF RowsOf
<1>12. CASE RowRefused(i)
  <2>1. /\ job'[i].pending = job[i].pending
        /\ job'[i].todo = job[i].todo \ job[i].batch
        /\ job'[i].alone = job[i].alone \ job[i].batch
        /\ job'[i].refused = job[i].refused \union job[i].batch
        /\ job[i].pc = "writing"
        /\ file' = file /\ status' = status /\ report' = report
    BY <1>0, <1>12 DEF RowRefused, Taken, TypeOK, JobState
  <2>q. QED BY <2>1 DEF RowsOf
<1>13. CASE EmbeddingFails(i)
  <2>1. /\ job'[i].pending = job[i].pending /\ job'[i].todo = job[i].todo
        /\ job'[i].alone = job[i].alone /\ job'[i].refused = job[i].refused
        /\ job[i].pc = "holding"
        /\ file' = file /\ status' = status /\ report' = report
    BY <1>0, <1>13 DEF EmbeddingFails, TypeOK, JobState
  <2>q. QED BY <2>1 DEF RowsOf
<1>14. CASE Break(i)
  <2>1. job'[i].pc = "failing" /\ file' = file
    BY <1>0, <1>14 DEF Break, TypeOK, JobState
  <2>q. QED BY <2>1 DEF RowsOf
<1>15. CASE Kill(i)
  <2>1. job'[i].pc = "queued" /\ file' = file
    BY <1>0, <1>15 DEF Kill, Requeued, FreshJob, TypeOK, JobState
  <2>q. QED BY <2>1 DEF RowsOf
<1>q. QED
  BY <1>1, <1>2, <1>3, <1>4, <1>5, <1>6, <1>7, <1>8, <1>9, <1>10, <1>11, <1>12,
     <1>13, <1>14, <1>15 DEF Step, JobStep

LEMMA OwedStep ==
  ASSUME IInv, EveryStaleRowIsOwed, [Next]_vars PROVE EveryStaleRowIsOwed'
<1>s. CASE UNCHANGED vars
  BY <1>s DEF vars, EveryStaleRowIsOwed, Owes, NeedsReembedding, RowsOf
<1>n. ASSUME NEW k \in Import, Step(k), NEW p \in Product,
             text'[p] # NoText, NeedsReembedding(p)'
      PROVE  \E i \in Import : Owes(i, p)'
  <2>0. TypeOK /\ JobOK(k) /\ Rows(k) /\ job[k] \in JobState
    BY DEF IInv, TypeOK, Jobs, AllRows
  <2>1. CASE Upsert(k) /\ p \in job[k].batch
    <3>1. p \in RowsOf(file[k])
      BY <2>0, <2>1, BatchOnList DEF Upsert
    <3>2. job[k].read[p] = NoText \/ job[k].read[p] # file[k].rows[p]
      BY <1>n, <2>1 DEF Upsert, NeedsReembedding
    <3>3. p \in job'[k].pending /\ file' = file
      BY <2>0, <2>1, <3>2 DEF Upsert, Taken, TypeOK, JobState
    <3>q. QED BY <3>1, <3>3 DEF Owes, RowsOf
  <2>2. CASE StoreVectors(k) /\ p \in job[k].batch
    <3>1. job[k].read[p] # NoText
      BY <2>0, <2>2 DEF StoreVectors, Rows
    <3>q. QED BY <1>n, <2>2, <3>1 DEF StoreVectors, NeedsReembedding
  <2>3. CASE ~(p \in job[k].batch /\ (Upsert(k) \/ StoreVectors(k)))
    <3>1. text[p] = text'[p] /\ NeedsReembedding(p)
      <4>1. CASE Upsert(k)
        BY <1>n, <2>0, <2>3, <4>1, UpsertWrites DEF NeedsReembedding
      <4>2. CASE StoreVectors(k)
        BY <1>n, <2>3, <4>2 DEF StoreVectors, NeedsReembedding
      <4>3. CASE ~Upsert(k) /\ ~StoreVectors(k)
        BY <1>n, <2>0, <4>3, CatalogueSteps DEF catalogue, NeedsReembedding
      <4>q. QED BY <4>1, <4>2, <4>3
    <3>2. PICK i \in Import : Owes(i, p)
      BY <1>n, <3>1 DEF EveryStaleRowIsOwed
    <3>3. CASE i = k
      BY <1>n, <2>3, <3>1, <3>2, <3>3, OwesStep
    <3>4. CASE i # k
      BY <1>n, <2>0, <3>2, <3>4, Frame DEF Owes, RowsOf
    <3>q. QED BY <3>3, <3>4
  <2>q. QED BY <2>1, <2>2, <2>3
<1>q. QED BY <1>s, <1>n DEF Next, Step, EveryStaleRowIsOwed

\* No row needs a vector without an import that still has it on its list or
\* whose record tells its owner to import again.
THEOREM ImportForgetsNoRow == Spec => []EveryStaleRowIsOwed
<1>1. Init => EveryStaleRowIsOwed
  BY DEF Init, EveryStaleRowIsOwed, Blank
<1>2. IInv /\ EveryStaleRowIsOwed /\ [Next]_vars => EveryStaleRowIsOwed'
  BY OwedStep
<1>q. QED BY Invariant, <1>1, <1>2, PTL DEF Spec
=============================================================================
