--------------------------- MODULE ProductImport ---------------------------
(***************************************************************************)
(* Catalogue imports: the upload, the arq job that upserts a file's rows   *)
(* chunk by chunk and then embeds them batch by batch, and the columns     *)
(* that say whether a product's vector still describes it.                 *)
(*                                                                         *)
(* A product's embeddable text is a value, its vector and its              *)
(* embedding_source_hash are the text they were computed from.  A          *)
(* transaction is split where another one can come between: after the read *)
(* of the stored hashes, and while a batch is held FOR UPDATE.             *)
(***************************************************************************)
EXTENDS Naturals, FiniteSets

CONSTANTS
    Product,     \* external ids of one organization
    Text,        \* the embeddable texts a row may carry
    NoText,
    Import,      \* uploads that insert a product_imports row
    ChunkSize,   \* _IMPORT_CHUNK_SIZE
    MaxSpoiled,  \* bound on a file's invalid and superseded rows
    MaxTries,    \* WorkerSettings.max_tries
    MaxFaults,   \* bound on the failures of Faults in one behaviour
    Faults       \* the failures this instance allows, out of FaultKind

\* database: a chunk is refused.  provider: a batch cannot be embedded.
\* break: another exception, or a cancellation.  record: a status cannot be
\* written.  kill: the worker dies.  enqueue: the job never reaches Redis.
FaultKind == {"database", "provider", "break", "record", "kill", "enqueue"}

ASSUME TextAssumption   == NoText \notin Text
ASSUME ChunkAssumption  == ChunkSize \in Nat \ {0}
ASSUME BoundsAssumption == MaxSpoiled \in Nat /\ MaxTries \in Nat /\ MaxFaults \in Nat
ASSUME FaultsAssumption == Faults \subseteq FaultKind
ASSUME ProductAssumption == IsFiniteSet(Product)

VARIABLES
    text,    \* products: the text of the row, NoText without one
    vector,  \* the text its embedding was computed from
    hash,    \* embedding_source_hash
    stale,   \* embedding_stale
    raced,   \* history: the row's vector came between the read of its hash
             \* and the upsert that hash decided
    status,  \* product_imports.status
    report,  \* the counts and the warning mark_completed stored
    file,    \* the bytes on disk: what each product's last row says
    job,     \* the arq job of each import
    faults   \* how many failures have happened

catalogue == <<text, vector, hash, stale, raced>>
vars == <<text, vector, hash, stale, raced, status, report, file, job, faults>>

Texts == Text \union {NoText}

Blank == [p \in Product |-> NoText]

\* spoiled: the rows the parser or the de-duplication turns away.
\* Unreadable: the parser refuses the whole file.
Unreadable == [rows |-> Blank, spoiled |-> 0, readable |-> FALSE]
Files ==
    [rows : [Product -> Texts], spoiled : 0..MaxSpoiled, readable : {TRUE}]
      \union {Unreadable}

RowsOf(f) == {p \in Product : f.rows[p] # NoText}

JobPC == {"absent", "created", "unqueued", "queued", "choosing", "writing",
          "holding", "failing", "recorded", "finished", "lost", "abandoned"}

\* todo: rows no chunk has taken.  alone: rows of a refused chunk, to be tried
\* one by one.  batch, read: the rows of the open transaction and what it read
\* of them.  pending: pending_embedding.  written, refused: the rows counted as
\* succeeded and, beside the spoiled ones, as failed.
JobState ==
    [pc : JobPC, tries : 0..MaxTries, todo : SUBSET Product, alone : SUBSET Product,
     batch : SUBSET Product, read : [Product -> Texts],
     pending : SUBSET Product, written : SUBSET Product,
     refused : SUBSET Product, warned : BOOLEAN, cancelled : BOOLEAN]

FreshJob ==
    [pc |-> "absent", tries |-> 0, todo |-> {}, alone |-> {}, batch |-> {},
     read |-> Blank, pending |-> {}, written |-> {}, refused |-> {},
     warned |-> FALSE, cancelled |-> FALSE]

NoReport == [total |-> 0, succeeded |-> 0, failed |-> 0, warning |-> FALSE]

Init ==
    /\ text = Blank
    /\ vector = Blank
    /\ hash = Blank
    /\ stale = [p \in Product |-> FALSE]
    /\ raced = [p \in Product |-> FALSE]
    /\ status = [i \in Import |-> "absent"]
    /\ report = [i \in Import |-> NoReport]
    /\ file = [i \in Import |-> Unreadable]
    /\ job = [i \in Import |-> FreshJob]
    /\ faults = 0

-----------------------------------------------------------------------------
\* A row whose embedding is missing or out of date.
NeedsReembedding(p) == hash[p] = NoText \/ stale[p]

\* A slip: the rows to embed are read without FOR UPDATE.
HeldByNobody(i, p) == FALSE

\* The rows another import's embedding transaction holds FOR UPDATE.
Held(i, p) == \E k \in Import \ {i} : job[k].pc = "holding" /\ p \in job[k].batch

\* A slice of the list: of the full size unless fewer are left.
Slices(rows) ==
    {s \in SUBSET rows :
       /\ s # {}
       /\ Cardinality(s) <= ChunkSize
       /\ Cardinality(s) = ChunkSize \/ s = rows}

Fault(kind) ==
    /\ kind \in Faults
    /\ faults < MaxFaults
    /\ faults' = faults + 1

\* arq runs the job again, from the file.
Requeued(i) == [FreshJob EXCEPT !.pc = "queued", !.tries = job[i].tries]

-----------------------------------------------------------------------------
(* POST /products/import *)

\* The row and the file's bytes, in one transaction.
Submit(i) ==
    /\ job[i].pc = "absent"
    /\ \E f \in Files : file' = [file EXCEPT ![i] = f]
    /\ status' = [status EXCEPT ![i] = "pending"]
    /\ job' = [job EXCEPT ![i].pc = "created"]
    /\ UNCHANGED <<catalogue, report, faults>>

\* enqueue_product_import, after the commit.
Enqueue(i) ==
    /\ job[i].pc = "created"
    /\ job' = [job EXCEPT ![i].pc = "queued"]
    /\ UNCHANGED <<catalogue, status, report, file, faults>>

EnqueueLost(i) ==
    /\ job[i].pc = "created"
    /\ Fault("enqueue")
    /\ job' = [job EXCEPT ![i].pc = "unqueued"]
    /\ UNCHANGED <<catalogue, status, report, file>>

-----------------------------------------------------------------------------
(* import_products_task, run_import *)

\* mark_processing, whatever the status was, in a transaction of its own; then
\* the file is parsed and the last row of each product kept.
Start(i) ==
    /\ job[i].pc = "queued"
    /\ job[i].tries < MaxTries
    /\ status' = [status EXCEPT ![i] = "processing"]
    /\ job' = [job EXCEPT ![i] =
                 [job[i] EXCEPT !.tries = job[i].tries + 1,
                           !.todo = RowsOf(file[i]),
                           !.pc = IF file[i].readable THEN "choosing"
                                                      ELSE "failing"]]
    /\ UNCHANGED <<catalogue, report, file, faults>>

\* upsert_many's SELECT of the hashes the next rows have now, without a lock:
\* one row of a refused chunk, or the next chunk.
ReadHashes(i) ==
    /\ job[i].pc = "choosing"
    /\ \E rows \in IF job[i].alone # {} THEN {{p} : p \in job[i].alone}
                                        ELSE Slices(job[i].todo) :
         job' = [job EXCEPT ![i] =
                   [job[i] EXCEPT !.pc = "writing", !.batch = rows,
                             !.read = [p \in Product |->
                                IF p \in rows THEN hash[p] ELSE NoText]]]
    /\ UNCHANGED <<catalogue, status, report, file, faults>>

\* The rows of a finished write leave the lists they came from.
Taken(i) == [job[i] EXCEPT !.pc = "choosing", !.batch = {}, !.read = Blank,
                           !.todo = job[i].todo \ job[i].batch,
                           !.alone = job[i].alone \ job[i].batch]

\* A slip: an upsert that changes the text keeps the flag it finds.
UpsertForgets(i) ==
    LET rows == job[i].batch
        says == file[i].rows
    IN
    /\ job[i].pc = "writing"
    /\ \A p \in rows : ~Held(i, p)
    /\ text' = [p \in Product |-> IF p \in rows THEN says[p] ELSE text[p]]
    /\ hash' = [p \in Product |-> IF p \in rows THEN job[i].read[p] ELSE hash[p]]
    /\ job' = [job EXCEPT ![i] = [Taken(i) EXCEPT !.written = job[i].written \union rows,
         !.pending = job[i].pending \union {p \in rows : hash'[p] = NoText}]]
    /\ UNCHANGED <<vector, stale, raced, status, report, file, faults>>

\* The INSERT ... ON CONFLICT DO UPDATE and its commit, once no other
\* transaction holds the rows.  The hash read before is written back, the flag
\* compares it with the new text, and COALESCE keeps the vector.
Upsert(i) ==
    LET rows == job[i].batch
        says == file[i].rows
        prior == job[i].read
    IN
    /\ job[i].pc = "writing"
    /\ \A p \in rows : ~Held(i, p)
    /\ text' = [p \in Product |-> IF p \in rows THEN says[p] ELSE text[p]]
    /\ hash' = [p \in Product |-> IF p \in rows THEN prior[p] ELSE hash[p]]
    /\ stale' = [p \in Product |->
                   IF p \in rows THEN prior[p] \notin {NoText, says[p]}
                                 ELSE stale[p]]
    /\ raced' = [p \in Product |->
                   raced[p] \/ (p \in rows /\ hash[p] # prior[p])]
    /\ job' = [job EXCEPT ![i] =
                 [Taken(i) EXCEPT
                    !.written = job[i].written \union rows,
                    !.pending = job[i].pending \union
                       {p \in rows : prior[p] = NoText \/ prior[p] # says[p]}]]
    /\ UNCHANGED <<vector, status, report, file, faults>>

\* A slip: a row refused on its own is forgotten.
RowRefusedUncounted(i) ==
    /\ job[i].pc = "writing"
    /\ job[i].alone # {}
    /\ job' = [job EXCEPT ![i] = Taken(i)]
    /\ UNCHANGED <<catalogue, status, report, file, faults>>

\* DBAPIError on a chunk: its rows are to be tried one by one.
ChunkRefused(i) ==
    /\ job[i].pc = "writing"
    /\ job[i].alone = {}
    /\ Fault("database")
    /\ job' = [job EXCEPT ![i] = [Taken(i) EXCEPT !.alone = job[i].batch]]
    /\ UNCHANGED <<catalogue, status, report, file>>

\* DBAPIError on one of them, whichever are at fault: it is reported.
RowRefused(i) ==
    /\ job[i].pc = "writing"
    /\ job[i].alone # {}
    /\ job' = [job EXCEPT ![i] =
                 [Taken(i) EXCEPT !.refused = job[i].refused \union job[i].batch]]
    /\ UNCHANGED <<catalogue, status, report, file, faults>>

AllWritten(i) == job[i].pc = "choosing" /\ job[i].todo = {} /\ job[i].alone = {}

\* _embed_rows: the rows of the next batch that still need a vector, held
\* FOR UPDATE while the texts they have now are embedded.
EmbedRows(i) ==
    /\ AllWritten(i)
    /\ ~job[i].warned
    /\ \E rows \in Slices(job[i].pending) :
         LET needy == {p \in rows : NeedsReembedding(p)} IN
         /\ \A p \in needy : ~Held(i, p)
         /\ job' = [job EXCEPT ![i] =
                      [job[i] EXCEPT !.pc = "holding", !.batch = needy,
                                !.pending = job[i].pending \ (rows \ needy),
                                !.read = [p \in Product |->
                                   IF p \in needy THEN text[p] ELSE NoText]]]
    /\ UNCHANGED <<catalogue, status, report, file, faults>>

\* embed_and_store and the commit: vector, hash and flag together.
StoreVectors(i) ==
    LET rows == job[i].batch IN
    /\ job[i].pc = "holding"
    /\ vector' = [p \in Product |-> IF p \in rows THEN job[i].read[p] ELSE vector[p]]
    /\ hash' = [p \in Product |-> IF p \in rows THEN job[i].read[p] ELSE hash[p]]
    /\ stale' = [p \in Product |-> p \notin rows /\ stale[p]]
    /\ raced' = [p \in Product |-> p \notin rows /\ raced[p]]
    /\ job' = [job EXCEPT ![i] =
                 [job[i] EXCEPT !.pc = "choosing", !.batch = {}, !.read = Blank,
                           !.pending = job[i].pending \ rows]]
    /\ UNCHANGED <<text, status, report, file, faults>>

\* A slip: the import goes on without the warning.
EmbeddingFailsUntold(i) ==
    /\ job[i].pc = "holding"
    /\ job' = [job EXCEPT ![i] = [job[i] EXCEPT !.pc = "choosing", !.batch = {},
                                          !.read = Blank, !.pending = {}]]
    /\ UNCHANGED <<catalogue, status, report, file, faults>>

\* The batch fails after its retries: no further one is tried, the import goes
\* on to complete, with a warning.
EmbeddingFails(i) ==
    /\ job[i].pc = "holding"
    /\ Fault("provider")
    /\ job' = [job EXCEPT ![i] =
                 [job[i] EXCEPT !.pc = "choosing", !.batch = {}, !.read = Blank,
                           !.warned = TRUE]]
    /\ UNCHANGED <<catalogue, status, report, file>>

\* mark_completed, in a transaction of its own.
Complete(i) ==
    LET rows == Cardinality(RowsOf(file[i])) + file[i].spoiled IN
    /\ AllWritten(i)
    /\ job[i].pending = {} \/ job[i].warned
    /\ status' = [status EXCEPT ![i] = "completed"]
    /\ report' = [report EXCEPT ![i] =
                    [total |-> rows,
                     succeeded |-> Cardinality(job[i].written),
                     failed |-> file[i].spoiled + Cardinality(job[i].refused),
                     warning |-> job[i].warned]]
    /\ job' = [job EXCEPT ![i].pc = "recorded"]
    /\ UNCHANGED <<catalogue, file, faults>>

\* Another exception, or arq cancels the job, anywhere in the try block.
Break(i) ==
    /\ job[i].pc \in {"choosing", "writing", "holding"}
    /\ Fault("break")
    /\ \E cancelled \in BOOLEAN :
         job' = [job EXCEPT ![i] = [job[i] EXCEPT !.pc = "failing", !.batch = {},
                                  !.read = Blank, !.cancelled = cancelled]]
    /\ UNCHANGED <<catalogue, status, report, file>>

\* mark_failed, in a transaction of its own.  A job cancelled by a shutdown is
\* run again; one that failed, or that ran out of its time, is not.
MarkFailed(i) ==
    /\ job[i].pc = "failing"
    /\ status' = [status EXCEPT ![i] = "failed"]
    /\ \/ job' = [job EXCEPT ![i].pc = "finished"]
       \/ job[i].cancelled /\ job' = [job EXCEPT ![i] = Requeued(i)]
    /\ UNCHANGED <<catalogue, report, file, faults>>

\* A status write fails: the job ends with what it had committed before.
RecordLost(i) ==
    /\ \/ job[i].pc = "queued" /\ job[i].tries < MaxTries
       \/ job[i].pc = "failing"
       \/ AllWritten(i) /\ (job[i].pending = {} \/ job[i].warned)
    /\ Fault("record")
    /\ job' = [job EXCEPT ![i].pc = "lost"]
    /\ UNCHANGED <<catalogue, status, report, file>>

Acknowledge(i) ==
    /\ job[i].pc = "recorded"
    /\ job' = [job EXCEPT ![i].pc = "finished"]
    /\ UNCHANGED <<catalogue, status, report, file, faults>>

\* The worker dies: the open transaction rolls back and, once the in-progress
\* key expires, arq runs the job again.
Kill(i) ==
    /\ job[i].pc \in {"choosing", "writing", "holding", "failing", "recorded"}
    /\ Fault("kill")
    /\ job' = [job EXCEPT ![i] = Requeued(i)]
    /\ UNCHANGED <<catalogue, status, report, file>>

GiveUp(i) ==
    /\ job[i].pc = "queued"
    /\ job[i].tries = MaxTries
    /\ job' = [job EXCEPT ![i].pc = "abandoned"]
    /\ UNCHANGED <<catalogue, status, report, file, faults>>

-----------------------------------------------------------------------------
JobStep(i) ==
    \/ Start(i) \/ ReadHashes(i) \/ Upsert(i) \/ EmbedRows(i) \/ StoreVectors(i)
    \/ Complete(i) \/ MarkFailed(i) \/ Acknowledge(i) \/ GiveUp(i)

Next ==
    \E i \in Import :
        \/ Submit(i) \/ Enqueue(i) \/ EnqueueLost(i)
        \/ JobStep(i)
        \/ ChunkRefused(i) \/ RowRefused(i) \/ EmbeddingFails(i)
        \/ Break(i) \/ RecordLost(i) \/ Kill(i)

Spec == Init /\ [][Next]_vars

-----------------------------------------------------------------------------
TypeOK ==
    /\ text \in [Product -> Texts]
    /\ vector \in [Product -> Texts]
    /\ hash \in [Product -> Texts]
    /\ stale \in [Product -> BOOLEAN]
    /\ raced \in [Product -> BOOLEAN]
    /\ status \in [Import -> {"absent", "pending", "processing", "completed", "failed"}]
    /\ report \in [Import -> [total : Nat, succeeded : Nat, failed : Nat,
                              warning : BOOLEAN]]
    /\ file \in [Import -> Files]
    /\ job \in [Import -> JobState]
    /\ faults \in 0..MaxFaults

\* The row says its vector describes it.
Certified(p) == text[p] # NoText /\ ~NeedsReembedding(p)

\* The columns never call a vector current that was computed from another text
\* -- except on a row whose vector another import stored between an upsert's
\* read of its hash and the upsert.  Whatever imports overlap, fail half-way or
\* run again.
CertifiedUnlessRaced ==
    \A p \in Product : Certified(p) => vector[p] = text[p] \/ raced[p]

\* _embed_rows' docstring claims the exception away: an upsert that changes a
\* row's text concurrently waits and then marks the fresh vector stale.
CertifiedIsCurrent == \A p \in Product : Certified(p) => vector[p] = text[p]

\* Still to embed it, or ended in a way its owner can see.
Owes(i, p) ==
    /\ p \in RowsOf(file[i])
    /\ \/ p \in job[i].pending \union job[i].todo \union job[i].alone
       \/ p \in job[i].refused
       \/ job[i].pc \in {"queued", "failing", "lost", "abandoned"}
       \/ status[i] = "failed"
       \/ status[i] = "completed" /\ report[i].warning

\* No row is left unembedded, or marked stale, by imports that all completed
\* without a warning and without an error on that row: somebody still has it on
\* the list, or somebody's record says to import again.
EveryStaleRowIsOwed ==
    \A p \in Product :
        text[p] # NoText /\ NeedsReembedding(p) => \E i \in Import : Owes(i, p)

\* A completed import accounts for every row of its file, once, the rows of a
\* refused chunk and those of an earlier attempt included.
AccountsForEveryRow ==
    \A i \in Import : status[i] = "completed" =>
        report[i].succeeded + report[i].failed = report[i].total

\* An import is left pending or processing for good only when its job never
\* reached the queue, could not write a status, or was killed MaxTries times: a
\* cancellation or any other failure shows on the record.
SilentOnlyWhenLost ==
    \A i \in Import : status[i] \in {"pending", "processing"} =>
        job[i].pc \notin {"absent", "recorded", "finished"}

Promise == INSTANCE Catalogue

\* Imports implement the catalogue search relies on.
CatalogueSpec == Promise!Spec
=============================================================================
