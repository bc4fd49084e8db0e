# Verification of the AI sales agent

TLA+ models of the parts of this repository whose correctness rests on how things interleave: workers
and requests that meet on one row, transactions that split where another can come between, streams whose
client may leave, jobs that are killed and run again. TLC checks the models on small instances; TLAPS
proves the properties that matter most for every value of the constants.

Paths below are relative to `src/apps/api/app/` unless they start with `src/`.

- [1. The system](#1-the-system): components, state, operations, interactions, what is hard
- [2. The modules](#2-the-modules): how each corresponds to the code
- [3. What TLC checks](#3-what-tlc-checks): runs, bounds, fairness
- [4. Where the code and its documentation disagree](#4-where-the-code-and-its-documentation-disagree)
- [5. What is proved](#5-what-is-proved)
- [6. What is only model-checked, and what is not modelled](#6-what-is-only-model-checked-and-what-is-not-modelled)
- [7. The plan](#7-the-plan)
- [8. Running it](#8-running-it)

## 1. The system

A multi-tenant service. A business configures an agent (prompt, model, tools) over its documents and
products; the agent talks to the business's customers. One FastAPI process serves REST, GraphQL, SSE and
MCP; arq workers, in a process of their own or embedded in the API, take jobs from Redis; PostgreSQL
(READ COMMITTED, row-level security by organization) holds all state, a directory holds uploaded bytes.

### How the parts meet

- **Everything is a transaction.** `tenant_session` (`core/tenancy.py`) is one transaction per block:
  commit on a clean exit, rollback otherwise. Handlers of other requests and jobs come between its
  statements. Row locks, foreign keys, unique indexes and one advisory lock are the only coordination.
- **A request hands work to a worker through Redis, after its commit.** `workers/enqueue.py` is called
  outside the transaction, so the process may die between the two and the job is never queued.
- **arq runs a job at least once.** A job cancelled by a shutdown, or left behind by a killed worker, is
  run again up to `max_tries` (3) times; an ordinary exception, arq's own timeout included, ends it. A
  worker slow enough for its in-progress key to expire has its job run a second time beside it.
- **A chat turn is three coroutines.** The handler opens the session and pulls the first event; a pump
  task drains the generator into a bounded queue; the response body drains the queue to the client and
  closes the session in a `finally`.
- **The web client polls and streams.** It polls while a document or a run is not over
  (`src/apps/web/src/lib/document-status.ts`) and reads SSE by hand (`src/apps/web/src/lib/sse.ts`).

### Components

| Component | State | Operations | What is hard | Correct when |
|---|---|---|---|---|
| Document ingestion: `rag/ingest.py`, `documents/service.py`, `api/documents.py`, `rag/storage.py` | `documents` rows (pending, processing, ready, failed), `document_chunks`, bytes on disk, jobs | upload with checksum de-duplication, ingest, retry, delete | two jobs on one document; a delete under an ingest; status written through three different sessions; kill or cancel between any two steps; disk and database not one transaction | "ready" means the whole corpus is there; no chunk without its document; no row without bytes; a job that ends leaves its document settled, or strands it in a way that is known |
| Evaluation runs: `evaluations/{runner,service,queue}.py`, `api/evaluations.py` | `eval_runs` (status, counts, summary), `eval_results`, `usage_events`, the dataset's cases | start, claim, run a case, record, complete, cancel, fail; edits of the dataset meanwhile | two starts; overlapping attempts of a job; resumption; cancel against the case in flight; the time budget | one active run per dataset; each case billed once; a run that is over stays over; the summary covers the results |
| Chat turn: `chat/service.py`, `api/streaming.py`, `api/chat.py`, `conversations/service.py` | `conversations`, `messages` (numbered per conversation), `usage_events`, the event queue, the open session | send, persist, stream, disconnect, commit, rollback, title | turns side by side in one conversation; disconnects; a full queue; failure after the client was told; agent deletion | history grows by whole turns in order; answers are billed exactly once; the screen agrees with history; every stream that begins ends |
| Agent loop and tools: `agents/runner.py`, `tools/*` | the working history, the shared session and its lock, savepoints, `statement_timeout` | steps, parallel tool calls, timeouts | one session shared by concurrent calls; cancellation mid-statement; duplicate call ids | every call gets its result; no tool failure costs the turn |
| Product catalogue: `products/*`, `api/products.py`, `rag/products.py` | `products` (text, vector, hash, stale flag), `product_imports` | import in chunks, embed in a second phase, search | overlapping imports; a hash read before the write it decides; partial failure of a chunk | a vector certified current was computed from the row's text; an import accounts for every row |
| Retrieval: `rag/{retrieve,chunk,extract}.py`, `core/rrf.py` | none of its own | hybrid search, fusion, chunking | numeric edges: ties, floors, overlap | fusion and cuts agree with their definition; chunks cover the text |
| Embeddings: `embeddings/*` | none | batching with retry | partial failure | all vectors or none, in order |
| Prompts and agents: `prompts/service.py`, `agents/service.py`, `api_keys/service.py` | `prompt_versions` (one active), `agents`, `agent_configs`, `agent_tools`, `api_keys` | version, activate, configure, grant, delete, create and revoke keys | check-then-write races; fields of one operation that share a transaction; deletes with cascades | exactly one active version; numbers without a gap; nothing outlives its agent |
| Authentication and limits: `auth/*`, `core/{security,rate_limit}.py`, `mcp/auth.py` | users, memberships, the refresh denylist and counters in Redis | register, log in, rotate, revoke, limit | check-then-revoke | a revoked token stays revoked; a token is traded once unless two tabs raced; a window lets less than two limits through |
| Widget: `widget/*`, `api/widget.py` | `widget_settings`, visitor tokens, daily counters | resolve a key, open a session, chat | limits and caps read before they are used; a session opened by hand | a day's key lets no more through than its cap; visitors never meet; a session is closed once, or its body never began |
| LLM providers: `llm/*` | none | adapt a provider's stream | fragments of calls interleave | the calls delivered are the calls sent |
| MCP: `mcp/*` | none of its own | list and call read tools | rows of one name, linked or not | only what the dashboard shows as on |
| GraphQL: `graphql/*` | none of its own | thin resolvers over the services | - | the services' properties |
| Leads: `leads/*` | `leads` | create from a tool, list | - | a lead belongs to its conversation |
| Workers: `workers/*` | arq's queue in Redis | enqueue, run, retry | at-least-once | each task tolerates being run again |
| Database, configuration, web client, deployment | | | | |

`PROJECT.json` repeats this list with what is modelled of each, and lists under `hazards` the forty places
where this code is most exposed to something a test hardly reaches, with the property that watches each.
Others, watched by a theorem, an extra configuration of section 4, or nothing:

- a retry of a document that a worker has since taken (`api/documents.py:316`), a case deleted between
  `record_result`'s two statements (`evaluations/service.py:509`), a cancelled run's summary after an error
  (`evaluations/service.py:615`), a title queued for a turn that was rolled back (`api/streaming.py:383`):
  section 4;
- `mark_failed`'s two statements with a cancel between (`evaluations/service.py:596`), an enqueue that
  reached Redis although it failed (`api/evaluations.py:110`), a client that leaves an answered turn
  (`api/streaming.py:356`): in the models, and inside `LedgerSpec` and `TranscriptSpec`;
- a commit that fails after `message_end` was sent (`api/streaming.py:382`): `ScreenAgreesWithHistory` is
  stated of turns whose commit did not fail, since a stream cannot be taken back;
- a title whose enqueue is lost (`api/streaming.py:383`) and a document's job that is (`api/documents.py:255`):
  the liveness properties begin with a job on the queue. The document's row stays `pending`, and may be retried;
- `failed` written over the `ready` of the job behind (`rag/ingest.py:214`): in the model, and allowed by it, as
  by the comment at `rag/ingest.py:272-277`. `CorpusSpec` lets a document be hidden at any time;
- a response dropped before its body begins (`api/chat.py:155`, `api/widget.py:412`): `stream_body` is then
  never entered and its `finally`, which alone closes the session, never runs. The models have it (`Unread`,
  `DropUnread`); the properties name it as the one way to keep a session open;
- a recording of a failure that fails itself (`evaluations/runner.py:298`): exempt in `EveryRunSettles`;
- two registrations of one email or slug (`auth/service.py:41`): `CreateAccount` has it, the unique index
  decides, and the loser is told that the *email* is taken also when it was the slug;
- jobs that hold two pool connections each (`workers/settings.py:79`): not modelled.

## 2. The modules

| Module | What it is |
|---|---|
| `DocumentIngest` | uploads, ingest jobs, retries and deletes of documents with the same bytes |
| `DocumentCorpus` | abstract: what ingestion promises retrieval |
| `EvaluationRun` | the runs of one dataset: requests, attempts, edits, failures |
| `EvaluationLedger` | abstract: what the runs promise whoever pays for them |
| `ChatTurn` | chat turns, their streams, titles, and the deletion of their agent |
| `Transcript` | abstract: what a stored conversation promises its readers |
| `ProductImport` | catalogue imports, from the upload to the vectors |
| `Catalogue` | abstract: what imports promise search |
| `AgentLoop` | one turn's loop and the tool calls it runs over one database session |
| `Workspace` | prompts, versions, agents, tool links and keys under concurrent GraphQL operations |
| `Limiter` | the fixed-window counters in Redis and the clock |
| `Widget`, `SignIn` | an anonymous visitor, and a user's tokens, each over `Limiter` |
| `FrontDoor` | composes the two over one clock and one set of counters |
| `Assembly`, `Search`, `Grants`, `Scoring`, `Packing`, `ImportFile` | pure algorithms as operators |
| `Ordering` | a finite set as a sequence by rank, and what is kept of a sequence: `SortSeq` and `SelectSeq`, on which `SequencesExt` builds, are operators the provers do not expand |
| `Decisions` | asks each of those about every input of a bounded family |
| `MC...` | the detailed module with the symmetry sets, definitions and constraints TLC uses |
| `...Proofs` | its theorems |

A handler is split into one action per stretch that no other transaction can come into: at its
transactions' ends and, inside one, at each statement that reads what another may write or takes a lock
another may hold. A row another transaction has locked shows up as a guard. What a transaction has
written and not committed is a field of its own actor, so nobody else can see it. Failures are actions of
their own, drawn from the constant `Faults` and counted against `MaxFaults`; which kinds an instance
allows is the choice of its configuration.

### DocumentIngest

All documents of an instance have the same bytes; documents with other bytes share no state with them.

| State | Code |
|---|---|
| `row[d]` | committed `documents.status`, or absent/deleted |
| `chunks[d]` | the complete set of `document_chunks` is committed |
| `stored[d]` | the file `rag/storage.py` writes |
| `upload[d]` | the `upload_document` request that owns the id |
| `job[j]` | the arq job: `pc`, tries, `seen` (the status its session loaded, kept in the identity map), `fresh` (the one a short transaction loaded), `had` (whether the DELETE of `replace_chunks` saw rows) |
| `request[c]` | a retry or delete |

Two things of the database decide the interesting cases and are modelled by what they do. `OrmWrite`: the
unit of work writes a column only if it differs from the value the *session* loaded. And the unique index
over `(document_id, chunk_index)`: an INSERT that meets committed chunks its own DELETE did not see
collides. The advisory lock is a guard of `TakeLock`, and held until the session ends. `MarkFailed...`
comes after the rollback that releases the lock, as in `_record_failure`. A cancellation inside the `try`
reaches `FailIngest`; a kill reaches nothing. What fails outside the `try` records nothing: `EndsEarly` is an
exception or arq's timeout before it (the load, the wait for the lock, `mark_processing`), `CommitFails` the
commit behind it, and `RecordFails` an error of `_record_failure` itself.

### EvaluationRun

| State | Code |
|---|---|
| `case[c]` | the dataset's `eval_cases` |
| `run[r]` | `eval_runs`: status, the cases counted at the start, `completed_count`, and the results the summary covers |
| `results[r]`, `bills[r]` | `eval_results`, `usage_events` |
| `start[r]` | the `POST /runs` request, with its commit, its enqueue and the failure path of that |
| `queue[r]`, `worker[w]` | arq's record of the job, and the attempt a worker is in |
| `lost` | a history variable: which try of which run was cut short |

`StartCheck` holds the dataset's row lock until `StartCommit`. `RecordLookup` and `RecordResult` are two
actions because `record_result` looks the case up in one statement and inserts in another.
`MarkFailedRead` and `MarkFailedUpdate` likewise. `OverBudget` is the hand-off at the time budget, a
possibility between any two cases. `Stall` lets arq start a job again beside an attempt that is alive.
What a turn says and how it is scored is left out: a turn that errors is a result like any other.

### ChatTurn

| State | Code |
|---|---|
| `conv`, `messages`, `billed`, `titled` | committed `conversations`, `messages`, `usage_events`, titles |
| `turn[t]` | the generator `ChatService.send` and what its transaction has written: the number it took, whether its question and answer are flushed, deltas, step |
| `queue[t]` | the bounded queue between `_pump` and `stream_body` |
| `client[t]` | `stream_body` and what the client has been sent |
| `job[t]` | the title job and its tries |
| `deleting` | conversations whose agent a `DELETE` has locked |

`NumberQuestion` and `InsertQuestion` are apart because `next_seq` reads before the INSERT, which waits
for another turn's uncommitted row with the same number and fails if that one commits. The agent loop is
there as steps (`StreamText`, `CallTools`, `ToolsReturn`, `Finish`), bounded by `MaxSteps` as in
`agents/runner.py`; which tools run is not. `Save` flushes the answer and its usage; `SaveFails` and
`SaveDeadlocks` are what makes `send` report in-band and end normally although its session is rolled
back (`dead`); the deadlock is the one `record_usage`'s foreign key can close with a concurrent DELETE of
the agent. A full queue blocks the pump and so the generator. `Disconnect`, `StopPump`, `Commit`,
`Rollback`, `CloseDead` and `QueueTitle` are the `finally` of `stream_body`, in its order; `Unread` is a body
dropped before it was begun, for which that `finally` does not run. The title job loads and asks the provider in
`StartTitle`, and writes a title or the fallback in `WriteTitle`. A killed one is run again until its tries are
spent (`GiveUpTitle`); an exception that is no `LLMError` or `AppError`, a failing statement or commit and arq's
timeout end it for good (`TitleFails`).

### ProductImport

| State | Code |
|---|---|
| `text[p]`, `vector[p]`, `hash[p]`, `stale[p]` | `products`: what the row says, what its embedding was computed from, `embedding_source_hash`, `embedding_stale` |
| `status[i]`, `report[i]`, `file[i]` | `product_imports` with its counts, and the uploaded bytes |
| `job[i]` | the arq job: rows not yet taken, rows of a refused chunk, the open transaction's batch and what it has read, `pending_embedding`, counts |
| `raced[p]` | history: a vector of `p` was stored between an upsert's read of the hashes and that upsert |

`ReadHashes` and `Upsert` are apart because `upsert_many` selects the stored hashes without a lock and
decides the flags from them. `EmbedRows` takes its rows `FOR UPDATE` and holds them (`Held` is a guard of
every other writer) until `StoreVectors`. `ChunkRefused` and `RowRefused` are the fall-back to savepoints
of one row. An embedding batch that fails ends the embedding and turns into the report's warning. `Break`
is any other exception or a cancellation, `Kill` the end of a process; a job run again starts from the file.

### AgentLoop

| State | Code |
|---|---|
| `pc`, `step`, `seen`, `history` | `AgentRunner.run`: its loop, `seen_call_ids`, the messages it appends |
| `call[k]` | the call at place `k` of the reply, from the queue for the session's lock to its answer, with its three clocks |
| `session`, `budget`, `leads` | the turn's session: usable or lost, with a `statement_timeout` or without, the leads its transaction holds |
| `used` | the counter of `create_lead`'s rate limit |

Time advances in ticks while something is in flight, and no clock that is due may be passed (`Tick`).
PostgreSQL cancels a statement after `Own` ticks (`StatementFails`: the savepoint rolls back),
`InnerTimeout` is the event loop's net over a call's work, `OuterTimeout` the registry's over the call and
its wait. A statement cancelled by either net is in flight and takes the session with it (`Lose`).
Savepoints nest, so `RolledBack` undoes what *anyone* wrote since: the lock is what makes that the call's
own. `AcquireUnlocked` shows it.

### Workspace

An operation is one transaction of one or more mutation fields. `db` is what is committed, `mine[r]` what
operation `r` has written, `req[r]` the statement it is about to run. `Visible` is READ COMMITTED;
`Blockers` says whom a statement waits for (row locks, a foreign key's lock of the parent, the partial
unique index `uq_prompt_versions_one_active`); `FlushFails` is what the first failed statement does to an
operation; an application error ends only its field and leaves what was written, although the docstring of
`build_context` speaks of rolling everything back: a resolver's `AppError` does not reach the session, so
the rest of the operation commits. `DeadlockVictim` breaks a circle of waits.

### Limiter, Widget, SignIn, FrontDoor

`Limiter` is the Redis script: INCR and EXPIRE as one, a key per window, refused calls counted too, and a
Redis that fails lets the call through, counted or not. Dates are ticks; a day is `DayLength` of them.
`Widget` follows a browser through `create_session`, `get_conversation` and `widget_chat_stream`, whose
steps end where the handler awaits: visitor limit, address limit, load of the widget (which opens the
session by hand), cap, first event, hand-over of the response, stream. The id of a conversation comes with the
request, so `Send` takes any; `FirstEvent` compares visitor and agent as `ChatService.send` does. The day and
the cap are read in the step of the load, before the message is counted. `sessions[b]` counts the sessions a
browser's calls have opened and not closed, `orphaned[b]` the responses dropped before their body began;
`daily` is a history of what each day's key let through, the counters it had and the highest cap read for it.
`SignIn` splits a refresh into the look into the denylist, the
entry there and the new pair; two tabs share one cookie. `FrontDoor` interleaves both with the clock.

### The pure algorithms

| Module | Algorithm |
|---|---|
| `Assembly` | `_stream` of both adapters: fragments, blocks, endings |
| `Search` | the vector and keyword arms with their floors, `fuse_rrf`, `top_fused`, the two callers, the match note of `search_products` |
| `Grants` | `first_row_per_name`, the resolver of enabled tools, the dashboard's list and toggle, what MCP exposes |
| `Scoring` | the scorers, the judge's outcome, `case_passed`, the cost of a result |
| `Packing` | `_pack_sentences` with its step back, `chunk_document`, the batches of `embed_batched` |
| `ImportFile` | row parsing and numbering per format, `_dedupe_by_external_id` |

They are not state machines; `Decisions` is one that picks a family and an input (a provider's stream grows
event by event), and has one invariant per family, stated without the algorithm it checks.

## 3. What TLC checks

Every run checks deadlock off, because every actor of this system may legitimately stop: users need not
ask again, clocks and ids of an instance run out, an input once asked about is done. That nothing is stuck
*by accident* is what the liveness properties say.

| Run | Instance | Properties |
|---|---|---|
| `ingest_safety` | 2 documents, 2 jobs, 1 client, 2 tries, 1 fault of kill, commit, early, record, enqueue, rollback; symmetry (1.83M states) | `OneRowPerChecksum`, `NoCollision`, `LiveRowHasBytes`, `StuckOnlyByAbandonedOrReadyReingest`, `CorpusSpec` |
| `ingest_liveness` | 1 document, 2 jobs, 1 client, 2 tries, 1 fault of any kind but enqueue; fairness (402k) | `EveryJobSettles` |
| `evaluation_dataset` | 2 runs, 1 case, 2 workers, 2 tries, 1 fault of any kind (211k) | `CompletedCoversItsCases`, `LedgerSpec` |
| `evaluation_resume` | 1 run, 2 cases, 1 worker, 3 tries, 2 faults without stall and enqueue; fairness (38k) | `NoRecordedCaseReruns`, `SummaryIsCurrent`, `EveryRunSettles` |
| `chat_safety` | 3 turns, 1 conversation, 1 step, no deltas, queue of 1, 2 tries, 1 fault of any kind; symmetry (506k) | `QuestionIsAnswered`, `TranscriptSpec` |
| `chat_stream` | 2 turns, 1 conversation, 1 step, 1 delta, queue of 1, 2 tries, 2 faults other than stray; fairness (157k) | `ScreenAgreesWithHistory`, `EveryStreamEnds`, `EveryConversationIsTitled` |
| `product_import` | 2 products, 2 texts, 2 imports, chunks of 2, 1 spoiled row, 2 tries, 2 faults of any kind; symmetry (546,819 states) | `CertifiedUnlessRaced`, `EveryStaleRowIsOwed`, `AccountsForEveryRow`, `CatalogueSpec` |
| `agent_loop` | 3 ids, 2 rounds of up to 3 calls, own budget 2, grace 1, wait 6; symmetry (111,105 states) | `PairsUp`, `BudgetIsTheCalls`, `AnswersAreTrue` |
| `workspace` | 2 operations of 2 fields, 1 prompt with 3 versions, 1 agent, 2 tools, 3 keys, cap 1; symmetry and constraint (277k) | `OneActiveVersion`, `NumberedWithoutGap`, `AgentsAreWhole`, `KeyOverrunIsBounded` |
| `front_door` | 2 browsers, 2 agents, 2 visitors, 2 conversations, 2 tabs, 3 refresh tokens, 2 caps, 4 moments of time, 1 fault of Redis, 1 dropped response a browser; symmetry and constraint (184k) | `TypeOK`, `LessThanTwiceTheLimit`, `DailyCapHolds`, `VisitorsAreApart`, `SessionsAreReturned`, `RevokedStaysRevoked`, `OneHeirUnlessRaced` |
| `decisions` | every input of six families (381k) | `CallsAreWhole`, `AnswersAreSound`, `GrantsFollowTheToggle`, `VerdictsAreEarned`, `ChunksTileTheText`, `LinesAreAccountedFor` |

and `product_import_race`, whose one property is violated: [section 4](#4-where-the-code-and-its-documentation-disagree).

**What each shows.** `ingest_safety`: a second upload of the same bytes, a second job (from a retry, or from
arq running the first again), a retry or a delete, and one failure at any point, in any order, leave what
retrieval sees whole, and the pipeline implements `DocumentCorpus`. `ingest_liveness`: a queued job comes to
an end for good, and then its document is settled, somebody else is at work on it, or it is stranded in one
of three named ways. `evaluation_dataset`: start requests, overlapping attempts and failures never give a
dataset two open runs, move a run that is over, bill a case twice, or complete a run that skipped a case it
was started with and that still exists. `evaluation_resume`: a resumed run pays for nothing again, its
summary is current, and it ends unless its last try is cut short. `chat_safety`: whatever interleaves,
stored conversations consist of whole turns in order, each question with its answer. `chat_stream`: what the
client was told agrees with what is stored; streams that begin and their transactions come to an end, and a
title job that is not cut short for good gives its conversation a title. `product_import`: apart from the
race of section 4, no vector passes for current that is not, and no row without a current vector is
forgotten: somebody still has it to embed or some record says so. `agent_loop`: each call of a round is
answered once and in its place, though ids repeat and clocks fire; a lead exists exactly if the model was
told so. `workspace`: concurrent activations and authors keep one active version and dense numbers; a delete
takes all its children or waits; the cap on keys can be passed, by at most what the other operations add.
`front_door`: no interval of a window's length, wherever it begins, admits twice the limit; a counter of a
day's key lets through no more than the highest cap read for the key, and one more for each failure of
Redis, messages that are counted after their day included, and until the day is over the key has one
counter; whichever conversation a browser names, it is shown and goes on with its own; only a response whose
body never began keeps its session; a revoked token is refused until it expires, however late in its life it
was revoked; `OneHeirUnlessRaced` excludes exactly the tokens two tabs were trading at once. The cap is one
of a day's *key*: what an agent answers between two midnights are today's messages and those that read
yesterday and waited, each within the cap of its own key. `decisions`: section 2's algorithms keep what
their callers rely on.

### Bounds, and why they are enough

- *Two jobs* are what the advisory lock, the re-ingest and the killed-and-rerun case need; a third can
  only repeat one of them, and the theorems of section 5 cover any number. *Two documents* are what
  checksum de-duplication needs; *one client* is always one more actor than the two jobs.
- *Two workers* make attempts overlap, *two cases* make one recorded and one not, *three tries* let two
  be cut short with one left (`MaxTries` is 3 in the code). Two cases and two workers together are
  `EvaluationRunOverlap.cfg` (one run, two faults, 429k states), which passes and is kept beside the listed
  runs; with two runs as well it does not finish in minutes.
- *Three turns* are needed for two to race in a conversation that a first one began; *one* conversation
  suffices since conversations share nothing but the bound on faults. *A queue of one* is full after one
  event, so blocking happens at once (the code has 32); *one delta* and
  the ending fill it while the client has what came before.
- `MaxText` is 0 where no property looks at deltas.
- *One fault* puts one failure of each kind at every point of every interleaving. Two are allowed where the
  question is what a retry makes of the failure before it (`evaluation_resume`, `product_import`), and in
  `chat_stream`, where the two tries of a title job can both be cut short. A second fault in `ingest_safety`
  and `chat_safety` is left to the proofs.
- *Two products in chunks of two* let a chunk be refused and tried row by row; the race needs three
  imports of one product, and `ProductImportRace.cfg` has them.
- *Three calls a round* leave one running and two waiting, so that a wait can outlast the registry's clock
  behind another wait; *two rounds* let an id of the first come back. Ticks: a statement, the net and the
  queue must be tellable apart, which `Own` 2, `Grace` 1 and `Wait` 6 do. The code's budgets keep the
  order own < own + grace < own + wait.
- *Two operations of two fields* meet in every pair of statements and let a field follow its own
  operation's failed one. *Three versions* give activations two others to clear. The constraint
  `OneSubject` in `MCWorkspace` explores versions, non-default links and keys one at a time: they share no
  row but the agent's and the prompt's own, both kept.
- In `front_door`, what the parts share is the clock and the code of the counters, so `OneSubject` in
  `MCFrontDoor` explores them in four frames. `OneKey`: one key of a launcher's, limit 2 and window 2, over
  four moments, so that a window may begin at any time and two meet at a boundary inside an interval of two.
  `OneDay`: messages to one agent up to their count under the day, across midnight (`DayLength` 2), with
  caps of 1 and 2 that the owner changes while they wait, and Redis failing once; both visitors' tokens are
  issued before the first message is counted. `OneWindow`: two agents, two visitors and two conversations,
  every id presented by everybody, with responses dropped before their body. Agents and conversations are
  only compared, so the first visitor is the first agent's and the first conversation begins first. `OneUser`:
  two tabs and refresh tokens that live two ticks, so that one may be revoked at its start, in the middle of
  its life, or after it; the tabs sign in at moment 0, and a second registration of a taken address may still
  come at moment 1, before a token is refreshed. Counters stop at `MaxCount` 3, one above every limit.
- `decisions`: five block events or four deltas contain two calls with two fragments each in any order;
  three rows have every tie; documents of up to two sections or five sentences with sizes around the
  target; files of up to five lines.

A model has these further bounds in its guards: `MaxTries`, `MaxSteps`, `MaxText`, `QueueMax`,
`MaxFaults`, `MaxSpoiled`, `Width`, `Lookups`, `MaxVersion`, `MaxFields`, `MaxTime`, `MaxCount`, `MaxOrphans`.
`MaxTries`, `MaxSteps` and `QueueMax` are constants of the code or of its configuration. Sequence numbers and
counts are unbounded naturals elsewhere, finite because ids are.

### Fairness

- *Workers:* weak fairness per job, attempt or title job. arq polls for ever and an asyncio worker
  resumes every coroutine whose await has completed. Nothing is assumed to succeed: the fair disjunction
  contains a step's failure path, and fault actions are never fair.
- *Requests:* weak fairness of a request past its first commit or lock (`StartCommit` and what follows;
  `RetryCommit`, `DeleteCommit`): the event loop carries it on. Nobody has to begin one.
- *Chat:* weak fairness of the generator (the provider answers or fails, a statement returns or
  deadlocks) and of the consumer (the client keeps reading, or disconnects). `HEARTBEAT` pings are left
  out: they change nothing. A client that neither reads nor leaves would stop a stream, and does so in
  the code.

The modules of this list's second half are checked for safety only. What would be liveness there is a safety
property of the end: `EveryStaleRowIsOwed` and `SilentOnlyWhenLost` say what an import that stopped left.

### Where liveness stops

- `EveryJobSettles` has the job itself come to an end, not only the row pass through a settled status, and
  exempts a document in which somebody else is at work by then or which a job has stranded (`Stranded`): a
  kill on the last try; an end that records nothing, before the `try` (`rag/ingest.py:278-281`; a row whose
  bytes a rolled-back delete has unlinked is one, as its job dies in `load_document_bytes`), in the commit
  behind it, or in `_record_failure` itself (`rag/ingest.py:319-321`); and a success over a row loaded as
  `ready` (`DocumentIngestReingest.cfg`, section 4). In each the row may say `processing` for good, and the
  only way out is to delete the document; a job that ends before it has said so leaves `pending`, which may be
  retried.
- `EveryConversationIsTitled` exempts a title job that raised what it does not catch or ran out of time (arq
  does not run it again), and one that was killed in every try.
- `EveryRunSettles` exempts a run whose *last* try was cut short, or whose request died before the
  enqueue. `docs/PHASE-6.md:336` accepts that.
- `EveryStreamEnds` speaks of bodies that are begun: one that is dropped before closes nothing. It is checked
  without the fault `stray`: a `BaseException` in the generator while the
  queue is full makes `_pump` drop its sentinel (`api/streaming.py:209-210`), and the stream pings for
  ever. The comment there knows that `put_nowait` can drop it.

## 4. Where the code and its documentation disagree

`product_import_race` is a listed run. `upsert_many` selects each row's stored hash without a lock
(`products/service.py:276`) and decides from it, before its own statement, what that statement will write as
hash and flag. TLC's behaviour has no failure in it. One import stores text A and its vector. A second,
which says B, and a third, which says A as its file has not changed, both read the hash of A; the second
upserts B, embeds it, and commits vector and hash of B; the third's upsert then writes A with the hash of A,
unflagged, and `COALESCE` keeps the vector of B, certified from now on. `_embed_rows` says the opposite
(`products/importer.py:596-598`): an upsert that changes a row's text concurrently "waits and then marks the
fresh vector stale against its new text". It may wait, but what it marks was decided before.
`CertifiedUnlessRaced` shows that this is the only way.

The other disagreements are kept as configurations beside the listed runs. Each names one property (the last
names three: leave one at a time in it), quoted from the repository, which TLC violates by what the code does.

| Configuration | What happens |
|---|---|
| `DocumentIngestReingest.cfg` (`SuccessLeavesReady`) | A job that was waiting for the lock loaded the row as `ready`; after `mark_processing` (another session) the assignment of `ready` in `mark_ready` emits no UPDATE. The chunks commit and the row stays `processing`, which neither retry nor re-upload gets out of. `rag/ingest.py:269-270` says the second job "simply re-ingests over the first". No failure is needed. |
| `DocumentIngestRetryRace.cfg` (`RetryOnlyFromRetriable`) | `retry_document` checks the status without a lock, so it can write `pending` over a `processing` or `ready` that a worker committed after the check (`api/documents.py:283-285`). |
| `EvaluationRunCancelled.cfg` (`CancelledSummaryRefreshed`) | An error after the in-flight case of a cancelled run was recorded goes to `mark_failed`, which leaves cancelled rows alone; the summary lacks that case, against `docs/PHASE-6.md:267-268`. |
| `EvaluationRunDeletedCase.cfg` (`DeletedCaseIsSkipped`) | A case deleted between `record_result`'s lookup and INSERT fails the run, where the docstring promises to skip it (`evaluations/service.py:502-504`). |
| `ChatTurnTitle.cfg` (`TitleOnlyForCommitted`) | A turn whose rows PostgreSQL refused rolls back without an exception, and a title is queued for a conversation that does not exist, against `api/streaming.py:222-228`. |
| `AgentLoopQueue.cfg` (`OnlyTheNetCostsTheSession`) | The docstring of `_run_bounded` names one residual way to lose the session, the event loop's net over a call's own work (`tools/runtime.py:324-326`). The registry's clock is another: a call that waits behind two others for the lock has spent its wait when it begins, and is cancelled in its first statement (`tools/registry.py:258`). |
| `WorkspaceKeyCap.cfg` (`KeysWithinCap`) | Two operations count the active keys before either inserts one: the cap of `docs/PHASE-7.md:196` is passed. |
| `DecisionsClaims.cfg` (`SharpNoteNamesTheTop`, `ScreenIsTheResolver`, `RowNumbersPointAtTheFile`) | The note on a sharp result speaks of the top of the list, which fusion may have given to a row that is not the nearest (`tools/products.py:466-475`). `list_tools` shows a tool as off that the resolver runs, when an organization's own unlinked row hides a linked global one (`db/builtin_tools.py:112`). `_parse_csv` counts rows after `csv.DictReader` has dropped the blank lines, so the numbers after one do not point at the file's lines (`products/importer.py:366`). |

A comment that a listed property stops short of: `auth/service.py:148-149` says that a stolen refresh token "is
usable at most once". The denylist is read before the user is looked up and written after, so two
requests that present one token at the same time both pass the look, and both get a pair.
`OneHeirUnlessRaced` is what holds instead: at most one heir for a token that no two were trading at once.

Met while modelling, and seen in no run: the docstring of `build_context` says that a failed mutation rolls
everything back (section 2, Workspace); the OpenAI adapter says it "mirrors the Anthropic provider's mapping
exactly", but a 400 or 404 is a rejected model there and a configuration error here, and arguments that are
no JSON raise there where Anthropic's drop the call; `core/rrf.py` says that a row found by every list
outranks the best of one list, which holds only while its ranks are at most 62, and product search takes
up to 80 candidates; a judge that is unavailable makes the cost of a result unknown although nothing
unpriced was billed; the step back of `_pack_sentences` can make a chunk that lies wholly in the one before.

## 5. What is proved

For any documents, jobs, clients, runs, cases, workers, turns, conversations, imports, products, calls,
operations, browsers, tabs, limits, windows and their bounds, any texts, overlaps, wires and files, and any
`Faults`. The proofs assume only the modules' named ASSUMEs: bounds are naturals, `Faults` are known kinds,
`NoDocument`, `None` and their like are neither ids nor tokens, and `Case`, `Product` and `Request` are finite.

Three theorems exclude a kind of fault in their own statement, the one that the run of the same property
leaves out, because with it the property is false and TLC shows a trace: `BytesOutliveTheRow` a DELETE that
fails after the bytes are gone (`undelete`), `ResumesAreFresh` a worker that stalls past its lease and goes on
beside its successor (`stall`), `SummariesKeepUp` that stall and a failed `enqueue`, whose `mark_failed` may
write over a run that another attempt is on.

| Module | Theorem | Property |
|---|---|---|
| `DocumentIngestProofs` | `Typed` | `TypeOK` |
| | `ReadyIsWhole` | `ReadyHasChunks` |
| | `ChunksHaveADocument` | `NoOrphanChunks` |
| | `LockPreventsCollision` | `NoCollision` |
| | `IngestImplementsCorpus` | `CorpusSpec` |
| | `RowsAreUnique` | `OneRowPerChecksum` |
| | `BytesOutliveTheRow` | `LiveRowHasBytes` |
| | `StuckForAReason` | `StuckOnlyByAbandonedOrReadyReingest` |
| `EvaluationRunProofs` | `Typed` | `TypeOK` |
| | `OneRunAtATime` | `OneActiveRun` |
| | `BilledOnce` | `BilledWithItsResult` |
| | `EndsOnce` | `TerminalStays` |
| | `EvaluationImplementsLedger` | `LedgerSpec` |
| | `CompletionIsWhole` | `CompletedCoversItsCases` |
| | `ResumesAreFresh` | `NoRecordedCaseReruns` |
| | `SummariesKeepUp` | `SummaryIsCurrent` |
| `ChatTurnProofs` | `Typed` | `TypeOK` |
| | `StoredInOrder` | `NumberedInOrder` |
| | `QuestionsAreAnswered` | `QuestionIsAnswered` |
| | `AnswersAreBilled` | `BilledWithItsAnswer` |
| | `ChatImplementsTranscript` | `TranscriptSpec` |
| | `ScreensAgree` | `ScreenAgreesWithHistory` |
| `ProductImportProofs` | `ImportTyped` | `TypeOK` |
| | `ImportCertifies` | `CertifiedUnlessRaced` |
| | `ImportImplementsCatalogue` | `CatalogueSpec` |
| | `ImportAccounts` | `AccountsForEveryRow` |
| | `ImportSpeaks` | `SilentOnlyWhenLost` |
| | `ImportForgetsNoRow` | `EveryStaleRowIsOwed` |
| `AgentLoopProofs` | `LoopTyping` | `TypeOK` |
| | `LoopBudget` | `BudgetIsTheCalls` |
| | `LoopAnswersTruly` | `AnswersAreTrue` |
| | `LoopPairsUp` | `PairsUp` |
| `WorkspaceProofs` | `WorkspaceTyped` | `TypeOK` |
| | `PromptsHaveOneActive` | `OneActiveVersion` |
| | `VersionsAreNumbered` | `NumberedWithoutGap` |
| | `AgentsStayWhole` | `AgentsAreWhole` |
| | `KeyOverrunHolds` | `KeyOverrunIsBounded` |
| `FrontDoorProofs` | `FrontDoorTyped` | `TypeOK` |
| | `SessionsComeBack` | `SessionsAreReturned` |
| | `RevokedIsRefused` | `RevokedStaysRevoked` |
| | `TradedOnce` | `OneHeirUnlessRaced` |
| | `VisitorsStayApart` | `VisitorsAreApart` |
| | `WindowsHold` | `LessThanTwiceTheLimit` |
| | `DayIsCapped` | `DailyCapHolds` |
| `DecisionsProofs` | `AnyDocumentIsTiled`, `AnyBatchesCover` | the two halves of the next, of any document |
| | `ChunksCover` | `ChunksTileTheText` |
| | `AnyVerdictIsEarned` | the verdict's half of the next, of any case |
| | `VerdictsEarned` | `VerdictsAreEarned` |
| | `GrantsAgree` | `GrantsFollowTheToggle` |
| | `AnyFileIsAccountedFor` | the next, of any file |
| | `LinesAccounted` | `LinesAreAccountedFor` |
| | `AnyBlocksAreWhole`, `AnyDeltasAreWhole` | the two halves of the next, of any wire |
| | `CallsWhole` | `CallsAreWhole` |
| | `AnyAnswerIsSound` | the next, of any corpus of up to twenty rows |
| | `AnswersSound` | `AnswersAreSound` |

Where a theorem proves a property, no listed run need ask it again: the types of the first six modules,
`ReadyHasChunks`, `NoOrphanChunks`, `OneActiveRun`, `BilledWithItsResult`, `TerminalStays`, `NumberedInOrder`,
`BilledWithItsAnswer` and `SilentOnlyWhenLost` are in no configuration, so that the runs keep to what proofs
do not reach or what a small instance shows best. TLC agreed with each before it was proved.

**Ingestion.** Neither `ReadyHasChunks` nor `NoOrphanChunks` is inductive: a flushed job commits status and
chunks together, but what it commits to depends on who else may write the row. `CorpusInv` adds two parts
to them. `UploadOwnsRow`: an id has no row before its upload commits, so no upload can set a row over
chunks. `WritersHoldRow`: a job that has flushed and a client that is deleting still have a row to commit to,
and no two of them have the same one (the row lock, and the foreign key of the flushed chunks). `LockInv`
carries the advisory lock: `LockIsExclusive` (at most one job per document between taking the lock and the
end of its session) and `SnapshotIsCurrent` (if the DELETE of `replace_chunks` saw no chunks, there are
none when it inserts); `NoCollision` follows. The refinement takes `CorpusInv` to show that every step
maps to `Create`, `Index`, `Hide`, `Remove` or a stutter. `OneRowPerChecksum` counts open INSERTs as rows
(`OneOccupant`: the unique index makes the second one wait), and `LiveRowHasBytes` needs that an INSERT is
only reached over stored bytes (`BytesFirst`). A stuck document needs more than a live job to be excused
later: `Answered` asks for one that still owes a status, and a job about to write "failed" over the "failed"
it loaded owes none, as SQLAlchemy sends no UPDATE.

**Evaluation.** `RunInv` is `TypeOK`, `OneActiveRun`, and: a request that holds the dataset's lock excludes
every other and every active run; a run not started has no row, job, result or bill;
`BilledWithItsResult`. The lemma `Moves` classifies every step by what it does to rows, results and
bills, once; each theorem then has a handful of cases and not thirty. Three further layers: `CoverInv`, that
a case of a run an attempt is on is done, still to do or deleted (`Covers`), and that a loop is left early
only for a run that is over (`Claimed`); `ResumeInv`, that without a stall a job has one attempt
(`OneAttempt`), so that what it crossed off its list is what nobody else adds to (`Fresh`); `SumInv`, that a
run that is over was summed up after its last result, or its attempt is about to be (`Summed`), and what
`mark_failed` read is still all there is (`Found`).

**Chat.** In three layers. `LocalInv` is about one turn: its consumer outlives its generator, it commits only
after a sentinel and without an exception, only an open transaction holds rows, the step counter stays in
its bound. It is shown action by action. `Moves` then classifies every step as one of six that touch
committed rows or take numbers, or as quiet. `StoredInv` is about what turns do to each other: at most
one open question per conversation, whose number is the next one (the unique constraint and the waiting
INSERT), rows belong to turns that ended, a conversation not yet committed belongs to the turn that
created it, a deleted agent's conversation has no open rows. From it come the numbering, the pairing of
question and answer, the billing and the refinement. `ScreenInv` follows the stream from the generator
through the queue to the client: the text deltas still queued take the count the client has seen to the
count the turn has written (`Counts`), nothing follows an ending (`DoneIsLast`), and an ending that is
queued or sent is true of what the transaction holds (`Honest`). When the transaction ends, what was seen
becomes what is stored, for every failure between the last delta and the commit.

**Imports.** `Partition`: while a job works, each row of its file is on exactly one of four lists (to do, to
do alone, written, refused), which is what makes a report's counts add up although a refused chunk goes back.
`Rows`: what a job lists as pending exists, and what it holds `FOR UPDATE` is as it read it. `Flags`: a hash
without a flag is the text's, and unless the row was raced a hash is the vector's. `CertifiedUnlessRaced` is
the two halves of `Flags` put together; the refinement needs `Rows` alone. `ImportForgetsNoRow` is shown from
the rows a step makes owed or releases.

**The agent loop.** One call at a time is between the lock and its release (`OneAtATime`); with it, what was
written since a call's savepoint is that call's own lead (`SinceOwn`), so that a rollback takes no other's.
`Ledger` follows a call: how many of its statements are done decides whether its lead is there. Ids are
distinct within a round and seen (`Distinct`, `Known`), which keeps the history paired (`Recorded`).

**Prompts.** `IInv` is `TypeOK` and, about versions: two transactions never hold the same version (`Exclusive`)
nor an active version of the same prompt (`OneHolder`, from the partial unique index); the committed rows have
dense numbers and exactly one active version; and each operation sees the same of what is committed and what
it wrote (`Sees`), except between the UPDATE that clears and the one that activates. A commit makes an
operation's view the committed one, so the invariant passes from the one to the other.

**Agents and keys.** `AInv` is the same idea for an agent's family, its own row and its children: no two
transactions hold the same row of it (`Sole`), whoever deletes the agent shares it with nobody who writes a
child (`Spared`, the lock of the foreign key), a child goes only with its agent, and what each operation sees
is whole. `KInv` bounds the keys not as they are but as they would be if any set of the open operations
committed (`After`): each counted fewer than the cap before it minted, and adds no more than its fields or
the cap, so the bound survives whoever commits first.

**The front door.** `RInv`: the denylist entry of a burned token outlives the token. `HInv` follows a token
that no two tabs were trading at once: at most one tab may issue for it, only after it is burned, and it has
no heir yet. `VInv`: an id belongs, by a token, a call or a conversation, to one browser and was minted for
it; and `CallsOwn`, that the conversation of a turn whose response is handed over or streaming is of the
turn's visitor, or not stored yet and of no other such turn. It is `FirstEvent` that establishes it,
whatever id the request brought, since a conversation passes only with the visitor of the call.
`SessionsComeBack` needs that a step moves one browser's call, and opens or closes a session exactly if the
call enters or leaves the steps that hold one; `DropUnread` alone leaves them and closes nothing, and counts
itself. `LInv` reads the calls admitted in an interval as a set, of pairs of a moment and a number, whose
cardinality adds over adjoining intervals without an induction. A window that is counting has admitted less
than its limit after its first moment, and less than its limit before it in any interval that still reaches
the present, which gives twice the limit less one. `DInv` keeps for every day's key what its counters let
through: each that is gone no more than the highest cap read for the key, the one that lives no more than it
has counted, and one more for each failure of Redis (`DayCounted`, `DayKept`). A counter of the key cannot
begin before the key's day, so it does not lapse before that day is over; until then the key has had at most
one.

**The pure decisions.** TLC asks about documents of two sections; `AnyDocumentIsTiled` and `AnyBatchesCover`
are about sequences of any length. The prover cannot use an induction rule that takes a predicate, but that
`<` is well founded on the naturals is a fact about one relation, and its consequence `LeastOf` (a set of
naturals with a member has a least one) takes none: each induction is a least counterexample.
`_pack_sentences` goes from the left and each chunk's start depends on the one before, so a solution of its
recursion is built from the right end (`PackingHasASolution`), after `NextStartIsAhead` has shown that a
chunk always starts after the one before it, however large the overlap: that is also why the loop ends.
`Chain` says what the spans from a start promise, `FlattenSeqLays` where the flattened sequence keeps each
section's spans (at an `Offsets`), and `FoldIsASum` that a fold of word counts is a natural number. A
verdict is taken score by score: a score passed if what it counted is all it expected (`RecallIsMet`,
`SelectionIsMet`, `JudgementIsMet`), and the card is not empty because a case expects something. Grants are
one name's rows at a time.

The other three families put things in order, and an order is by rank here: `Ranked` puts at n the member that
n - 1 others precede. That there is one is `EveryRankIsTaken`, a pigeonhole: members of different rank have
different sets of predecessors, so as many ranks are taken as there are members. `ListingIsInOrder` then gives
what a proof asks of a sorted list: each member once, and earlier exactly if it precedes. A file's rows are told
apart by their numbers, so those kept, replaced and refused are counted as sets of positions. For an adapter
the loop's state after each prefix of the wire is described by the prefix alone (which blocks are open, what
each holds, which calls are out) and a least counterexample is a step of the loop that breaks the description.
An answer of search is the list of the rows found, ordered by score and cut at the limit. What puts a row ahead
is arithmetic: over the first twenty places the share of a place falls strictly, and two shares outweigh any
one. `Scale` makes the first three shares whole numbers and rounds the others down, which leaves them apart.
Twenty is the number of candidates a search takes at the least, so no arm cuts its list; with longer lists
the claim is that of section 4, and it fails past rank 62.

## 6. What is only model-checked, and what is not modelled

With TLC only: every liveness property (`EveryJobSettles`, `EveryRunSettles`, `EveryStreamEnds`,
`EveryConversationIsTitled`: TLAPS does not reason about fairness and ENABLED). Every other property of a
passing run has a theorem.

Abstracted in the modelled parts: the text of messages, prompts, answers, chunks and vectors; provider,
model and latency; citations and `message_tool_calls` rows (written in the answer's transaction, before its
usage); log lines, pings and payload shapes; organizations (one tenant: row-level security keeps others
apart, and none of these properties is about two). A result's cost is in `Scoring`, not in `EvaluationRun`.
Two failures that no model has: PostgreSQL losing a committed transaction, and a partially written file.

Not modelled: see `components` in `PROJECT.json`. In short:

- reads: GraphQL's queries and types, listings of conversations, leads, keys and products;
- conversions of a library or of text: extraction, sentence splitting, password hashing, signatures,
  system-prompt rendering, widget origins, the SSE frames the web client parses;
- requests to providers and the mapping of their errors; OpenRouter's catalogue;
- editing of products by hand and of evaluation datasets, each one statement of one transaction;
- the MCP transport, the application's shell, migrations, seed data, deployment and the web client's
  rendering, which keep no protocol state of their own.

## 7. The plan

Done, each later part resembling the earlier: `DocumentIngest`, `EvaluationRun`, `ChatTurn`, `ProductImport`,
each with its abstract specification and proofs; `AgentLoop`, `Workspace`, `FrontDoor` and the pure algorithms
with proofs.

Left, in order of worth:

1. the composition of `AgentLoop` with `ChatTurn`: a session lost in a round and the turn's in-band failure
   are two models of one step today;
2. search over more rows than an arm takes: which of its promises survive the cut, with ranks past twenty;
3. retries inside `embed_batched`, the embedded worker's start and stop.

Each counterexample of section 4 suggests a repair of a line or two (read the hashes `FOR UPDATE`, check the
status in the UPDATE's WHERE, count keys under the agent's lock) whose model the existing proofs should survive.

## 8. Running it

In this directory, with TLC, the community modules and TLAPS 1.4.5 installed:

```
tlc -workers 2 -config DocumentIngestSafety.cfg MCDocumentIngest
tlapm DocumentIngestProofs.tla
```

Each run of `PROJECT.json` names its module and configuration. Configurations that are not a run of it:
`EvaluationRunOverlap.cfg` (passes) and the counterexamples of section 4. Mutants are operators at the place of
the definition they change (`...Unlimited`, `...Anyway` and so on): each is a plausible bug, and each property
of a passing run is violated by the mutant listed for it.
