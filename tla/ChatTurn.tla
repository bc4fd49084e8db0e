------------------------------ MODULE ChatTurn ------------------------------
(***************************************************************************)
(* Chat turns over SSE.  A turn is one transaction written by a generator  *)
(* (ChatService.send), which a pump task drains into a bounded queue; a    *)
(* consumer (stream_body) sends the queue to the client, then stops the    *)
(* pump, commits or rolls back and queues a title for a new conversation.  *)
(* Turns of one conversation run side by side, and the agent that owns it  *)
(* may be deleted meanwhile.                                               *)
(*                                                                         *)
(* Each conversation stands for one agent's.  What the model says, which   *)
(* tools run and the pings are left out; uncommitted rows are the fields   *)
(* of their turn, and an action is one statement that another transaction  *)
(* can come before.                                                        *)
(***************************************************************************)
EXTENDS Naturals, Sequences

CONSTANTS
    Turn,            \* POST /chat/stream requests
    Conversation,    \* conversation ids
    MaxSteps,        \* agent_configs.max_agent_steps
    MaxText,         \* bound on the text deltas of one turn
    QueueMax,        \* _QUEUE_MAXSIZE
    MaxTries,        \* WorkerSettings.max_tries
    MaxFaults,       \* bound on the failures of Faults in one behaviour
    Faults,          \* the failures this instance allows, out of FaultKind
    NoConversation

\* provider: an AppError while the model streams.  bug: any other exception
\* there.  stray: a BaseException that nobody asked for, in the generator.
\* database: a statement of the turn fails.  commit: its COMMIT does.
\* enqueue: Redis refuses the title job.  crash: the API process dies.
\* kill: a worker dies.  title: the title job raises, whatever is not an
\* LLMError or AppError of its generation, or arq's time limit ends it.
FaultKind ==
    {"provider", "bug", "stray", "database", "commit", "enqueue", "crash", "kill", "title"}

ASSUME MaxStepsAssumption == MaxSteps \in Nat \ {0}
ASSUME BoundsAssumption ==
    MaxText \in Nat /\ QueueMax \in Nat \ {0} /\ MaxTries \in Nat \ {0} /\ MaxFaults \in Nat
ASSUME FaultsAssumption == Faults \subseteq FaultKind
ASSUME ConversationAssumption == NoConversation \notin Conversation

VARIABLES
    conv,       \* the committed conversations rows
    messages,   \* the committed messages rows
    billed,     \* the turns with a committed usage_events row
    titled,     \* the conversations with a title
    turn,       \* each turn's generator and what its transaction has written
    queue,      \* between each turn's pump and its consumer
    client,     \* each turn's consumer, and what its client has seen
    job,        \* each turn's title job
    deleting,   \* conversations whose agent a DELETE has locked
    faults      \* how many failures have happened

vars == <<conv, messages, billed, titled, turn, queue, client, job, deleting, faults>>

\* What a turn ends with: its terminal event.  internal: ChatError
\* internal_error, from the generator or from the consumer.
Ending == {"end", "limit", "error", "internal"}
Item == {"text", "calls", "results", "done", "crash"} \union Ending

\* answered: complete.  partial: cut short by a provider error.
Role == {"user", "answered", "partial"}
Message == [conv: Conversation, seq: Nat, turn: Turn, role: Role, text: Nat]

\* seq: the number next_seq gave the question.  asked, answer: the rows the
\* open transaction holds.  text: deltas so far.  dead: the session's
\* transaction is rolled back already, though it is not closed.
TurnState ==
    [pc: {"idle", "started", "numbering", "asking", "model", "tools", "saving",
          "telling", "closing", "raising", "over", "stray"},
     conv: Conversation \union {NoConversation}, created: BOOLEAN,
     seq: Nat, asked: BOOLEAN, answer: {"none", "answered", "partial"},
     text: Nat, step: 0..MaxSteps, ending: Ending \union {"none"}, dead: BOOLEAN]

\* exc: exc_info is set.  shown: deltas sent.  sent: the terminal event sent.
\* unread: stream_body was never begun.
ClientState ==
    [pc: {"none", "first", "loop", "closing", "exiting", "titling", "closed", "lost", "unread"},
     exc: BOOLEAN, shown: Nat, sent: Ending \union {"none"}]

\* tries: arq's job_try.  failed: the conversation was not there.
JobState ==
    [pc: {"none", "queued", "writing", "done", "failed", "raised", "abandoned"},
     tries: 0..MaxTries]

IdleTurn == [pc |-> "idle", conv |-> NoConversation, created |-> FALSE,
             seq |-> 0, asked |-> FALSE, answer |-> "none", text |-> 0,
             step |-> 0, ending |-> "none", dead |-> FALSE]
IdleClient == [pc |-> "none", exc |-> FALSE, shown |-> 0, sent |-> "none"]
NoJob == [pc |-> "none", tries |-> 0]

Init ==
    /\ conv = [c \in Conversation |-> "absent"]
    /\ messages = {}
    /\ billed = {}
    /\ titled = {}
    /\ turn = [t \in Turn |-> IdleTurn]
    /\ queue = [t \in Turn |-> <<>>]
    /\ client = [t \in Turn |-> IdleClient]
    /\ job = [t \in Turn |-> NoJob]
    /\ deleting = {}
    /\ faults = 0

-----------------------------------------------------------------------------
Fault(kind) ==
    /\ kind \in Faults
    /\ faults < MaxFaults
    /\ faults' = faults + 1

\* The turn's own session sees a conversation it created before it commits.
Visible(t) == turn[t].created \/ conv[turn[t].conv] = "live"

Committed(c) == {m \in messages : m.conv = c}

\* The open transactions with rows, and so row locks, in conversation c.
Holders(c) == {t \in Turn : turn[t].asked /\ turn[t].conv = c}

\* next_seq over the rows the session sees, none of its own yet: n is
\* COALESCE(MAX(seq), 0) + 1.
IsNextSeq(c, n) ==
    /\ n \in {1} \union {m.seq + 1 : m \in Committed(c)}
    /\ \A m \in Committed(c) : m.seq < n

Room(t) == Len(queue[t]) < QueueMax
Put(t, item) == queue' = [queue EXCEPT ![t] = Append(@, item)]

\* The generator is suspended where it reads, writes or waits for the model.
Working(t) == turn[t].pc \in {"started", "numbering", "asking", "model", "tools", "saving"}

-----------------------------------------------------------------------------
(* ChatService.send, up to the model *)

\* The agent, the conversation and the first event, before the response
\* starts.  (An unknown agent or conversation refuses the request: nothing is
\* written.)
Send(t, c, created) ==
    /\ turn[t].pc = "idle"
    /\ IF created THEN conv[c] = "absent" /\ \A u \in Turn : turn[u].conv # c
                  ELSE conv[c] = "live"
    /\ turn' = [turn EXCEPT ![t] = [@ EXCEPT !.pc = "started", !.conv = c, !.created = created]]
    /\ client' = [client EXCEPT ![t].pc = "first"]
    /\ UNCHANGED <<conv, messages, billed, titled, queue, job, deleting, faults>>

\* history, or the NotFoundError of a conversation that has gone.
ReadHistory(t) ==
    /\ turn[t].pc = "started"
    /\ turn' = [turn EXCEPT ![t].pc = IF Visible(t) THEN "numbering" ELSE "raising"]
    /\ UNCHANGED <<conv, messages, billed, titled, queue, client, job, deleting, faults>>

\* append_message's get and next_seq.
NumberQuestion(t) ==
    /\ turn[t].pc = "numbering"
    /\ \/ /\ ~Visible(t)
          /\ turn' = [turn EXCEPT ![t].pc = "raising"]
       \/ /\ Visible(t)
          /\ \E n \in {1} \union {m.seq + 1 : m \in Committed(turn[t].conv)} :
               /\ IsNextSeq(turn[t].conv, n)
               /\ turn' = [turn EXCEPT ![t] = [@ EXCEPT !.pc = "asking", !.seq = n]]
    /\ UNCHANGED <<conv, messages, billed, titled, queue, client, job, deleting, faults>>

\* The INSERT: it waits for a transaction that holds the same number, and a
\* committed one, or a conversation that has gone, is a ConflictError.
InsertQuestion(t) ==
    /\ turn[t].pc = "asking"
    /\ \A u \in Holders(turn[t].conv) : turn[u].seq # turn[t].seq
    /\ IF Visible(t) /\ \A m \in Committed(turn[t].conv) : m.seq # turn[t].seq
         THEN turn' = [turn EXCEPT ![t] = [@ EXCEPT !.pc = "model", !.asked = TRUE]]
         ELSE turn' = [turn EXCEPT ![t].pc = "raising"]
    /\ UNCHANGED <<conv, messages, billed, titled, queue, client, job, deleting, faults>>

\* Nothing before the model is guarded: an error there leaves the generator.
AskFails(t) ==
    /\ Fault("database")
    /\ turn[t].pc \in {"started", "numbering", "asking"}
    /\ turn' = [turn EXCEPT ![t].pc = "raising"]
    /\ UNCHANGED <<conv, messages, billed, titled, queue, client, job, deleting>>

-----------------------------------------------------------------------------
(* AgentRunner.run inside send: at most MaxSteps calls of the model *)

StreamText(t) ==
    /\ turn[t].pc = "model"
    /\ turn[t].text < MaxText
    /\ Room(t)
    /\ turn' = [turn EXCEPT ![t].text = turn[t].text + 1]
    /\ Put(t, "text")
    /\ UNCHANGED <<conv, messages, billed, titled, client, job, deleting, faults>>

CallTools(t) ==
    /\ turn[t].pc = "model"
    /\ Room(t)
    /\ turn' = [turn EXCEPT ![t] = [@ EXCEPT !.pc = "tools", !.step = turn[t].step + 1]]
    /\ Put(t, "calls")
    /\ UNCHANGED <<conv, messages, billed, titled, client, job, deleting, faults>>

\* The tools of the last step run too; then the loop gives up.
ToolsReturn(t) ==
    /\ turn[t].pc = "tools"
    /\ Room(t)
    /\ turn' = [turn EXCEPT ![t] =
                  IF turn[t].step < MaxSteps THEN [@ EXCEPT !.pc = "model"]
                  ELSE [@ EXCEPT !.pc = "saving", !.ending = "limit"]]
    /\ Put(t, "results")
    /\ UNCHANGED <<conv, messages, billed, titled, client, job, deleting, faults>>

Finish(t) ==
    /\ turn[t].pc = "model"
    /\ turn' = [turn EXCEPT ![t] = [@ EXCEPT !.pc = "saving", !.ending = "end"]]
    /\ UNCHANGED <<conv, messages, billed, titled, queue, client, job, deleting, faults>>

ProviderFails(t) ==
    /\ Fault("provider")
    /\ turn[t].pc = "model"
    /\ turn' = [turn EXCEPT ![t] = [@ EXCEPT !.pc = "saving", !.ending = "error"]]
    /\ UNCHANGED <<conv, messages, billed, titled, queue, client, job, deleting>>

Bug(t) ==
    /\ Fault("bug")
    /\ turn[t].pc \in {"model", "tools"}
    /\ turn' = [turn EXCEPT ![t].pc = "raising"]
    /\ UNCHANGED <<conv, messages, billed, titled, queue, client, job, deleting>>

\* _pump's finally: put_nowait drops the sentinel when the queue is full.
Stray(t) ==
    /\ Fault("stray")
    /\ Working(t)
    /\ turn' = [turn EXCEPT ![t].pc = "stray"]
    /\ IF Room(t) THEN Put(t, "done") ELSE UNCHANGED queue
    /\ UNCHANGED <<conv, messages, billed, titled, client, job, deleting>>

-----------------------------------------------------------------------------
(* Saving the turn, and its terminal event *)

Saved(s) ==
    [s EXCEPT !.pc = "telling",
              !.answer = IF s.ending = "error" THEN "partial" ELSE "answered"]

\* The answer, tool calls and citations, and record_usage for a complete one,
\* whose foreign key needs the agent's row: it waits for a DELETE of it.
Save(t) ==
    /\ turn[t].pc = "saving"
    /\ turn[t].ending = "error" \/ turn[t].conv \notin deleting
    /\ turn' = [turn EXCEPT ![t] = Saved(turn[t])]
    /\ UNCHANGED <<conv, messages, billed, titled, queue, client, job, deleting, faults>>

\* A slip: the turn ends as if it had been saved.
RefusedUntold(s) ==
    [s EXCEPT !.pc = "telling", !.asked = FALSE, !.answer = "none", !.dead = TRUE]

\* What a turn is left with whose transaction PostgreSQL refused.
Refused(s) ==
    [s EXCEPT !.pc = "telling", !.asked = FALSE, !.answer = "none",
              !.ending = "internal", !.dead = TRUE]

\* except SQLAlchemyError: the rows are gone, the client is told.
SaveFails(t) ==
    /\ Fault("database")
    /\ turn[t].pc = "saving"
    /\ turn' = [turn EXCEPT ![t] = Refused(turn[t])]
    /\ UNCHANGED <<conv, messages, billed, titled, queue, client, job, deleting>>

\* The DELETE waits for this turn's rows and record_usage for the DELETE:
\* PostgreSQL ends one of them and the other goes on.
SaveDeadlocks(t) ==
    /\ turn[t].pc = "saving"
    /\ turn[t].ending # "error"
    /\ turn[t].conv \in deleting
    /\ \/ turn' = [turn EXCEPT ![t] = Refused(turn[t])] /\ UNCHANGED deleting
       \/ turn' = [turn EXCEPT ![t] = Saved(turn[t])] /\ deleting' = deleting \ {turn[t].conv}
    /\ UNCHANGED <<conv, messages, billed, titled, queue, client, job, faults>>

Tell(t) ==
    /\ turn[t].pc = "telling"
    /\ Room(t)
    /\ turn' = [turn EXCEPT ![t].pc = "closing"]
    /\ Put(t, turn[t].ending)
    /\ UNCHANGED <<conv, messages, billed, titled, client, job, deleting, faults>>

PutDone(t) ==
    /\ turn[t].pc = "closing"
    /\ Room(t)
    /\ turn' = [turn EXCEPT ![t].pc = "over"]
    /\ Put(t, "done")
    /\ UNCHANGED <<conv, messages, billed, titled, client, job, deleting, faults>>

\* A slip: the exception is put like a cancelled pump's sentinel.
PutCrashNowait(t) ==
    /\ turn[t].pc = "raising"
    /\ turn' = [turn EXCEPT ![t].pc = "over"]
    /\ IF Room(t) THEN Put(t, "crash") ELSE UNCHANGED queue
    /\ UNCHANGED <<conv, messages, billed, titled, client, job, deleting, faults>>

PutCrash(t) ==
    /\ turn[t].pc = "raising"
    /\ Room(t)
    /\ turn' = [turn EXCEPT ![t].pc = "over"]
    /\ Put(t, "crash")
    /\ UNCHANGED <<conv, messages, billed, titled, client, job, deleting, faults>>

-----------------------------------------------------------------------------
(* stream_body *)

SendStart(t) ==
    /\ client[t].pc = "first"
    /\ client' = [client EXCEPT ![t].pc = "loop"]
    /\ UNCHANGED <<conv, messages, billed, titled, turn, queue, job, deleting, faults>>

\* A slip: an unexpected exception does not set exc_info.
DeliverForgiving(t) ==
    /\ client[t].pc = "loop"
    /\ queue[t] # <<>>
    /\ queue' = [queue EXCEPT ![t] = Tail(@)]
    /\ LET item == Head(queue[t]) IN
       client' = [client EXCEPT ![t] =
         CASE item = "done"    -> [@ EXCEPT !.pc = "closing"]
           [] item = "crash"   -> [@ EXCEPT !.pc = "closing", !.sent = "internal"]
           [] item = "text"    -> [@ EXCEPT !.shown = client[t].shown + 1]
           [] item \in Ending  -> [@ EXCEPT !.sent = item]
           [] OTHER            -> @]
    /\ UNCHANGED <<conv, messages, billed, titled, turn, job, deleting, faults>>

Deliver(t) ==
    /\ client[t].pc = "loop"
    /\ queue[t] # <<>>
    /\ queue' = [queue EXCEPT ![t] = Tail(@)]
    /\ LET item == Head(queue[t]) IN
       client' = [client EXCEPT ![t] =
         CASE item = "done"    -> [@ EXCEPT !.pc = "closing"]
           [] item = "crash"   -> [@ EXCEPT !.pc = "closing", !.exc = TRUE, !.sent = "internal"]
           [] item = "text"    -> [@ EXCEPT !.shown = client[t].shown + 1]
           [] item \in Ending  -> [@ EXCEPT !.sent = item]
           [] OTHER            -> @]
    /\ UNCHANGED <<conv, messages, billed, titled, turn, job, deleting, faults>>

\* The client goes away: the consumer is cancelled where it waits.
Disconnect(t) ==
    /\ client[t].pc \in {"first", "loop"}
    /\ client' = [client EXCEPT ![t] = [@ EXCEPT !.pc = "closing", !.exc = TRUE]]
    /\ UNCHANGED <<conv, messages, billed, titled, turn, queue, job, deleting, faults>>

\* The client has gone before the response's body is begun: its generator and
\* stream_body are dropped unstarted, no finally runs, and the session is left
\* to the interpreter's collector.
Unread(t) ==
    /\ client[t].pc = "first"
    /\ turn[t].pc = "started"
    /\ client' = [client EXCEPT ![t].pc = "unread"]
    /\ turn' = [turn EXCEPT ![t].pc = "over"]
    /\ UNCHANGED <<conv, messages, billed, titled, queue, job, deleting, faults>>

\* The pc of a generator that does not run again.
Stopped(t) == IF turn[t].pc = "stray" THEN "stray" ELSE "over"

\* pump_task.cancel: the generator ends where it is suspended, and nobody
\* reads the queue any more.
StopPump(t) ==
    /\ client[t].pc = "closing"
    /\ client' = [client EXCEPT ![t].pc = "exiting"]
    /\ turn' = [turn EXCEPT ![t].pc = Stopped(t)]
    /\ queue' = [queue EXCEPT ![t] = <<>>]
    /\ UNCHANGED <<conv, messages, billed, titled, job, deleting, faults>>

\* The session and the generator are gone, and the turn's locks with them.
Released(t) ==
    [turn EXCEPT ![t] = [IdleTurn EXCEPT !.pc = Stopped(t), !.conv = turn[t].conv,
                                         !.created = turn[t].created]]

Question(t) ==
    [conv |-> turn[t].conv, seq |-> turn[t].seq, turn |-> t, role |-> "user", text |-> 0]
Answer(t) ==
    [conv |-> turn[t].conv, seq |-> turn[t].seq + 1, turn |-> t,
     role |-> turn[t].answer, text |-> turn[t].text]
Rows(t) ==
    (IF turn[t].asked THEN {Question(t)} ELSE {})
      \union (IF turn[t].answer # "none" THEN {Answer(t)} ELSE {})

\* tenant_session's exit without an exception: COMMIT.
Commit(t) ==
    /\ client[t].pc = "exiting"
    /\ ~client[t].exc
    /\ ~turn[t].dead
    /\ messages' = messages \union Rows(t)
    /\ billed' = IF turn[t].answer = "answered" THEN billed \union {t} ELSE billed
    /\ conv' = IF turn[t].created THEN [conv EXCEPT ![turn[t].conv] = "live"] ELSE conv
    /\ turn' = Released(t)
    /\ client' = [client EXCEPT ![t].pc = "titling"]
    /\ UNCHANGED <<titled, queue, job, deleting, faults>>

CommitFails(t) ==
    /\ Fault("commit")
    /\ client[t].pc = "exiting"
    /\ ~client[t].exc
    /\ turn' = Released(t)
    /\ client' = [client EXCEPT ![t].pc = "lost"]
    /\ UNCHANGED <<conv, messages, billed, titled, queue, job, deleting>>

\* exc_info is set: the transaction is rolled back and there is no title.
Rollback(t) ==
    /\ client[t].pc = "exiting"
    /\ client[t].exc
    /\ turn' = Released(t)
    /\ client' = [client EXCEPT ![t].pc = "closed"]
    /\ UNCHANGED <<conv, messages, billed, titled, queue, job, deleting, faults>>

\* A transaction SQLAlchemy has rolled back already is closed without an
\* error: to stream_body the turn looks committed.
CloseDead(t) ==
    /\ client[t].pc = "exiting"
    /\ ~client[t].exc
    /\ turn[t].dead
    /\ turn' = Released(t)
    /\ client' = [client EXCEPT ![t].pc = "titling"]
    /\ UNCHANGED <<conv, messages, billed, titled, queue, job, deleting, faults>>

\* The API process dies: the open transaction is never committed.
Crash(t) ==
    /\ Fault("crash")
    /\ client[t].pc \in {"first", "loop", "closing", "exiting", "titling"}
    /\ turn' = Released(t)
    /\ client' = [client EXCEPT ![t].pc = "lost"]
    /\ queue' = [queue EXCEPT ![t] = <<>>]
    /\ UNCHANGED <<conv, messages, billed, titled, job, deleting>>

-----------------------------------------------------------------------------
(* _queue_title and title_conversation_task *)

QueueTitle(t) ==
    /\ client[t].pc = "titling"
    /\ client' = [client EXCEPT ![t].pc = "closed"]
    /\ job' = IF turn[t].created THEN [job EXCEPT ![t].pc = "queued"] ELSE job
    /\ UNCHANGED <<conv, messages, billed, titled, turn, queue, deleting, faults>>

\* Redis fails, before it has the job or after: it is logged.
QueueTitleFails(t) ==
    /\ Fault("enqueue")
    /\ client[t].pc = "titling"
    /\ turn[t].created
    /\ client' = [client EXCEPT ![t].pc = "closed"]
    /\ job' \in {job, [job EXCEPT ![t].pc = "queued"]}
    /\ UNCHANGED <<conv, messages, billed, titled, turn, queue, deleting>>

\* The task looks the conversation up; the model is asked in between.
StartTitle(t) ==
    /\ job[t].pc = "queued"
    /\ job[t].tries < MaxTries
    /\ LET c == turn[t].conv IN
       job' = [job EXCEPT ![t] =
         [pc |-> IF conv[c] # "live" THEN "failed"
                 ELSE IF c \in titled \/ (\A m \in Committed(c) : m.role # "user") THEN "done"
                 ELSE "writing",
          tries |-> job[t].tries + 1]]
    /\ UNCHANGED <<conv, messages, billed, titled, turn, queue, client, deleting, faults>>

\* A slip: a failed generation leaves the title empty.
WriteTitleOrNothing(t) ==
    /\ job[t].pc = "writing"
    /\ Holders(turn[t].conv) = {}
    /\ titled' \in {titled, titled \union {turn[t].conv}}
    /\ job' = [job EXCEPT ![t].pc = "done"]
    /\ UNCHANGED <<conv, messages, billed, turn, queue, client, deleting, faults>>

\* The UPDATE waits for an open turn of the conversation; of a row that has
\* gone it updates nothing, which is an error.  A failed generation writes the
\* fallback.
WriteTitle(t) ==
    /\ job[t].pc = "writing"
    /\ Holders(turn[t].conv) = {}
    /\ IF conv[turn[t].conv] = "live"
         THEN /\ titled' = titled \union {turn[t].conv}
              /\ job' = [job EXCEPT ![t].pc = "done"]
         ELSE /\ job' = [job EXCEPT ![t].pc = "failed"]
              /\ UNCHANGED titled
    /\ UNCHANGED <<conv, messages, billed, turn, queue, client, deleting, faults>>

\* Any other error of the job, at its reads, its UPDATE or its commit, and the
\* time limit end it: arq runs again only what was killed.
TitleFails(t) ==
    /\ Fault("title")
    /\ job[t].pc \in {"queued", "writing"}
    /\ job[t].pc = "queued" => job[t].tries < MaxTries
    /\ job' = [job EXCEPT ![t].pc = "raised"]
    /\ UNCHANGED <<conv, messages, billed, titled, turn, queue, client, deleting>>

\* arq runs a killed worker's job again.
KillTitle(t) ==
    /\ Fault("kill")
    /\ job[t].pc = "writing"
    /\ job' = [job EXCEPT ![t].pc = "queued"]
    /\ UNCHANGED <<conv, messages, billed, titled, turn, queue, client, deleting>>

\* arq does not call a function whose tries are spent.
GiveUpTitle(t) ==
    /\ job[t].pc = "queued"
    /\ job[t].tries = MaxTries
    /\ job' = [job EXCEPT ![t].pc = "abandoned"]
    /\ UNCHANGED <<conv, messages, billed, titled, turn, queue, client, deleting, faults>>

-----------------------------------------------------------------------------
(* deleteAgent: it locks the agent's row, then cascades to the conversation,
   which waits for the turns that hold rows there. *)

DeleteAgent(c) ==
    /\ conv[c] = "live"
    /\ c \notin deleting
    /\ deleting' = deleting \union {c}
    /\ UNCHANGED <<conv, messages, billed, titled, turn, queue, client, job, faults>>

\* A slip: the rows of the conversation are not locked.
DeleteAnyway(c) ==
    /\ c \in deleting
    /\ deleting' = deleting \ {c}
    /\ conv' = [conv EXCEPT ![c] = "deleted"]
    /\ messages' = messages \ Committed(c)
    /\ UNCHANGED <<billed, titled, turn, queue, client, job, faults>>

DeleteCascades(c) ==
    /\ c \in deleting
    /\ Holders(c) = {}
    /\ deleting' = deleting \ {c}
    /\ conv' = [conv EXCEPT ![c] = "deleted"]
    /\ messages' = messages \ Committed(c)
    /\ UNCHANGED <<billed, titled, turn, queue, client, job, faults>>

-----------------------------------------------------------------------------
AskStep(t) ==
    \/ ReadHistory(t) \/ NumberQuestion(t) \/ InsertQuestion(t) \/ AskFails(t)
    \/ \E c \in Conversation, created \in BOOLEAN : Send(t, c, created)

LoopStep(t) ==
    \/ StreamText(t) \/ CallTools(t) \/ ToolsReturn(t) \/ Finish(t)
    \/ ProviderFails(t) \/ Bug(t) \/ Stray(t)

SaveStep(t) ==
    \/ Save(t) \/ SaveFails(t) \/ SaveDeadlocks(t)
    \/ Tell(t) \/ PutDone(t) \/ PutCrash(t)

StreamStep(t) ==
    \/ SendStart(t) \/ Deliver(t) \/ Disconnect(t) \/ Unread(t) \/ StopPump(t)
    \/ Commit(t) \/ CommitFails(t) \/ Rollback(t) \/ CloseDead(t) \/ Crash(t)

TitleStep(t) ==
    \/ QueueTitle(t) \/ QueueTitleFails(t)
    \/ StartTitle(t) \/ WriteTitle(t) \/ TitleFails(t) \/ KillTitle(t) \/ GiveUpTitle(t)

DeleteStep == \E c \in Conversation : DeleteAgent(c) \/ DeleteCascades(c)

Next ==
    \/ \E t \in Turn :
         AskStep(t) \/ LoopStep(t) \/ SaveStep(t) \/ StreamStep(t) \/ TitleStep(t)
    \/ DeleteStep

Spec == Init /\ [][Next]_vars

\* What goes on by itself: the generator as long as the provider and the
\* database answer, the consumer as long as the client reads, a worker.
Generate(t) ==
    \/ ReadHistory(t) \/ NumberQuestion(t) \/ InsertQuestion(t)
    \/ StreamText(t) \/ CallTools(t) \/ ToolsReturn(t) \/ Finish(t)
    \/ Save(t) \/ SaveDeadlocks(t) \/ Tell(t) \/ PutDone(t) \/ PutCrash(t)

Consume(t) ==
    \/ SendStart(t) \/ Deliver(t) \/ StopPump(t)
    \/ Commit(t) \/ Rollback(t) \/ CloseDead(t) \/ QueueTitle(t)

Fairness ==
    /\ \A t \in Turn :
         /\ WF_vars(Generate(t))
         /\ WF_vars(Consume(t))
         /\ WF_vars(StartTitle(t) \/ WriteTitle(t) \/ GiveUpTitle(t))
    /\ \A c \in Conversation : WF_vars(DeleteCascades(c))

FairSpec == Spec /\ Fairness

-----------------------------------------------------------------------------
(* Properties *)

\* The type invariant.
TypeOK ==
    /\ conv \in [Conversation -> {"absent", "live", "deleted"}]
    /\ messages \subseteq Message
    /\ billed \subseteq Turn
    /\ titled \subseteq Conversation
    /\ turn \in [Turn -> TurnState]
    /\ \A t \in Turn : turn[t].pc # "idle" => turn[t].conv \in Conversation
    /\ queue \in [Turn -> Seq(Item)]
    /\ client \in [Turn -> ClientState]
    /\ job \in [Turn -> JobState]
    /\ deleting \subseteq Conversation
    /\ faults \in 0..MaxFaults

\* The stored messages of a conversation are numbered 1, 2, 3, ...: no number
\* is taken twice and none is missing, whatever turns ran side by side, failed
\* or were rolled back (next_seq and the unique constraint behind it).
NumberedInOrder ==
    /\ \A m, n \in messages : m.conv = n.conv /\ m.seq = n.seq => m = n
    /\ \A m \in messages :
         m.seq > 0 /\ \A k \in 1..m.seq :
           \E n \in messages : n.conv = m.conv /\ n.seq = k

\* A stored question is followed at once by the stored answer of its own turn,
\* complete or partial: no other turn comes between them and none is stored
\* half (send writes a turn in one transaction), unless a stray BaseException
\* ended the generator.
QuestionIsAnswered ==
    \A m \in messages :
        m.role = "user" =>
            \/ turn[m.turn].pc = "stray"
            \/ \E a \in messages :
                 /\ a.conv = m.conv /\ a.turn = m.turn
                 /\ a.seq = m.seq + 1 /\ a.role # "user"

\* A turn is billed exactly when its complete answer is stored: no usage for
\* a partial answer or a turn rolled back, none missing for a complete one
\* (record_usage in the answer's transaction); usage outlives its
\* conversation.
BilledWithItsAnswer ==
    \A t \in Turn :
        IF \E m \in messages : m.turn = t /\ m.role = "answered" THEN t \in billed
        ELSE t \in billed => conv[turn[t].conv] = "deleted"

\* What a client that stayed to the end was told agrees with what is stored:
\* after internal_error nothing of the turn is; after any other ending the
\* answer is, of that kind and with exactly the text the client saw (send and
\* stream_body both claim that history does not disagree with the screen).
ScreenAgreesWithHistory ==
    \A t \in Turn :
        LET stored == {m \in messages : m.turn = t}
            seen == client[t]
        IN (seen.pc = "closed" /\ seen.sent # "none") =>
             IF seen.sent = "internal" \/ seen.exc THEN stored = {}
             ELSE \/ conv[turn[t].conv] = "deleted"
                  \/ \E m \in stored :
                       /\ m.role = IF seen.sent = "error" THEN "partial" ELSE "answered"
                       /\ m.text = seen.shown

\* The stored conversations implement Transcript.
Stored == INSTANCE Transcript WITH
    state <- conv,
    entries <- {[conv |-> m.conv, turn |-> m.turn, at |-> m.seq] :
                  m \in {n \in messages : n.role = "user"}}
TranscriptSpec == Stored!Spec

\* Every stream whose body is begun is closed, and its transaction with it,
\* however slow its client and whatever it waits for: the queue, another
\* turn's rows, a DELETE (Faults without stray: a full queue then loses
\* _pump's sentinel).  A body that is never begun closes nothing.
EveryStreamEnds ==
    \A t \in Turn : client[t].pc = "first" ~> client[t].pc \in {"closed", "lost", "unread"}

\* Once its title job is queued a stored conversation gets a title, or goes
\* away: a killed worker's job is run again, and one whose generation fails
\* writes the fallback.  Only a job that raises otherwise or runs out of time
\* (raised), or that is killed in every one of its tries, leaves it without.
EveryConversationIsTitled ==
    \A t \in Turn, c \in Conversation :
        job[t].pc = "queued" /\ turn[t].conv = c /\ conv[c] = "live"
          ~> \/ c \in titled \/ conv[c] = "deleted"
             \/ job[t].pc \in {"raised", "abandoned"}

\* A title is asked for only where the conversation was committed, now or
\* before it was deleted (_queue_title waits for the commit).
TitleOnlyForCommitted ==
    \A t \in Turn : job[t].pc = "queued" => conv[turn[t].conv] # "absent"
=============================================================================
