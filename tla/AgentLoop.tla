------------------------------ MODULE AgentLoop ------------------------------
(***************************************************************************)
(* One agent turn: the loop that asks the model, runs the calls of a round *)
(* together and feeds the results back, and the tool runtime that takes    *)
(* the calls of a round one at a time over the turn's database session.    *)
(*                                                                         *)
(* Time is counted in ticks.  Three clocks bound a call: the registry's,   *)
(* over the call and its wait for the lock; the event loop's, over the     *)
(* tool's own work; and PostgreSQL's statement_timeout, over each          *)
(* statement.  A statement that is cancelled in flight costs the session.  *)
(* Savepoints nest: a call that rolls back takes with it whatever was      *)
(* written since its own savepoint.                                        *)
(***************************************************************************)
EXTENDS Naturals, Sequences

CONSTANTS
    Id,          \* tool_use ids a provider may mint
    NoId,
    Width,       \* bound on the tool_use blocks of one reply
    MaxSteps,    \* config.max_agent_steps
    Own,         \* a tool's timeout_seconds
    Grace,       \* _NON_DB_GRACE_SECONDS
    Wait,        \* _LOCK_WAIT_BUDGET_SECONDS
    Lookups,     \* statements a reading tool issues, at most
    LeadLimit    \* create_lead's _RATE_LIMIT, per conversation and window

ASSUME IdAssumption    == NoId \notin Id
ASSUME StepsAssumption == MaxSteps \in Nat \ {0}
ASSUME SizesAssumption == Width \in Nat /\ Lookups \in Nat /\ LeadLimit \in Nat
ASSUME ClocksAssumption == Own \in Nat \ {0} /\ Grace \in Nat /\ Wait \in Nat

VARIABLES
    pc,       \* where AgentRunner.run is
    step,     \* the step of max_steps it is in
    seen,     \* seen_call_ids
    history,  \* the messages the turn has appended
    call,     \* the calls of the round, by their place in the reply
    session,  \* whether the turn's session can still be used
    budget,   \* whether a statement_timeout is set on its transaction
    leads,    \* calls whose leads row the transaction holds
    used      \* create_lead's counter in Redis

vars == <<pc, step, seen, history, call, session, budget, leads, used>>

Place == 1..Width

\* create_lead writes; lookup stands for the tools that read; none for a call
\* no granted tool takes: an unknown name, or arguments that do not validate.
Tool == {"lookup", "lead", "none"}

LeadStatements == 2   \* the conversation's SELECT, and the INSERT

\* at: none for a place without a call.  busy: a statement is in flight.
\* done: its finished statements.  passed: create_lead is inside its rate
\* limit.  age, own, stmt: ticks since the call was made, since it got the
\* lock, and since its statement began.  ok: the result is not an error.
CallState ==
    [at : {"none", "queued", "running", "closing", "answered"},
     tool : Tool, id : Id \union {NoId}, busy : BOOLEAN, done : Nat, passed : BOOLEAN,
     age : Nat, own : Nat, stmt : Nat, ok : BOOLEAN]

\* An assistant message and the tool_use ids in it, or the user message that
\* answers them, each at the place it had in the reply.
Message == [role : {"assistant", "user"}, ids : UNION {[P -> Id] : P \in SUBSET Place}]

Outer == Own + Wait
Inner == Own + Grace

Calls == {k \in Place : call[k].at # "none"}
InUse == {k \in Place : call[k].at \in {"running", "closing"}}
Queued == {k \in Place : call[k].at = "queued"}

\* The ids of the round, each at its call's place.
Asked == [k \in Calls |-> call[k].id]

NoCall ==
    [at |-> "none", tool |-> "none", id |-> NoId, busy |-> FALSE, done |-> 0,
     passed |-> FALSE, age |-> 0, own |-> 0, stmt |-> 0, ok |-> FALSE]

Init ==
    /\ pc = "asking"
    /\ step = 1
    /\ seen = {}
    /\ history = <<>>
    /\ call = [k \in Place |-> NoCall]
    /\ session = "usable"
    /\ budget = FALSE
    /\ leads = {}
    /\ used = 0

-----------------------------------------------------------------------------
(* AgentRunner.run *)

\* A slip: only the ids of earlier rounds are looked up.
UniqueAcrossRounds(reply) == {k \in DOMAIN reply : reply[k].id \notin seen}

\* _unique_calls: the places of a reply whose id the turn has not seen, in an
\* earlier round or earlier in this reply.
Unique(reply) ==
    {k \in DOMAIN reply :
       /\ reply[k].id \notin seen
       /\ \A j \in DOMAIN reply : j < k => reply[j].id # reply[k].id}

\* Replies: some text or none, and up to Width tool_use blocks.
Reply == UNION {[1..n -> [id : Id, tool : Tool]] : n \in 0..Width}

Ids(reply, places) == [k \in places |-> reply[k].id]

\* What ToolRegistry.execute does with a call before it waits: a call it takes
\* joins the lock's queue, in the order of the reply, any other is an error.
Dispatched(reply, places) ==
    [k \in Place |->
       IF k \in places
       THEN [NoCall EXCEPT !.at = IF reply[k].tool = "none" THEN "answered" ELSE "queued",
                           !.tool = reply[k].tool, !.id = reply[k].id]
       ELSE NoCall]

\* The model ends the turn: no call, or none it had not made already.
ModelTalks ==
    /\ pc = "asking"
    /\ \E reply \in Reply, text \in BOOLEAN :
         /\ Unique(reply) = {}
         /\ history' = IF text
                       THEN Append(history, [role |-> "assistant", ids |-> Ids(reply, {})])
                       ELSE history
    /\ pc' = "finished"
    /\ UNCHANGED <<step, seen, call, session, budget, leads, used>>

ModelCalls ==
    /\ pc = "asking"
    /\ \E reply \in Reply :
         LET places == Unique(reply) IN
         /\ places # {}
         /\ seen' = seen \union {reply[k].id : k \in places}
         /\ history' = Append(history, [role |-> "assistant", ids |-> Ids(reply, places)])
         /\ call' = Dispatched(reply, places)
    /\ pc' = "calling"
    /\ UNCHANGED <<step, session, budget, leads, used>>

\* The provider's stream raises, and the turn ends without a tool left running.
ModelFails ==
    /\ pc = "asking"
    /\ pc' = "failed"
    /\ UNCHANGED <<step, seen, history, call, session, budget, leads, used>>

\* asyncio.gather is back: one result per call, in the order of the calls.
Collect ==
    /\ pc = "calling"
    /\ \A k \in Calls : call[k].at = "answered"
    /\ history' = Append(history, [role |-> "user", ids |-> Asked])
    /\ call' = [k \in Place |-> NoCall]
    /\ IF step = MaxSteps
       THEN pc' = "limit" /\ UNCHANGED step
       ELSE pc' = "asking" /\ step' = step + 1
    /\ UNCHANGED <<seen, session, budget, leads, used>>

\* The result of a call, and nothing else of it, is what the loop waits for.
Answer(k, ok) ==
    call' = [call EXCEPT ![k] =
               [NoCall EXCEPT !.at = "answered", !.tool = call[k].tool,
                              !.id = call[k].id, !.ok = ok]]

-----------------------------------------------------------------------------
(* LockedSessionTool, over the session the round's calls share *)

Enter(k) == call' = [call EXCEPT ![k].at = "running"]

\* A slip: the calls of a round open their savepoints side by side.
AcquireUnlocked(k) ==
    /\ k \in Queued
    /\ session = "usable"
    /\ budget' = TRUE
    /\ Enter(k)
    /\ UNCHANGED <<pc, step, seen, history, session, leads, used>>

\* The lock goes to the call that has waited longest: the savepoint and
\* SET LOCAL statement_timeout, on a session that can still take them.
Acquire(k) ==
    /\ k \in Queued
    /\ InUse = {}
    /\ \A j \in Queued : k <= j
    /\ session = "usable"
    /\ budget' = TRUE
    /\ Enter(k)
    /\ UNCHANGED <<pc, step, seen, history, session, leads, used>>

\* begin_nested on a lost session raises, and the registry answers.
AcquireLost(k) ==
    /\ k \in Queued
    /\ InUse = {}
    /\ \A j \in Queued : k <= j
    /\ session = "lost"
    /\ Answer(k, FALSE)
    /\ UNCHANGED <<pc, step, seen, history, session, budget, leads, used>>

\* A call inside its savepoint and between two statements.
Thinking(k) == call[k].at = "running" /\ ~call[k].busy

Statements(tool) == IF tool = "lead" THEN LeadStatements ELSE Lookups

\* create_lead asks enforce_rate_limit before its first statement, and counts
\* the call.  A Redis that is down counts nothing and refuses nothing.
PassLimit(k) ==
    /\ Thinking(k) /\ call[k].tool = "lead" /\ ~call[k].passed
    /\ \/ used < LeadLimit /\ used' = used + 1
       \/ UNCHANGED used
    /\ call' = [call EXCEPT ![k].passed = TRUE]
    /\ UNCHANGED <<pc, step, seen, history, session, budget, leads>>

StartStatement(k) ==
    /\ Thinking(k)
    /\ call[k].tool = "lead" => call[k].passed
    /\ call[k].done < Statements(call[k].tool)
    /\ call' = [call EXCEPT ![k].busy = TRUE]
    /\ UNCHANGED <<pc, step, seen, history, session, budget, leads, used>>

EndStatement(k) ==
    /\ call[k].at = "running" /\ call[k].busy
    /\ call' = [call EXCEPT ![k].busy = FALSE, ![k].stmt = 0, ![k].done = call[k].done + 1]
    /\ leads' = IF call[k].tool = "lead" /\ call[k].done + 1 = LeadStatements
                THEN leads \union {call[k].id} ELSE leads
    /\ UNCHANGED <<pc, step, seen, history, session, budget, used>>

\* The tool returns and its savepoint is released, which leaves the budget set.
\* A read that found nothing, or a lead over its limit, returns an error.
Return(k) ==
    /\ Thinking(k)
    /\ \/ /\ call[k].tool = "lookup"
          /\ \E ok \in BOOLEAN : call' = [call EXCEPT ![k].at = "closing", ![k].ok = ok]
       \/ /\ call[k].tool = "lead" /\ call[k].done = LeadStatements
          /\ call' = [call EXCEPT ![k].at = "closing", ![k].ok = TRUE]
       \/ /\ call[k].tool = "lead" /\ ~call[k].passed /\ used >= LeadLimit
          /\ call' = [call EXCEPT ![k].at = "closing"]
    /\ UNCHANGED <<pc, step, seen, history, session, budget, leads, used>>

\* The calls whose writes lie inside the savepoint of k: with one call on the
\* session at a time, its own.
Since(k) == {call[j].id : j \in {j \in InUse : call[j].own <= call[k].own}}

\* The savepoint rolls back, and with it the writes and the SET LOCAL.
RolledBack(k) ==
    /\ call' = [call EXCEPT ![k].at = "closing", ![k].busy = FALSE, ![k].stmt = 0]
    /\ leads' = leads \ Since(k)
    /\ budget' = FALSE
    /\ UNCHANGED <<pc, step, seen, history, session, used>>

\* The tool raises: a conversation that is not there, a failing embedder.
Raise(k) == Thinking(k) /\ RolledBack(k)

\* A statement fails, or runs for the tool's whole budget and is cancelled by
\* the server, which a savepoint recovers from.
StatementFails(k) == call[k].at = "running" /\ call[k].busy /\ RolledBack(k)

\* A slip: SET LOCAL is taken to end with the savepoint's release.
ClearForgotten(k) ==
    /\ call[k].at = "closing"
    /\ Answer(k, call[k].ok)
    /\ UNCHANGED <<pc, step, seen, history, session, budget, leads, used>>

\* _clear_statement_timeout, then the lock is released and the call answered.
Clear(k) ==
    /\ call[k].at = "closing"
    /\ Answer(k, call[k].ok)
    /\ budget' = FALSE
    /\ UNCHANGED <<pc, step, seen, history, session, leads, used>>

\* Cancelled with a statement in flight: the connection is invalidated and the
\* turn's transaction is gone, with all it held.
Lose(k) ==
    /\ Answer(k, FALSE)
    /\ session' = "lost"
    /\ leads' = {}
    /\ budget' = FALSE
    /\ UNCHANGED <<pc, step, seen, history, used>>

\* asyncio.timeout(own + grace): harmless between two statements.
InnerTimeout(k) ==
    /\ call[k].at = "running" /\ call[k].own = Inner
    /\ \/ call[k].busy /\ Lose(k)
       \/ ~call[k].busy /\ RolledBack(k)

\* asyncio.timeout(own + wait), the registry's: a call that never had the lock
\* is answered, one that has it is cancelled wherever it is.
OuterTimeout(k) ==
    /\ call[k].age = Outer
    /\ \/ /\ call[k].at = "queued"
          /\ Answer(k, FALSE)
          /\ UNCHANGED <<pc, step, seen, history, session, budget, leads, used>>
       \/ /\ call[k].at = "closing" \/ (call[k].at = "running" /\ call[k].busy)
          /\ Lose(k)
       \/ /\ Thinking(k)
          /\ Answer(k, FALSE)
          /\ leads' = leads \ Since(k)
          /\ budget' = FALSE
          /\ UNCHANGED <<pc, step, seen, history, session, used>>

\* A tick of the clock.  A timer that is due fires first, a free lock is handed
\* on first, and the statement that clears the budget takes no time to speak of.
Tick ==
    /\ pc = "calling"
    /\ \E k \in Calls : call[k].at # "answered"
    /\ InUse = {} => Queued = {}
    /\ \A k \in InUse \union Queued : call[k].age < Outer
    /\ \A k \in InUse : call[k].at = "running" /\ call[k].own < Inner
    /\ \A k \in InUse : call[k].busy => call[k].stmt < Own
    /\ call' = [k \in Place |->
         IF k \in Queued THEN [call[k] EXCEPT !.age = call[k].age + 1]
         ELSE IF k \in InUse
         THEN [call[k] EXCEPT !.age = call[k].age + 1, !.own = call[k].own + 1,
                              !.stmt = call[k].stmt + (IF call[k].busy THEN 1 ELSE 0)]
         ELSE call[k]]
    /\ UNCHANGED <<pc, step, seen, history, session, budget, leads, used>>

Use(k) ==
    \/ Acquire(k) \/ AcquireLost(k) \/ PassLimit(k) \/ StartStatement(k)
    \/ EndStatement(k) \/ Return(k) \/ Raise(k) \/ StatementFails(k) \/ Clear(k)
    \/ InnerTimeout(k) \/ OuterTimeout(k)

Next ==
    \/ ModelTalks \/ ModelCalls \/ ModelFails \/ Collect \/ Tick
    \/ \E k \in Place : Use(k)

Spec == Init /\ [][Next]_vars

-----------------------------------------------------------------------------
(* Properties *)

\* The values the loop, the calls of its round and the session can have.
TypeOK ==
    /\ pc \in {"asking", "calling", "finished", "limit", "failed"}
    /\ step \in 1..MaxSteps
    /\ seen \subseteq Id
    /\ history \in Seq(Message)
    /\ call \in [Place -> CallState]
    /\ session \in {"usable", "lost"}
    /\ budget \in BOOLEAN
    /\ leads \subseteq Id
    /\ used \in 0..LeadLimit
    /\ \A k \in Place : call[k].own <= call[k].age /\ call[k].age <= Outer

\* Every tool_use the next request carries is answered by the message right
\* after it, at the same place and exactly once, and an id names one call of
\* the whole turn, although a provider may repeat ids and calls fail, time out
\* or lose the session in any order.  (AgentRunner.run, _unique_calls.)
PairsUp ==
    /\ \A n \in DOMAIN history :
         history[n].role = "assistant" /\ DOMAIN history[n].ids # {} =>
           IF n = Len(history)
           THEN pc = "calling" /\ history[n].ids = Asked
           ELSE history[n + 1] = [role |-> "user", ids |-> history[n].ids]
    /\ \A m, n \in DOMAIN history :
         history[m].role = "assistant" /\ history[n].role = "assistant" =>
           \A k \in DOMAIN history[m].ids, l \in DOMAIN history[n].ids :
             history[m].ids[k] = history[n].ids[l] => m = n /\ k = l

\* The turn's own writes never inherit a tool's statement_timeout, and no tool
\* runs without one, on whichever path the calls before it ended.
\* (_run_bounded and _clear_statement_timeout.)
BudgetIsTheCalls ==
    /\ budget => InUse # {}
    /\ (\E k \in Place : call[k].at = "running") => budget

\* A create_lead that was answered with success has its row in the turn's
\* transaction and one that was answered with an error has none, whatever its
\* siblings did on the session they share, unless the session is lost and the
\* turn with it.  (LockedSessionTool.execute, _run_bounded.)
AnswersAreTrue ==
    session = "usable" =>
      \A k \in Place :
        call[k].at = "answered" /\ call[k].tool = "lead"
          => (call[k].ok <=> call[k].id \in leads)

\* "The residual case is a tool that runs many statements, each inside its own
\* statement_timeout but summing past the grace": the event loop's net for one
\* call's own work is all that can cost the session.
OnlyTheNetCostsTheSession ==
    [][session = "usable" /\ session' = "lost"
         => \E k \in Place : call[k].own = Inner /\ call'[k].at = "answered"]_vars
=============================================================================
