---------------------------- MODULE EvaluationRun ----------------------------
(***************************************************************************)
(* The runs of one evaluation dataset: starting a run (REST), cancelling   *)
(* it, editing the dataset's cases and deleting a run's agent (GraphQL),   *)
(* and the arq job that works through the cases and resumes after a worker *)
(* died or handed off at its time budget.                                  *)
(*                                                                         *)
(* What a case's turn and its scores are is left out; a turn that errors   *)
(* is a result like any other.  A handler is split where another one can   *)
(* come between: at its transactions, and inside one at the statements     *)
(* that take no lock the other needs.                                      *)
(***************************************************************************)
EXTENDS Naturals, FiniteSets

CONSTANTS
    Run,         \* run ids, one for each POST /runs
    Case,        \* eval_cases ids of the dataset
    Worker,      \* worker slots: each runs one attempt of a job at a time
    MaxTries,    \* EVALUATION_MAX_TRIES
    MaxFaults,   \* bound on the failures of Faults in one behaviour
    Faults,      \* the failures this instance allows, out of FaultKind
    NoRun,
    NoCase

\* kill: a worker dies or is shut down.  timeout: arq's own job timeout.
\* stall: a worker is so slow that arq takes its job for abandoned and starts
\* it again beside it.  error: an exception outside any case's turn.
\* unmarked: mark_failed itself fails.  enqueue: enqueue_job raises, with the
\* job queued or not.  crash: the API process dies after its commit.
FaultKind == {"kill", "timeout", "stall", "error", "unmarked", "enqueue", "crash"}

ASSUME MaxTriesAssumption  == MaxTries \in Nat \ {0}
ASSUME MaxFaultsAssumption == MaxFaults \in Nat
ASSUME FaultsAssumption    == Faults \subseteq FaultKind
ASSUME CaseAssumption      == IsFiniteSet(Case) /\ NoCase \notin Case
ASSUME RunAssumption       == NoRun \notin Run

VARIABLES
    case,      \* each case of the dataset: not created yet, live or deleted
    run,       \* the committed eval_runs rows
    results,   \* the cases each run holds a result for
    bills,     \* how often each run billed each case (usage_events)
    start,     \* the POST /runs request of each run
    queue,     \* arq's record of each run's job
    worker,    \* the attempt each worker is running
    lost,      \* <<r, n>>: try n of run r was cut short (n = 0: its request)
    faults     \* how many failures have happened

vars == <<case, run, results, bills, start, queue, worker, lost, faults>>

EvalRunStatus == {"pending", "running", "completed", "failed", "cancelled"}
ActiveStatuses == {"pending", "running"}

\* cases: the cases case_count counted when the run was created.
\* count: completed_count.  summary: the results the stored summary covers.
RunState ==
    [status: EvalRunStatus \union {"absent", "deleted"},
     cases: SUBSET Case, count: Nat, summary: SUBSET Case]

\* found: the results mark_failed's SELECT returned.
StartState ==
    [pc: {"idle", "checked", "committed", "failing", "marking", "accepted", "refused"},
     found: SUBSET Case]

\* todo: the listed cases still to run.  case: the case whose turn runs.
\* why: what sent the attempt to mark_failed.
WorkerState ==
    [pc: {"idle", "claiming", "listing", "resuming", "next", "turn",
          "recording", "completing", "failing", "marking"},
     run: Run \union {NoRun}, try: 0..MaxTries, todo: SUBSET Case,
     case: Case \union {NoCase}, found: SUBSET Case,
     why: {"none", "error", "gone", "caseGone", "budget"}]

QueueState == [pc: {"none", "queued", "running", "done"}, tries: 0..MaxTries]

NoRow == [status |-> "absent", cases |-> {}, count |-> 0, summary |-> {}]
IdleStart == [pc |-> "idle", found |-> {}]
IdleWorker == [pc |-> "idle", run |-> NoRun, try |-> 0, todo |-> {},
               case |-> NoCase, found |-> {}, why |-> "none"]

Init ==
    /\ case \in [Case -> {"unborn", "live"}]
    /\ run = [r \in Run |-> NoRow]
    /\ results = [r \in Run |-> {}]
    /\ bills = [r \in Run |-> [c \in Case |-> 0]]
    /\ start = [r \in Run |-> IdleStart]
    /\ queue = [r \in Run |-> [pc |-> "none", tries |-> 0]]
    /\ worker = [w \in Worker |-> IdleWorker]
    /\ lost = {}
    /\ faults = 0

-----------------------------------------------------------------------------
Exists(r) == run[r].status \in EvalRunStatus
Active(r) == run[r].status \in ActiveStatuses
LiveCases == {c \in Case : case[c] = "live"}

\* create_run's FOR UPDATE on the dataset row, held until the request commits.
DatasetLocked == \E r \in Run : start[r].pc = "checked"

Fault(kind) ==
    /\ kind \in Faults
    /\ faults < MaxFaults
    /\ faults' = faults + 1

\* mark_failed's conditional UPDATE, with the summary its SELECT led to.
MarkedFailed(r, found) ==
    IF Active(r)
      THEN [run EXCEPT ![r] = [@ EXCEPT !.status = "failed", !.summary = found]]
      ELSE run

-----------------------------------------------------------------------------
(* POST /evaluations/runs *)

\* create_run: the dataset lock, the case count and the check that no other run
\* is active; the new row is flushed and not committed yet.  (A dataset with no
\* case, or with an active run, refuses the request and nothing changes.)
StartCheck(r) ==
    /\ start[r].pc = "idle"
    /\ ~DatasetLocked
    /\ LiveCases # {}
    /\ \A s \in Run : ~Active(s)
    /\ start' = [start EXCEPT ![r].pc = "checked"]
    /\ run' = [run EXCEPT ![r].cases = LiveCases]
    /\ UNCHANGED <<case, results, bills, queue, worker, lost, faults>>

StartCommit(r) ==
    /\ start[r].pc = "checked"
    /\ start' = [start EXCEPT ![r].pc = "committed"]
    /\ run' = [run EXCEPT ![r].status = "pending"]
    /\ UNCHANGED <<case, results, bills, queue, worker, lost, faults>>

\* The rate limit is spent inside the transaction: a 429 rolls the row back.
StartRateLimited(r) ==
    /\ start[r].pc = "checked"
    /\ start' = [start EXCEPT ![r].pc = "refused"]
    /\ run' = [run EXCEPT ![r] = NoRow]
    /\ UNCHANGED <<case, results, bills, queue, worker, lost, faults>>

StartEnqueue(r) ==
    /\ start[r].pc = "committed"
    /\ start' = [start EXCEPT ![r].pc = "accepted"]
    /\ queue' = [queue EXCEPT ![r].pc = "queued"]
    /\ UNCHANGED <<case, run, results, bills, worker, lost, faults>>

\* enqueue_job raises.  The job may be in Redis all the same.
StartEnqueueFails(r) ==
    /\ start[r].pc = "committed"
    /\ Fault("enqueue")
    /\ start' = [start EXCEPT ![r].pc = "failing"]
    /\ \/ UNCHANGED queue
       \/ queue' = [queue EXCEPT ![r].pc = "queued"]
    /\ UNCHANGED <<case, run, results, bills, worker, lost>>

\* The request's own mark_failed: its SELECT of the results takes no lock.
StartMarkFailedRead(r) ==
    /\ start[r].pc = "failing"
    /\ start' = [start EXCEPT ![r].pc = "marking", ![r].found = results[r]]
    /\ UNCHANGED <<case, run, results, bills, queue, worker, lost, faults>>

StartMarkFailedUpdate(r) ==
    /\ start[r].pc = "marking"
    /\ run' = MarkedFailed(r, start[r].found)
    /\ start' = [start EXCEPT ![r].pc = "refused"]
    /\ UNCHANGED <<case, results, bills, queue, worker, lost, faults>>

\* The process dies after its commit, or the request's mark_failed raises.
StartCrash(r) ==
    /\ start[r].pc \in {"committed", "failing", "marking"}
    /\ Fault("crash")
    /\ start' = [start EXCEPT ![r].pc = "refused"]
    /\ lost' = lost \union {<<r, 0>>}
    /\ UNCHANGED <<case, run, results, bills, queue, worker>>

-----------------------------------------------------------------------------
(* GraphQL: cancelling a run, editing the cases, deleting the run's agent *)

\* cancel_run under the row lock; a terminal run is returned unchanged.
Cancel(r) ==
    /\ Active(r)
    /\ run' = [run EXCEPT ![r] = [@ EXCEPT !.status = "cancelled",
                                           !.summary = results[r]]]
    /\ UNCHANGED <<case, results, bills, start, queue, worker, lost, faults>>

\* The INSERT's foreign key needs a share of the dataset row.
CreateCase(c) ==
    /\ case[c] = "unborn"
    /\ ~DatasetLocked
    /\ case' = [case EXCEPT ![c] = "live"]
    /\ UNCHANGED <<run, results, bills, start, queue, worker, lost, faults>>

\* A result of the case stays, with its case_id set to NULL.
DeleteCase(c) ==
    /\ case[c] = "live"
    /\ case' = [case EXCEPT ![c] = "deleted"]
    /\ UNCHANGED <<run, results, bills, start, queue, worker, lost, faults>>

\* delete_agent: its runs and their results go with it (ON DELETE CASCADE).
DeleteAgent(r) ==
    /\ Exists(r)
    /\ run' = [run EXCEPT ![r] = [NoRow EXCEPT !.status = "deleted"]]
    /\ results' = [results EXCEPT ![r] = {}]
    /\ UNCHANGED <<case, bills, start, queue, worker, lost, faults>>

-----------------------------------------------------------------------------
(* run_evaluation: one attempt of the job, on one worker *)

Step(w, changed) == worker' = [worker EXCEPT ![w] = changed]
Fail(w, reason) == Step(w, [worker[w] EXCEPT !.pc = "failing", !.why = reason])

CutShort(w) == lost' = lost \union {<<worker[w].run, worker[w].try>>}

\* The attempt returns, and arq is done with the job.
Finish(w) ==
    /\ worker' = [worker EXCEPT ![w] = IdleWorker]
    /\ queue' = [queue EXCEPT ![worker[w].run].pc = "done"]

\* The attempt goes, and arq runs the job again unless it is done.
Requeue(w) ==
    LET r == worker[w].run IN
    /\ worker' = [worker EXCEPT ![w] = IdleWorker]
    /\ queue' = [queue EXCEPT ![r].pc = IF queue[r].pc = "done" THEN "done"
                                                                 ELSE "queued"]

PickUp(w, r) ==
    /\ worker[w].pc = "idle"
    /\ queue[r].pc = "queued"
    /\ queue[r].tries < MaxTries
    /\ queue' = [queue EXCEPT ![r] = [pc |-> "running", tries |-> queue[r].tries + 1]]
    /\ Step(w, [IdleWorker EXCEPT !.pc = "claiming", !.run = r,
                                  !.try = queue[r].tries + 1])
    /\ UNCHANGED <<case, run, results, bills, start, lost, faults>>

\* arq drops a job whose tries are used up.
GiveUp(r) ==
    /\ queue[r].pc = "queued"
    /\ queue[r].tries = MaxTries
    /\ queue' = [queue EXCEPT ![r].pc = "done"]
    /\ UNCHANGED <<case, run, results, bills, start, worker, lost, faults>>

\* claim_run under the row lock: a terminal run ends the attempt.
Claim(w) ==
    LET r == worker[w].run IN
    /\ worker[w].pc = "claiming"
    /\ \/ /\ Active(r)
          /\ run' = [run EXCEPT ![r].status = "running"]
          /\ Step(w, [worker[w] EXCEPT !.pc = "listing"])
          /\ UNCHANGED queue
       \/ /\ Exists(r) /\ ~Active(r)
          /\ Finish(w)
          /\ UNCHANGED run
       \/ /\ ~Exists(r)
          /\ Fail(w, "gone")
          /\ UNCHANGED <<run, queue>>
    /\ UNCHANGED <<case, results, bills, start, lost, faults>>

ListCases(w) ==
    /\ worker[w].pc = "listing"
    /\ Step(w, [worker[w] EXCEPT !.pc = "resuming", !.todo = LiveCases])
    /\ UNCHANGED <<case, run, results, bills, start, queue, lost, faults>>

\* A slip: a retry does not ask which cases hold a result.
ListAll(w) ==
    /\ worker[w].pc = "resuming"
    /\ Step(w, [worker[w] EXCEPT !.pc = "next"])
    /\ UNCHANGED <<case, run, results, bills, start, queue, lost, faults>>

\* recorded_case_ids, a second statement: the case_id of a deleted case's
\* result is NULL by then.
ListRecorded(w) ==
    LET r == worker[w].run IN
    /\ worker[w].pc = "resuming"
    /\ IF Exists(r)
         THEN Step(w, [worker[w] EXCEPT !.pc = "next",
                         !.todo = @ \ {c \in results[r] : case[c] = "live"}])
         ELSE Fail(w, "gone")
    /\ UNCHANGED <<case, run, results, bills, start, queue, lost, faults>>

\* The run's status is read before each case.  A run that is not running ends
\* the loop; so does the time budget, which may be over at any case.
NextCase(w, c) ==
    LET r == worker[w].run IN
    /\ worker[w].pc = "next"
    /\ c \in worker[w].todo
    /\ IF ~Exists(r) THEN Fail(w, "gone")
       ELSE IF run[r].status # "running"
         THEN Step(w, [worker[w] EXCEPT !.pc = "completing"])
         ELSE Step(w, [worker[w] EXCEPT !.pc = "turn", !.case = c])
    /\ UNCHANGED <<case, run, results, bills, start, queue, lost, faults>>

\* A slip: the last try hands off as well.
OverBudgetRetries(w) ==
    /\ worker[w].pc = "next"
    /\ worker[w].todo # {}
    /\ run[worker[w].run].status = "running"
    /\ Requeue(w)
    /\ UNCHANGED <<case, run, results, bills, start, lost, faults>>

OverBudget(w) ==
    /\ worker[w].pc = "next"
    /\ worker[w].todo # {}
    /\ run[worker[w].run].status = "running"
    /\ IF worker[w].try >= MaxTries
         THEN Fail(w, "budget") /\ UNCHANGED queue
         ELSE Requeue(w)
    /\ UNCHANGED <<case, run, results, bills, start, lost, faults>>

\* The turn and the judge are over; record_result looks its case up.
RecordLookup(w) ==
    /\ worker[w].pc = "turn"
    /\ IF ~Exists(worker[w].run) THEN Fail(w, "gone")
       ELSE IF case[worker[w].case] = "live"
         THEN Step(w, [worker[w] EXCEPT !.pc = "recording"])
         ELSE Step(w, [worker[w] EXCEPT !.pc = "next", !.case = NoCase,
                                        !.todo = @ \ {worker[w].case}])
    /\ UNCHANGED <<case, run, results, bills, start, queue, lost, faults>>

\* A slip: the usage rows are written whether or not the result was inserted.
RecordAndAlwaysBill(w) ==
    LET r == worker[w].run  c == worker[w].case IN
    /\ worker[w].pc = "recording"
    /\ Exists(r) /\ case[c] = "live"
    /\ results' = [results EXCEPT ![r] = @ \union {c}]
    /\ bills' = [bills EXCEPT ![r][c] = @ + 1]
    /\ run' = [run EXCEPT ![r].count = @ + 1]
    /\ Step(w, [worker[w] EXCEPT !.pc = "next", !.case = NoCase, !.todo = @ \ {c}])
    /\ UNCHANGED <<case, start, queue, lost, faults>>

\* The INSERT ... ON CONFLICT DO NOTHING and, only when it inserted, the
\* counter and the bill, in the same transaction.  A run or a case deleted
\* since the lookup breaks its foreign key.
RecordResult(w) ==
    LET r == worker[w].run
        c == worker[w].case
        recorded == [worker[w] EXCEPT !.pc = "next", !.case = NoCase, !.todo = @ \ {c}]
    IN
    /\ worker[w].pc = "recording"
    /\ \/ /\ ~Exists(r)
          /\ Fail(w, "gone")
          /\ UNCHANGED <<run, results, bills>>
       \/ /\ Exists(r) /\ case[c] # "live"
          /\ Fail(w, "caseGone")
          /\ UNCHANGED <<run, results, bills>>
       \/ /\ Exists(r) /\ case[c] = "live" /\ c \in results[r]
          /\ Step(w, recorded)
          /\ UNCHANGED <<run, results, bills>>
       \/ /\ Exists(r) /\ case[c] = "live" /\ c \notin results[r]
          /\ results' = [results EXCEPT ![r] = results[r] \union {c}]
          /\ bills' = [bills EXCEPT ![r][c] = bills[r][c] + 1]
          /\ run' = [run EXCEPT ![r].count = run[r].count + 1]
          /\ Step(w, recorded)
    /\ UNCHANGED <<case, start, queue, lost, faults>>

\* A slip: the loop's end is taken for the run's end without looking.
CompleteAlways(w) ==
    LET r == worker[w].run IN
    /\ \/ worker[w].pc = "completing"
       \/ worker[w].pc = "next" /\ worker[w].todo = {}
    /\ Exists(r)
    /\ run' = [run EXCEPT ![r] =
                 [@ EXCEPT !.status = "completed", !.summary = results[r],
                           !.count = Cardinality(results[r])]]
    /\ Finish(w)
    /\ UNCHANGED <<case, results, bills, start, lost, faults>>

\* A slip: a cancelled run's summary is left as the cancel wrote it.
CompleteOnlyRunning(w) ==
    LET r == worker[w].run IN
    /\ \/ worker[w].pc = "completing"
       \/ worker[w].pc = "next" /\ worker[w].todo = {}
    /\ run' = IF run[r].status = "running"
                THEN [run EXCEPT ![r] =
                        [@ EXCEPT !.status = "completed", !.summary = results[r],
                                  !.count = Cardinality(results[r])]]
                ELSE run
    /\ Finish(w)
    /\ UNCHANGED <<case, results, bills, start, lost, faults>>

\* complete_run under the row lock: a cancelled run has its summary refreshed,
\* a running one is completed, any other is left as it is.
Complete(w) ==
    LET r == worker[w].run IN
    /\ \/ worker[w].pc = "completing"
       \/ worker[w].pc = "next" /\ worker[w].todo = {}
    /\ \/ /\ run[r].status = "cancelled"
          /\ run' = [run EXCEPT ![r].summary = results[r]]
          /\ Finish(w)
       \/ /\ run[r].status = "running"
          /\ run' = [run EXCEPT ![r] =
                       [@ EXCEPT !.status = "completed", !.summary = results[r],
                                 !.count = Cardinality(results[r])]]
          /\ Finish(w)
       \/ /\ Exists(r) /\ run[r].status \notin {"cancelled", "running"}
          /\ Finish(w)
          /\ UNCHANGED run
       \/ /\ ~Exists(r)
          /\ Fail(w, "gone")
          /\ UNCHANGED <<run, queue>>
    /\ UNCHANGED <<case, results, bills, start, lost, faults>>

\* An exception outside a case's turn: the database is gone, a row vanished.
RunError(w) ==
    /\ worker[w].pc \notin {"idle", "failing", "marking"}
    /\ Fault("error")
    /\ Fail(w, "error")
    /\ CutShort(w)
    /\ UNCHANGED <<case, run, results, bills, start, queue>>

MarkFailedRead(w) ==
    /\ worker[w].pc = "failing"
    /\ Step(w, [worker[w] EXCEPT !.pc = "marking", !.found = results[worker[w].run]])
    /\ UNCHANGED <<case, run, results, bills, start, queue, lost, faults>>

MarkFailedUpdate(w) ==
    /\ worker[w].pc = "marking"
    /\ run' = MarkedFailed(worker[w].run, worker[w].found)
    /\ Finish(w)
    /\ UNCHANGED <<case, results, bills, start, lost, faults>>

\* The independent session fails as well: logged, never raised.
MarkFailedFails(w) ==
    /\ worker[w].pc \in {"failing", "marking"}
    /\ Fault("unmarked")
    /\ Finish(w)
    /\ CutShort(w)
    /\ UNCHANGED <<case, run, results, bills, start>>

-----------------------------------------------------------------------------
(* What arq and the machine do to an attempt *)

Kill(w) ==
    /\ worker[w].pc # "idle"
    /\ Fault("kill")
    /\ Requeue(w)
    /\ CutShort(w)
    /\ UNCHANGED <<case, run, results, bills, start>>

\* arq cancels a job that outlives its timeout and does not run it again.
Timeout(w) ==
    /\ worker[w].pc # "idle"
    /\ Fault("timeout")
    /\ Finish(w)
    /\ CutShort(w)
    /\ UNCHANGED <<case, run, results, bills, start>>

\* The in-progress key expires while the attempt is still alive.
Stall(w) ==
    LET r == worker[w].run IN
    /\ worker[w].pc # "idle"
    /\ queue[r].pc = "running"
    /\ Fault("stall")
    /\ queue' = [queue EXCEPT ![r].pc = "queued"]
    /\ lost' = lost \union {<<r, worker[w].try>>}
    /\ UNCHANGED <<case, run, results, bills, start, worker>>

-----------------------------------------------------------------------------
StartStep(r) ==
    \/ StartCheck(r) \/ StartCommit(r) \/ StartRateLimited(r)
    \/ StartEnqueue(r) \/ StartEnqueueFails(r)
    \/ StartMarkFailedRead(r) \/ StartMarkFailedUpdate(r) \/ StartCrash(r)

EditStep ==
    \/ \E r \in Run : Cancel(r) \/ DeleteAgent(r)
    \/ \E c \in Case : CreateCase(c) \/ DeleteCase(c)

QueueStep(r) == (\E w \in Worker : PickUp(w, r)) \/ GiveUp(r)

AttemptStep(w) ==
    \/ Claim(w) \/ ListCases(w) \/ ListRecorded(w)
    \/ (\E c \in Case : NextCase(w, c))
    \/ OverBudget(w) \/ RecordLookup(w) \/ RecordResult(w) \/ Complete(w)
    \/ MarkFailedRead(w) \/ MarkFailedUpdate(w)

FaultStep(w) ==
    \/ RunError(w) \/ MarkFailedFails(w) \/ Kill(w) \/ Timeout(w) \/ Stall(w)

Next ==
    \/ \E r \in Run : StartStep(r) \/ QueueStep(r)
    \/ EditStep
    \/ \E w \in Worker : AttemptStep(w) \/ FaultStep(w)

Spec == Init /\ [][Next]_vars

\* The embedded worker polls the queue, an attempt is a coroutine nothing holds
\* up for ever, and a request past its commit goes on to its end.  Nobody has
\* to start, cancel or edit anything.
Fairness ==
    /\ \A r \in Run :
         WF_vars(StartCommit(r) \/ StartEnqueue(r)
                   \/ StartMarkFailedRead(r) \/ StartMarkFailedUpdate(r))
    /\ \A r \in Run : WF_vars(QueueStep(r))
    /\ \A w \in Worker : WF_vars(AttemptStep(w))

FairSpec == Spec /\ Fairness

-----------------------------------------------------------------------------
(* Properties *)

\* Every variable has its type.  (The shapes of eval_runs, of the requests and
\* of the attempts.)
TypeOK ==
    /\ case \in [Case -> {"unborn", "live", "deleted"}]
    /\ run \in [Run -> RunState]
    /\ results \in [Run -> SUBSET Case]
    /\ bills \in [Run -> [Case -> Nat]]
    /\ start \in [Run -> StartState]
    /\ queue \in [Run -> QueueState]
    /\ worker \in [Worker -> WorkerState]
    /\ \A w \in Worker :
         /\ worker[w].pc # "idle" => worker[w].run \in Run
         /\ worker[w].pc \in {"turn", "recording"} => worker[w].case \in Case
    /\ lost \in SUBSET (Run \X (0..MaxTries))
    /\ faults \in 0..MaxFaults

\* A dataset has at most one run that is pending or running, however its start
\* requests interleave.  (create_run's lock, check and insert.)
OneActiveRun == \A r, s \in Run : Active(r) /\ Active(s) => r = s

\* A run that is over stays as it ended, whatever attempts, retries, cancels and
\* failed requests are still at work on it.  (claim_run, cancel_run,
\* complete_run and mark_failed each ask for a status first.)
TerminalStays ==
    [][\A r \in Run :
          run[r].status \in {"completed", "failed", "cancelled"}
             => run'[r].status \in {run[r].status, "deleted"}]_vars

\* No case of a run is billed twice, and a result, its bill and its count are
\* there together or not at all, also when two attempts of one job overlap.
\* (record_result's one transaction and its ON CONFLICT DO NOTHING.)
BilledWithItsResult ==
    \A r \in Run :
        /\ \A c \in Case :
              /\ bills[r][c] <= 1
              /\ Exists(r) => (bills[r][c] = 1 <=> c \in results[r])
        /\ Exists(r) => run[r].count = Cardinality(results[r])

\* A completed run holds a result for every case it was started with that the
\* dataset still has: no attempt, however late it took over, skips one.
\* (run_evaluation's loop over list_cases minus recorded_case_ids.)
CompletedCoversItsCases ==
    \A r \in Run :
        run[r].status = "completed" =>
            \A c \in run[r].cases : case[c] = "live" => c \in results[r]

\* As long as attempts of a job do not overlap, no turn is paid for whose case
\* already holds a result, across kills, hand-offs and retries; a case deleted
\* between the two reads of the resumption is the exception.
\* (recorded_case_ids; the runner's docstring: a `running` run resumes.)
NoRecordedCaseReruns ==
    \A w \in Worker :
        worker[w].pc = "turn" =>
            \/ worker[w].case \notin results[worker[w].run]
            \/ case[worker[w].case] # "live"

\* The summary of a run that is over covers the results it holds: at once when
\* it completed or failed, and for a cancelled run when its attempt is over,
\* unless that attempt was cut short.  (complete_run, mark_failed and
\* cancel_run's build_summary; the refresh of a cancelled run.)
Attempted(r) == \E w \in Worker : worker[w].run = r
SummaryIsCurrent ==
    \A r \in Run :
        \/ run[r].status \in {"completed", "failed"}
        \/ run[r].status = "cancelled" /\ ~Attempted(r)
           /\ \A n \in 0..MaxTries : <<r, n>> \notin lost
        => run[r].summary = results[r]

\* A run that is pending or running comes to an end, and frees its dataset: a
\* later try makes up for one that was cut short, and only a cut-short last try
\* (or a request that died before it queued the job) leaves it behind.
\* (Resumption, the time budget's hand-off, mark_failed on the last try.)
LeftBehind(r) ==
    /\ <<r, queue[r].tries>> \in lost
    /\ queue[r].pc \in {"none", "done"}
EveryRunSettles == \A r \in Run : Active(r) ~> (~Active(r) \/ LeftBehind(r))

\* The runs keep EvaluationLedger's promises: pending and running are one open
\* run, a result is an entry and its usage rows are the bill.
\* (create_run, claim_run, cancel_run, record_result, complete_run, mark_failed.)
stateOf == [r \in Run |-> IF Active(r) THEN "open" ELSE run[r].status]
Ledger == INSTANCE EvaluationLedger WITH state <- stateOf, sheet <- results,
                                         bill <- bills
LedgerSpec == Ledger!Spec

\* What the documentation says of the summary: a cancelled run's summary has
\* taken in the case in flight once the runner has stopped.
CancelledSummaryRefreshed ==
    \A r \in Run :
        run[r].status = "cancelled" /\ ~Attempted(r) => run[r].summary = results[r]

\* What record_result's docstring says: a case deleted while the run is in
\* flight is skipped and nothing is written; it does not break the attempt.
DeletedCaseIsSkipped == \A w \in Worker : worker[w].why # "caseGone"

=============================================================================
