------------------------ MODULE EvaluationRunProofs ------------------------
(***************************************************************************)
(* Theorems about EvaluationRun for any runs, cases, workers, tries and    *)
(* failures.                                                               *)
(***************************************************************************)
EXTENDS EvaluationRun, FiniteSetTheorems, TLAPS

USE MaxTriesAssumption, MaxFaultsAssumption, CaseAssumption, RunAssumption

LEMMA IdleTyped ==
  NoRow \in RunState /\ IdleStart \in StartState /\ IdleWorker \in WorkerState
  BY DEF NoRow, IdleStart, IdleWorker, RunState, StartState, WorkerState

LEMMA InitTyped == Init => TypeOK
  BY IdleTyped DEF Init, TypeOK, IdleWorker, QueueState

\* A row keeps its type when its fields are assigned.
LEMMA RowTyped ==
  ASSUME NEW row \in RunState
  PROVE  /\ \A s \in EvalRunStatus \union {"absent", "deleted"} :
              [row EXCEPT !.status = s] \in RunState
         /\ \A s \in EvalRunStatus, x \in SUBSET Case :
              [row EXCEPT !.status = s, !.summary = x] \in RunState
         /\ \A s \in EvalRunStatus, x \in SUBSET Case, n \in Nat :
              [row EXCEPT !.status = s, !.summary = x, !.count = n] \in RunState
         /\ \A x \in SUBSET Case : [row EXCEPT !.summary = x] \in RunState
         /\ \A x \in SUBSET Case : [row EXCEPT !.cases = x] \in RunState
         /\ \A n \in Nat : [row EXCEPT !.count = n] \in RunState
  BY DEF RunState

LEMMA MarkedFailedTyped ==
  ASSUME TypeOK, NEW r \in Run, NEW x \in SUBSET Case
  PROVE  MarkedFailed(r, x) \in [Run -> RunState]
<1>1. run[r] \in RunState /\ "failed" \in EvalRunStatus
  BY DEF TypeOK, EvalRunStatus
<1>2. [run[r] EXCEPT !.status = "failed", !.summary = x] \in RunState
  BY <1>1, RowTyped
<1>q. QED BY <1>2 DEF MarkedFailed, TypeOK

LEMMA FaultTyped ==
  ASSUME TypeOK, NEW kind, Fault(kind)
  PROVE  faults' \in 0..MaxFaults
  BY DEF TypeOK, Fault

LEMMA LostTyped ==
  ASSUME TypeOK, NEW r \in Run, NEW n \in 0..MaxTries
  PROVE  lost \union {<<r, n>>} \in SUBSET (Run \X (0..MaxTries))
  BY DEF TypeOK

LEMMA QueueSetTyped ==
  ASSUME TypeOK, NEW r \in Run, NEW pc \in {"none", "queued", "running", "done"}
  PROVE  [queue EXCEPT ![r].pc = pc] \in [Run -> QueueState]
  BY DEF TypeOK, QueueState

LEMMA StartTyped ==
  ASSUME TypeOK, NEW r \in Run, StartStep(r)
  PROVE  TypeOK'
<1>0. run[r] \in RunState /\ start[r] \in StartState
  BY DEF TypeOK
<1>1. CASE StartCheck(r)
  <2>1. [run[r] EXCEPT !.cases = LiveCases] \in RunState
    BY <1>0, RowTyped DEF LiveCases
  <2>q. QED BY <1>0, <1>1, <2>1 DEF StartCheck, TypeOK, StartState
<1>2. CASE StartCommit(r)
  <2>1. [run[r] EXCEPT !.status = "pending"] \in RunState
    BY <1>0, RowTyped DEF EvalRunStatus
  <2>q. QED BY <1>0, <1>2, <2>1 DEF StartCommit, TypeOK, StartState
<1>3. CASE StartRateLimited(r)
  BY <1>0, <1>3, IdleTyped DEF StartRateLimited, TypeOK, StartState
<1>4. CASE StartEnqueue(r)
  BY <1>0, <1>4, QueueSetTyped DEF StartEnqueue, TypeOK, StartState
<1>5. CASE StartEnqueueFails(r)
  <2>1. faults' \in 0..MaxFaults
    BY <1>5, FaultTyped DEF StartEnqueueFails
  <2>2. start' \in [Run -> StartState]
    BY <1>0, <1>5 DEF StartEnqueueFails, TypeOK, StartState
  <2>3. queue' \in [Run -> QueueState]
    <3>1. [queue EXCEPT ![r].pc = "queued"] \in [Run -> QueueState]
      BY QueueSetTyped
    <3>2. queue' = queue \/ queue' = [queue EXCEPT ![r].pc = "queued"]
      BY <1>5 DEF StartEnqueueFails
    <3>q. QED BY <3>1, <3>2 DEF TypeOK
  <2>q. QED BY <1>5, <2>1, <2>2, <2>3 DEF StartEnqueueFails, TypeOK
<1>6. CASE StartMarkFailedRead(r)
  BY <1>0, <1>6 DEF StartMarkFailedRead, TypeOK, StartState
<1>7. CASE StartMarkFailedUpdate(r)
  <2>1. run' \in [Run -> RunState]
    BY <1>0, <1>7, MarkedFailedTyped DEF StartMarkFailedUpdate, StartState
  <2>q. QED BY <1>0, <1>7, <2>1 DEF StartMarkFailedUpdate, TypeOK, StartState
<1>8. CASE StartCrash(r)
  <2>1. faults' \in 0..MaxFaults
    BY <1>8, FaultTyped DEF StartCrash
  <2>2. start' \in [Run -> StartState]
    BY <1>0, <1>8 DEF StartCrash, TypeOK, StartState
  <2>3. lost' \in SUBSET (Run \X (0..MaxTries))
    BY <1>8, LostTyped DEF StartCrash
  <2>q. QED BY <1>8, <2>1, <2>2, <2>3 DEF StartCrash, TypeOK
<1>q. QED BY <1>1, <1>2, <1>3, <1>4, <1>5, <1>6, <1>7, <1>8 DEF StartStep

LEMMA EditTyped == ASSUME TypeOK, EditStep PROVE TypeOK'
<1>1. ASSUME NEW r \in Run, Cancel(r) PROVE TypeOK'
  <2>1. [run[r] EXCEPT !.status = "cancelled", !.summary = results[r]] \in RunState
    BY RowTyped DEF TypeOK, EvalRunStatus
  <2>q. QED BY <1>1, <2>1 DEF Cancel, TypeOK
<1>2. ASSUME NEW r \in Run, DeleteAgent(r) PROVE TypeOK'
  <2>1. [NoRow EXCEPT !.status = "deleted"] \in RunState
    BY IdleTyped, RowTyped
  <2>q. QED BY <1>2, <2>1 DEF DeleteAgent, TypeOK
<1>3. ASSUME NEW c \in Case, CreateCase(c) PROVE TypeOK'
  BY <1>3 DEF CreateCase, TypeOK
<1>4. ASSUME NEW c \in Case, DeleteCase(c) PROVE TypeOK'
  BY <1>4 DEF DeleteCase, TypeOK
<1>q. QED BY <1>1, <1>2, <1>3, <1>4 DEF EditStep

\* A step of an attempt that leaves its record typed keeps everything typed.
Attempt(s) ==
    /\ s \in WorkerState
    /\ s.pc # "idle" => s.run \in Run
    /\ s.pc \in {"turn", "recording"} => s.case \in Case

LEMMA AttemptTyped ==
  ASSUME TypeOK, NEW w \in Worker, NEW s, Attempt(s),
         worker' = [worker EXCEPT ![w] = s],
         run' \in [Run -> RunState],
         results' \in [Run -> SUBSET Case],
         bills' \in [Run -> [Case -> Nat]],
         queue' \in [Run -> QueueState],
         lost' \in SUBSET (Run \X (0..MaxTries)),
         faults' \in 0..MaxFaults,
         UNCHANGED <<case, start>>
  PROVE  TypeOK'
BY DEF TypeOK, Attempt

\* What the assignments of the actions make of an attempt's record.
LEMMA AttemptForms ==
  ASSUME TypeOK, NEW w \in Worker, worker[w].pc # "idle"
  PROVE  /\ worker[w] \in WorkerState /\ worker[w].run \in Run
         /\ Attempt(IdleWorker)
         /\ \A pc \in {"listing", "next", "completing", "failing"} :
              Attempt([worker[w] EXCEPT !.pc = pc])
         /\ \A why \in {"error", "gone", "caseGone", "budget"} :
              Attempt([worker[w] EXCEPT !.pc = "failing", !.why = why])
         /\ \A x \in SUBSET Case, pc \in {"resuming", "next"} :
              Attempt([worker[w] EXCEPT !.pc = pc, !.todo = x])
         /\ \A c \in Case : Attempt([worker[w] EXCEPT !.pc = "turn", !.case = c])
         /\ worker[w].pc = "turn" => Attempt([worker[w] EXCEPT !.pc = "recording"])
         /\ \A x \in SUBSET Case :
              Attempt([worker[w] EXCEPT !.pc = "next", !.case = NoCase, !.todo = x])
         /\ \A x \in SUBSET Case :
              Attempt([worker[w] EXCEPT !.pc = "marking", !.found = x])
<1>1. /\ worker[w] \in WorkerState
      /\ worker[w].run \in Run
      /\ worker[w].pc \in {"turn", "recording"} => worker[w].case \in Case
  BY DEF TypeOK
<1>q. QED BY <1>1, IdleTyped DEF Attempt, WorkerState, IdleWorker


LEMMA QueueTyped ==
  ASSUME TypeOK, NEW r \in Run, QueueStep(r)
  PROVE  TypeOK'
<1>0. queue[r] \in QueueState
  BY DEF TypeOK
<1>1. ASSUME NEW w \in Worker, PickUp(w, r) PROVE TypeOK'
  <2>1. queue[r].tries + 1 \in 0..MaxTries
    BY <1>0, <1>1 DEF PickUp, QueueState
  <2>2. [pc |-> "running", tries |-> queue[r].tries + 1]
          \in QueueState
    BY <2>1 DEF QueueState
  <2>3. Attempt([IdleWorker EXCEPT !.pc = "claiming", !.run = r,
                                   !.try = queue[r].tries + 1])
    BY <2>1, IdleTyped DEF Attempt, WorkerState
  <2>4. queue' \in [Run -> QueueState]
    BY <1>1, <2>2 DEF PickUp, TypeOK
  <2>q. QED BY <1>1, <2>3, <2>4, AttemptTyped DEF PickUp, Step, TypeOK
<1>2. CASE GiveUp(r)
  BY <1>2, QueueSetTyped DEF GiveUp, TypeOK
<1>q. QED BY <1>1, <1>2 DEF QueueStep

\* Finish and Requeue leave the attempt's record and the queue typed.
LEMMA EndTyped ==
  ASSUME TypeOK, NEW w \in Worker, worker[w].pc # "idle", Finish(w) \/ Requeue(w)
  PROVE  /\ worker' = [worker EXCEPT ![w] = IdleWorker]
         /\ queue' \in [Run -> QueueState]
<1>1. worker[w].run \in Run
  BY DEF TypeOK
<1>2. \A pc \in {"done", "queued"} :
        [queue EXCEPT ![worker[w].run].pc = pc] \in [Run -> QueueState]
  BY <1>1, QueueSetTyped
<1>q. QED BY <1>2 DEF Finish, Requeue

LEMMA AttemptStepTyped ==
  ASSUME TypeOK, NEW w \in Worker, AttemptStep(w)
  PROVE  TypeOK'
<1> DEFINE r == worker[w].run
<1>0. worker[w].pc # "idle"
  BY DEF AttemptStep, Claim, ListCases, ListRecorded, NextCase, OverBudget,
         RecordLookup, RecordResult, Complete, MarkFailedRead, MarkFailedUpdate
<1>1. /\ r \in Run /\ run[r] \in RunState /\ results[r] \in SUBSET Case
      /\ bills[r] \in [Case -> Nat] /\ worker[w] \in WorkerState
  BY <1>0 DEF TypeOK
\* Steps that only change the attempt's own record.
<1>2. ASSUME NEW s, Attempt(s), Step(w, s),
             UNCHANGED <<case, run, results, bills, start, queue, lost, faults>>
      PROVE  TypeOK'
  BY <1>2, AttemptTyped DEF Step, TypeOK
<1>3. \A why \in {"error", "gone", "caseGone", "budget"} :
        /\ Fail(w, why)
        /\ UNCHANGED <<case, run, results, bills, start, queue, lost, faults>>
        => TypeOK'
  BY <1>0, <1>2, AttemptForms DEF Fail
\* Steps that end the attempt and change the run's row.
<1>4. ASSUME Finish(w) \/ Requeue(w), run' \in [Run -> RunState],
             UNCHANGED <<case, results, bills, start, lost, faults>>
      PROVE  TypeOK'
  <2>1. /\ worker' = [worker EXCEPT ![w] = IdleWorker]
        /\ queue' \in [Run -> QueueState]
    BY <1>0, <1>4, EndTyped
  <2>q. QED BY <1>0, <1>4, <2>1, AttemptForms, AttemptTyped DEF TypeOK
<1>5. CASE Claim(w)
  <2>1. CASE Active(r) /\ run' = [run EXCEPT ![r].status = "running"]
             /\ Step(w, [worker[w] EXCEPT !.pc = "listing"]) /\ UNCHANGED queue
    <3>1. [run[r] EXCEPT !.status = "running"] \in RunState
      BY <1>1, RowTyped DEF EvalRunStatus
    <3>2. run' \in [Run -> RunState]
      BY <1>1, <2>1, <3>1 DEF TypeOK
    <3>3. Attempt([worker[w] EXCEPT !.pc = "listing"])
      BY <1>0, AttemptForms
    <3>q. QED BY <1>5, <2>1, <3>2, <3>3, AttemptTyped DEF Claim, Step, TypeOK
  <2>2. CASE Finish(w) /\ UNCHANGED run
    BY <1>4, <1>5, <2>2 DEF Claim, TypeOK
  <2>3. CASE Fail(w, "gone") /\ UNCHANGED <<run, queue>>
    BY <1>3, <1>5, <2>3 DEF Claim
  <2>q. QED BY <1>5, <2>1, <2>2, <2>3 DEF Claim
<1>6. CASE ListCases(w)
  <2>1. Attempt([worker[w] EXCEPT !.pc = "resuming", !.todo = LiveCases])
    BY <1>0, AttemptForms DEF LiveCases
  <2>q. QED BY <1>2, <1>6, <2>1 DEF ListCases
<1>7. CASE ListRecorded(w)
  <2>1. worker[w].todo \in SUBSET Case
    BY <1>1 DEF WorkerState
  <2>2. Attempt([worker[w] EXCEPT !.pc = "next",
                   !.todo = worker[w].todo \ {c \in results[r] : case[c] = "live"}])
    BY <1>0, <2>1, AttemptForms
  <2>3. CASE Exists(r)
    BY <1>2, <1>7, <2>2, <2>3 DEF ListRecorded
  <2>4. CASE ~Exists(r)
    BY <1>3, <1>7, <2>4 DEF ListRecorded
  <2>q. QED BY <2>3, <2>4
<1>8. ASSUME NEW c \in Case, NextCase(w, c) PROVE TypeOK'
  <2>1. /\ Attempt([worker[w] EXCEPT !.pc = "completing"])
        /\ Attempt([worker[w] EXCEPT !.pc = "turn", !.case = c])
    BY <1>0, AttemptForms
  <2>2. CASE ~Exists(r)
    BY <1>3, <1>8, <2>2 DEF NextCase
  <2>3. CASE Exists(r) /\ run[r].status # "running"
    BY <1>2, <1>8, <2>1, <2>3 DEF NextCase
  <2>4. CASE Exists(r) /\ run[r].status = "running"
    BY <1>2, <1>8, <2>1, <2>4 DEF NextCase
  <2>q. QED BY <2>2, <2>3, <2>4
<1>9. CASE OverBudget(w)
  <2>1. CASE Fail(w, "budget") /\ UNCHANGED queue
    BY <1>3, <1>9, <2>1 DEF OverBudget
  <2>2. CASE Requeue(w)
    BY <1>4, <1>9, <2>2 DEF OverBudget, TypeOK
  <2>q. QED BY <1>9, <2>1, <2>2 DEF OverBudget
<1>10. CASE RecordLookup(w)
  <2>1. worker[w].todo \ {worker[w].case} \in SUBSET Case
    BY <1>1 DEF WorkerState
  <2>2. /\ Attempt([worker[w] EXCEPT !.pc = "recording"])
        /\ Attempt([worker[w] EXCEPT !.pc = "next", !.case = NoCase,
                                     !.todo = worker[w].todo \ {worker[w].case}])
    BY <1>0, <1>10, <2>1, AttemptForms DEF RecordLookup
  <2>3. CASE ~Exists(r)
    BY <1>3, <1>10, <2>3 DEF RecordLookup
  <2>4. CASE Exists(r) /\ case[worker[w].case] = "live"
    BY <1>2, <1>10, <2>2, <2>4 DEF RecordLookup
  <2>5. CASE Exists(r) /\ case[worker[w].case] # "live"
    BY <1>2, <1>10, <2>2, <2>5 DEF RecordLookup
  <2>q. QED BY <2>3, <2>4, <2>5
<1>11. CASE RecordResult(w)
  <2> DEFINE c == worker[w].case
             recorded == [worker[w] EXCEPT !.pc = "next", !.case = NoCase,
                                           !.todo = worker[w].todo \ {c}]
  <2>1. c \in Case /\ worker[w].todo \ {c} \in SUBSET Case
    BY <1>1, <1>11 DEF RecordResult, TypeOK, WorkerState
  <2>2. Attempt(recorded)
    BY <1>0, <2>1, AttemptForms
  <2>3. CASE Step(w, recorded) /\ UNCHANGED <<run, results, bills>>
    BY <1>2, <1>11, <2>2, <2>3 DEF RecordResult
  <2>4. CASE /\ results' = [results EXCEPT ![r] = results[r] \union {c}]
             /\ bills' = [bills EXCEPT ![r][c] = bills[r][c] + 1]
             /\ run' = [run EXCEPT ![r].count = run[r].count + 1]
             /\ Step(w, recorded)
    <3>1. run[r].count + 1 \in Nat /\ bills[r][c] + 1 \in Nat
      BY <1>1, <2>1 DEF RunState
    <3>2. run' \in [Run -> RunState]
      BY <1>1, <2>4, <3>1, RowTyped DEF TypeOK
    <3>3. results' \in [Run -> SUBSET Case]
      BY <1>1, <2>1, <2>4 DEF TypeOK
    <3>4. bills' \in [Run -> [Case -> Nat]]
      BY <1>1, <2>1, <2>4, <3>1 DEF TypeOK
    <3>q. QED BY <1>11, <2>2, <2>4, <3>2, <3>3, <3>4, AttemptTyped
              DEF RecordResult, Step, TypeOK
  <2>5. CASE \E why \in {"gone", "caseGone"} :
               Fail(w, why) /\ UNCHANGED <<run, results, bills>>
    BY <1>3, <1>11, <2>5 DEF RecordResult
  <2>q. QED BY <1>11, <2>3, <2>4, <2>5 DEF RecordResult
<1>12. CASE Complete(w)
  <2>1. CASE run' = [run EXCEPT ![r].summary = results[r]] /\ Finish(w)
    <3>1. run' \in [Run -> RunState]
      BY <1>1, <2>1, RowTyped DEF TypeOK
    <3>q. QED BY <1>4, <1>12, <2>1, <3>1 DEF Complete
  <2>2. CASE /\ run' = [run EXCEPT ![r] =
                   [@ EXCEPT !.status = "completed", !.summary = results[r],
                             !.count = Cardinality(results[r])]]
             /\ Finish(w)
    <3>1. Cardinality(results[r]) \in Nat
      BY <1>1, FS_Subset, FS_CardinalityType
    <3>2. [run[r] EXCEPT !.status = "completed", !.summary = results[r],
                         !.count = Cardinality(results[r])] \in RunState
      BY <1>1, <3>1, RowTyped DEF EvalRunStatus
    <3>3. run' \in [Run -> RunState]
      BY <1>1, <2>2, <3>2 DEF TypeOK
    <3>q. QED BY <1>4, <1>12, <2>2, <3>3 DEF Complete
  <2>3. CASE Finish(w) /\ UNCHANGED run
    BY <1>4, <1>12, <2>3 DEF Complete, TypeOK
  <2>4. CASE Fail(w, "gone") /\ UNCHANGED <<run, queue>>
    BY <1>3, <1>12, <2>4 DEF Complete
  <2>q. QED BY <1>12, <2>1, <2>2, <2>3, <2>4 DEF Complete
<1>13. CASE MarkFailedRead(w)
  <2>1. Attempt([worker[w] EXCEPT !.pc = "marking", !.found = results[r]])
    BY <1>0, <1>1, AttemptForms
  <2>q. QED BY <1>2, <1>13, <2>1 DEF MarkFailedRead
<1>14. CASE MarkFailedUpdate(w)
  <2>1. run' \in [Run -> RunState]
    BY <1>1, <1>14, MarkedFailedTyped DEF MarkFailedUpdate, WorkerState
  <2>q. QED BY <1>4, <1>14, <2>1 DEF MarkFailedUpdate
<1>q. QED BY <1>5, <1>6, <1>7, <1>8, <1>9, <1>10, <1>11, <1>12, <1>13, <1>14
          DEF AttemptStep

LEMMA FaultStepTyped ==
  ASSUME TypeOK, NEW w \in Worker, FaultStep(w)
  PROVE  TypeOK'
<1>0. worker[w].pc # "idle" /\ faults' \in 0..MaxFaults
  BY FaultTyped
  DEF FaultStep, RunError, MarkFailedFails, Kill, Timeout, Stall
<1>1. /\ worker[w].run \in Run /\ worker[w].try \in 0..MaxTries
  BY <1>0 DEF TypeOK, WorkerState
<1>1a. worker[w].pc \notin {"idle", "failing", "marking"}
       => Attempt([worker[w] EXCEPT !.pc = "failing", !.why = "error"])
  BY AttemptForms
<1>2. lost' \in SUBSET (Run \X (0..MaxTries))
  BY <1>1, LostTyped
  DEF FaultStep, RunError, MarkFailedFails, Kill, Timeout, Stall, CutShort
<1>3. CASE RunError(w)
  BY <1>0, <1>1a, <1>2, <1>3, AttemptTyped DEF RunError, Fail, Step, TypeOK
<1>4. CASE MarkFailedFails(w) \/ Kill(w) \/ Timeout(w)
  <2>1. /\ Finish(w) \/ Requeue(w)
        /\ UNCHANGED <<case, run, results, bills, start>>
    BY <1>4 DEF MarkFailedFails, Kill, Timeout
  <2>2. /\ worker' = [worker EXCEPT ![w] = IdleWorker]
        /\ queue' \in [Run -> QueueState]
    BY <1>0, <2>1, EndTyped
  <2>q. QED BY <1>0, <1>2, <2>1, <2>2, AttemptForms, AttemptTyped DEF TypeOK
<1>5. CASE Stall(w)
  <2>1. queue' \in [Run -> QueueState]
    BY <1>1, <1>5, QueueSetTyped DEF Stall
  <2>q. QED BY <1>0, <1>2, <1>5, <2>1 DEF Stall, TypeOK
<1>q. QED BY <1>3, <1>4, <1>5 DEF FaultStep

LEMMA TypedStep == ASSUME TypeOK, [Next]_vars PROVE TypeOK'
<1>1. CASE UNCHANGED vars
  BY <1>1 DEF vars, TypeOK
<1>q. QED BY <1>1, StartTyped, QueueTyped, EditTyped, AttemptStepTyped,
             FaultStepTyped DEF Next

\* Every variable keeps its type: the rows of eval_runs, the requests, arq's
\* records and the attempts.
THEOREM Typed == Spec => []TypeOK
  BY InitTyped, TypedStep, PTL DEF Spec

-----------------------------------------------------------------------------
(* What a step can do to the rows, the results and the bills *)

\* No request goes back to before its commit.
StartsGoOn ==
    \A r \in Run : start'[r].pc \in {"idle", "checked"} => start'[r].pc = start[r].pc

\* The row of one run changes: a run's status only changes while it is active.
RowMove(r, row) ==
    /\ run' = [run EXCEPT ![r] = row]
    /\ row \in RunState
    /\ row.status = run[r].status \/ (Active(r) /\ row.status \in EvalRunStatus)
    /\ row.count \in {run[r].count, Cardinality(results[r])}

Entered(r, c) ==
    /\ Exists(r) /\ c \notin results[r]
    /\ results' = [results EXCEPT ![r] = results[r] \union {c}]
    /\ bills' = [bills EXCEPT ![r][c] = bills[r][c] + 1]
    /\ run' = [run EXCEPT ![r].count = run[r].count + 1]
    /\ UNCHANGED start

Moves ==
    \/ UNCHANGED <<run, results, bills>> /\ StartsGoOn
    \/ (\E r \in Run, row \in RunState : RowMove(r, row))
         /\ UNCHANGED <<results, bills>> /\ StartsGoOn
    \/ \E r \in Run : StartCheck(r) \/ StartCommit(r) \/ StartRateLimited(r)
                         \/ DeleteAgent(r)
    \/ \E r \in Run, c \in Case : Entered(r, c)

LEMMA StartMoves ==
  ASSUME TypeOK, NEW r \in Run, StartStep(r)
  PROVE  Moves
<1>0. run[r] \in RunState /\ start[r] \in StartState
  BY DEF TypeOK
<1>1. CASE StartCheck(r) \/ StartCommit(r) \/ StartRateLimited(r)
  BY <1>1 DEF Moves
<1>2. CASE StartEnqueue(r) \/ StartEnqueueFails(r) \/ StartMarkFailedRead(r)
             \/ StartCrash(r)
  <2>1. StartsGoOn
    <3>1. /\ \A q \in Run \ {r} : start'[q] = start[q]
          /\ start'[r].pc \notin {"idle", "checked"}
      <4>1. start \in [Run -> StartState]
        BY DEF TypeOK
      <4>2. CASE StartEnqueue(r)
        BY <4>1, <4>2 DEF StartEnqueue, StartState
      <4>3. CASE StartEnqueueFails(r)
        BY <4>1, <4>3 DEF StartEnqueueFails, StartState
      <4>4. CASE StartMarkFailedRead(r)
        BY <4>1, <4>4 DEF StartMarkFailedRead, StartState
      <4>5. CASE StartCrash(r)
        BY <4>1, <4>5 DEF StartCrash, StartState
      <4>q. QED BY <1>2, <4>2, <4>3, <4>4, <4>5
    <3>q. QED BY <3>1 DEF StartsGoOn, TypeOK
  <2>q. QED BY <1>2, <2>1 DEF Moves, StartEnqueue, StartEnqueueFails,
                              StartMarkFailedRead, StartCrash
<1>3. CASE StartMarkFailedUpdate(r)
  <2>1. StartsGoOn
    BY <1>3 DEF StartMarkFailedUpdate, StartsGoOn, TypeOK, StartState
  <2>2. CASE Active(r)
    <3> DEFINE row == [run[r] EXCEPT !.status = "failed", !.summary = start[r].found]
    <3>1. row \in RunState
      BY <1>0, RowTyped DEF StartState, EvalRunStatus
    <3>2. row.status = "failed" /\ row.count = run[r].count
      BY <1>0 DEF RunState
    <3>3. run' = [run EXCEPT ![r] = row]
      BY <1>3, <2>2 DEF StartMarkFailedUpdate, MarkedFailed
    <3>4. RowMove(r, row)
      BY <2>2, <3>1, <3>2, <3>3 DEF RowMove, EvalRunStatus
    <3>q. QED BY <1>3, <2>1, <3>1, <3>4 DEF Moves, StartMarkFailedUpdate
  <2>3. CASE ~Active(r)
    BY <1>3, <2>1, <2>3 DEF Moves, StartMarkFailedUpdate, MarkedFailed
  <2>q. QED BY <2>2, <2>3
<1>q. QED BY <1>1, <1>2, <1>3 DEF StartStep

LEMMA EditMoves == ASSUME TypeOK, EditStep PROVE Moves
<1>0. UNCHANGED start => StartsGoOn
  BY DEF StartsGoOn
<1>1. ASSUME NEW r \in Run, Cancel(r) PROVE Moves
  <2> DEFINE row == [run[r] EXCEPT !.status = "cancelled", !.summary = results[r]]
  <2>1. row \in RunState
    BY RowTyped DEF TypeOK, EvalRunStatus
  <2>2. row.status = "cancelled" /\ row.count = run[r].count
    BY DEF TypeOK, RunState
  <2>3. run' = [run EXCEPT ![r] = row]
    BY <1>1 DEF Cancel
  <2>4. RowMove(r, row)
    BY <1>1, <2>1, <2>2, <2>3 DEF Cancel, RowMove, EvalRunStatus
  <2>q. QED BY <1>0, <1>1, <2>1, <2>4 DEF Cancel, Moves
<1>2. ASSUME NEW r \in Run, DeleteAgent(r) PROVE Moves
  BY <1>2 DEF Moves
<1>3. ASSUME NEW c \in Case, CreateCase(c) \/ DeleteCase(c) PROVE Moves
  BY <1>0, <1>3 DEF CreateCase, DeleteCase, Moves
<1>q. QED BY <1>1, <1>2, <1>3 DEF EditStep

LEMMA AttemptMoves ==
  ASSUME TypeOK, NEW w \in Worker, AttemptStep(w)
  PROVE  Moves
<1> DEFINE r == worker[w].run
<1>0. StartsGoOn /\ UNCHANGED start
  BY DEF StartsGoOn, AttemptStep, Claim, ListCases, ListRecorded, NextCase,
         OverBudget, RecordLookup, RecordResult, Complete, MarkFailedRead,
         MarkFailedUpdate
<1>1. r \in Run /\ run[r] \in RunState /\ worker[w] \in WorkerState
      /\ results[r] \in SUBSET Case
  BY DEF TypeOK, AttemptStep, Claim, ListCases, ListRecorded, NextCase,
         OverBudget, RecordLookup, RecordResult, Complete, MarkFailedRead,
         MarkFailedUpdate
<1>2. CASE UNCHANGED <<run, results, bills>>
  BY <1>0, <1>2 DEF Moves
<1>3. ASSUME NEW row \in RunState, RowMove(r, row), UNCHANGED <<results, bills>>
      PROVE  Moves
  BY <1>0, <1>1, <1>3 DEF Moves
<1>4. CASE Claim(w)
  <2>1. CASE Active(r) /\ run' = [run EXCEPT ![r].status = "running"]
    <3> DEFINE row == [run[r] EXCEPT !.status = "running"]
    <3>0. "running" \in EvalRunStatus
      BY DEF EvalRunStatus
    <3>1a. row \in RunState
      BY <1>1, <3>0, RowTyped
    <3>1. row \in RunState /\ row.status = "running" /\ row.count = run[r].count
      BY <1>1, <3>1a DEF RunState
    <3>2. run' = [run EXCEPT ![r] = row]
      BY <2>1
    <3>3. RowMove(r, row)
      BY <2>1, <3>1, <3>2 DEF RowMove, EvalRunStatus
    <3>q. QED BY <1>3, <1>4, <3>1, <3>3 DEF Claim
  <2>q. QED BY <1>2, <1>4, <2>1 DEF Claim
<1>5. CASE RecordResult(w)
  <2>1. worker[w].case \in Case
    BY <1>5 DEF RecordResult, TypeOK
  <2>2. \/ UNCHANGED <<run, results, bills>>
        \/ Entered(r, worker[w].case)
    BY <1>0, <1>5 DEF RecordResult, Entered
  <2>q. QED BY <1>1, <1>2, <2>1, <2>2 DEF Moves
<1>6. CASE Complete(w)
  <2>1. CASE run[r].status = "cancelled"
             /\ run' = [run EXCEPT ![r].summary = results[r]]
    <3> DEFINE row == [run[r] EXCEPT !.summary = results[r]]
    <3>1. row \in RunState /\ row.status = run[r].status /\ row.count = run[r].count
      BY <1>1, RowTyped DEF RunState
    <3>2. run' = [run EXCEPT ![r] = row]
      BY <2>1
    <3>3. RowMove(r, row)
      BY <3>1, <3>2 DEF RowMove
    <3>q. QED BY <1>3, <1>6, <3>1, <3>3 DEF Complete
  <2>2. CASE /\ run[r].status = "running"
             /\ run' = [run EXCEPT ![r] =
                  [@ EXCEPT !.status = "completed", !.summary = results[r],
                            !.count = Cardinality(results[r])]]
    <3> DEFINE row == [run[r] EXCEPT !.status = "completed", !.summary = results[r],
                                     !.count = Cardinality(results[r])]
    <3>1. Cardinality(results[r]) \in Nat
      BY <1>1, FS_Subset, FS_CardinalityType
    <3>2. row \in RunState
      BY <1>1, <3>1, RowTyped DEF EvalRunStatus
    <3>3. row.status = "completed" /\ row.count = Cardinality(results[r])
      BY <1>1 DEF RunState
    <3>4. run' = [run EXCEPT ![r] = row]
      BY <2>2
    <3>5. RowMove(r, row)
      BY <2>2, <3>2, <3>3, <3>4 DEF RowMove, Active, ActiveStatuses, EvalRunStatus
    <3>q. QED BY <1>3, <1>6, <3>2, <3>5 DEF Complete
  <2>q. QED BY <1>2, <1>6, <2>1, <2>2 DEF Complete
<1>7. CASE MarkFailedUpdate(w)
  <2>1. CASE Active(r)
    <3> DEFINE row == [run[r] EXCEPT !.status = "failed", !.summary = worker[w].found]
    <3>1. row \in RunState
      BY <1>1, RowTyped DEF WorkerState, EvalRunStatus
    <3>2. row.status = "failed" /\ row.count = run[r].count
      BY <1>1 DEF RunState
    <3>3. run' = [run EXCEPT ![r] = row]
      BY <1>7, <2>1 DEF MarkFailedUpdate, MarkedFailed
    <3>4. RowMove(r, row)
      BY <2>1, <3>1, <3>2, <3>3 DEF RowMove, EvalRunStatus
    <3>q. QED BY <1>3, <1>7, <3>1, <3>4 DEF MarkFailedUpdate
  <2>q. QED BY <1>2, <1>7, <2>1 DEF MarkFailedUpdate, MarkedFailed
<1>q. QED BY <1>2, <1>4, <1>5, <1>6, <1>7
          DEF AttemptStep, ListCases, ListRecorded, NextCase, OverBudget,
              RecordLookup, MarkFailedRead

LEMMA StepMoves == ASSUME TypeOK, [Next]_vars PROVE Moves
<1>1. CASE UNCHANGED vars
  BY <1>1 DEF vars, Moves, StartsGoOn
<1>2. ASSUME NEW r \in Run, QueueStep(r) PROVE Moves
  BY <1>2 DEF QueueStep, PickUp, GiveUp, Moves, StartsGoOn
<1>3. ASSUME NEW w \in Worker, FaultStep(w) PROVE Moves
  BY <1>3 DEF FaultStep, RunError, MarkFailedFails, Kill, Timeout, Stall, Moves,
              StartsGoOn
<1>q. QED BY <1>1, <1>2, <1>3, StartMoves, EditMoves, AttemptMoves DEF Next

-----------------------------------------------------------------------------
(* One active run, and bills that match results *)

\* Between its check and its commit a request is alone on the dataset.
StartExcludes ==
    \A r \in Run :
        start[r].pc = "checked" =>
            /\ \A s \in Run : ~Active(s)
            /\ \A s \in Run : start[s].pc = "checked" => s = r

UnstartedIsAbsent ==
    \A r \in Run : start[r].pc \in {"idle", "checked"} => run[r].status = "absent"

AbsentIsBlank ==
    \A r \in Run :
        run[r].status = "absent" =>
            /\ results[r] = {} /\ run[r].count = 0
            /\ \A c \in Case : bills[r][c] = 0

RunInv ==
    /\ TypeOK
    /\ OneActiveRun
    /\ StartExcludes
    /\ UnstartedIsAbsent
    /\ AbsentIsBlank
    /\ BilledWithItsResult

LEMMA RunInit == Init => RunInv
<1> SUFFICES ASSUME Init PROVE RunInv
  OBVIOUS
<1>1. TypeOK
  BY InitTyped
<1>2. Cardinality({}) = 0
  BY FS_EmptySet
<1>3. \A r \in Run : /\ run[r].status = "absent" /\ run[r].count = 0
                     /\ results[r] = {} /\ start[r].pc = "idle"
                     /\ \A c \in Case : bills[r][c] = 0
  BY DEF Init, NoRow, IdleStart
<1>q. QED BY <1>1, <1>2, <1>3
          DEF RunInv, OneActiveRun, StartExcludes, UnstartedIsAbsent, AbsentIsBlank,
              BilledWithItsResult, Active, ActiveStatuses, Exists, EvalRunStatus

\* A step that leaves the results and the bills alone, wakes no run up and makes
\* no request go back keeps the invariant.
LEMMA RunQuiet ==
  ASSUME RunInv, TypeOK', StartsGoOn, UNCHANGED <<results, bills>>,
         \A r \in Run :
           \/ run'[r].status = run[r].status
           \/ Active(r) /\ run'[r].status \in EvalRunStatus,
         \A r \in Run :
           run'[r].count \in {run[r].count, Cardinality(results[r])}
  PROVE  RunInv'
<1>1. \A r \in Run : /\ Active(r)' => Active(r)
                     /\ Exists(r)' => Exists(r)
                     /\ run'[r].status = "absent" => run[r].status = "absent"
                     /\ run[r].status = "absent" => run'[r].status = "absent"
  BY DEF Active, ActiveStatuses, Exists, EvalRunStatus
<1>2. OneActiveRun'
  BY <1>1 DEF RunInv, OneActiveRun
<1>3. StartExcludes'
  <2> SUFFICES ASSUME NEW r \in Run, start'[r].pc = "checked"
               PROVE  /\ \A s \in Run : ~Active(s)'
                      /\ \A s \in Run : start'[s].pc = "checked" => s = r
    BY DEF StartExcludes
  <2>1. start[r].pc = "checked"
    BY DEF StartsGoOn
  <2>q. QED BY <1>1, <2>1 DEF StartsGoOn, RunInv, StartExcludes
<1>4. UnstartedIsAbsent'
  BY <1>1 DEF RunInv, UnstartedIsAbsent, StartsGoOn
<1>5. BilledWithItsResult'
  BY <1>1 DEF RunInv, BilledWithItsResult
<1>6. AbsentIsBlank'
  <2> SUFFICES ASSUME NEW r \in Run, run'[r].status = "absent"
               PROVE  /\ results'[r] = {} /\ run'[r].count = 0
                      /\ \A c \in Case : bills'[r][c] = 0
    BY DEF AbsentIsBlank
  <2>1. /\ results[r] = {} /\ run[r].count = 0
        /\ \A c \in Case : bills[r][c] = 0
    BY <1>1 DEF RunInv, AbsentIsBlank
  <2>2. Cardinality(results[r]) = 0
    BY <2>1, FS_EmptySet
  <2>q. QED BY <2>1, <2>2
<1>q. QED BY <1>2, <1>3, <1>4, <1>5, <1>6 DEF RunInv

LEMMA RunStarted ==
  ASSUME RunInv, TypeOK', NEW r \in Run,
         StartCheck(r) \/ StartCommit(r) \/ StartRateLimited(r)
  PROVE  RunInv'
<1>0. /\ run \in [Run -> RunState] /\ start \in [Run -> StartState]
      /\ UNCHANGED <<results, bills>>
      /\ run[r].status = "absent" /\ results[r] = {} /\ run[r].count = 0
      /\ \A c \in Case : bills[r][c] = 0
  BY DEF RunInv, TypeOK, UnstartedIsAbsent, AbsentIsBlank, StartCheck,
         StartCommit, StartRateLimited
<1>1. /\ \A s \in Run : run'[s].count = run[s].count
      /\ \A s \in Run \ {r} : run'[s] = run[s] /\ start'[s].pc = start[s].pc
  BY <1>0 DEF StartCheck, StartCommit, StartRateLimited, RunState, StartState, NoRow
<1>2. CASE StartCheck(r)
  <2>1. /\ run'[r].status = "absent" /\ start'[r].pc = "checked"
        /\ \A s \in Run : start[s].pc # "checked" /\ ~Active(s)
    BY <1>0, <1>2 DEF StartCheck, DatasetLocked, RunState, StartState
  <2>2. \A s \in Run : run'[s].status = run[s].status
    BY <1>0, <1>1, <2>1
  <2>3. \A s \in Run : (Active(s)' <=> Active(s)) /\ (Exists(s)' <=> Exists(s))
    BY <2>2 DEF Active, Exists
  <2>4. StartExcludes'
    BY <1>1, <2>1, <2>3 DEF StartExcludes
  <2>5. UnstartedIsAbsent'
    BY <1>1, <2>1, <2>2 DEF RunInv, UnstartedIsAbsent
  <2>q. QED BY <1>0, <1>1, <2>2, <2>3, <2>4, <2>5
            DEF RunInv, OneActiveRun, AbsentIsBlank, BilledWithItsResult
<1>3. CASE StartCommit(r)
  <2>1. /\ run'[r].status = "pending" /\ start'[r].pc = "committed"
        /\ \A s \in Run : /\ ~Active(s)
                          /\ start[s].pc = "checked" => s = r
    BY <1>0, <1>3 DEF StartCommit, RunState, StartState, RunInv, StartExcludes
  <2>2. \A s \in Run : Active(s)' => s = r
    BY <1>1, <2>1 DEF Active
  <2>3. OneActiveRun'
    BY <2>2 DEF OneActiveRun
  <2>4. StartExcludes'
    BY <1>1, <2>1 DEF StartExcludes
  <2>5. UnstartedIsAbsent' /\ AbsentIsBlank'
    BY <1>0, <1>1, <2>1 DEF RunInv, UnstartedIsAbsent, AbsentIsBlank
  <2>6. BilledWithItsResult'
    <3>1. \A s \in Run : s # r => (Exists(s)' <=> Exists(s))
      BY <1>1 DEF Exists
    <3>2. Cardinality(results[r]) = 0
      BY <1>0, FS_EmptySet
    <3>3. /\ \A c \in Case : bills'[r][c] <= 1 /\ (bills'[r][c] = 1 <=> c \in results'[r])
          /\ run'[r].count = Cardinality(results'[r])
      BY <1>0, <1>1, <3>2
    <3>4. \A s \in Run \ {r} :
            /\ \A c \in Case :
                 /\ bills'[s][c] <= 1
                 /\ Exists(s)' => (bills'[s][c] = 1 <=> c \in results'[s])
            /\ Exists(s)' => run'[s].count = Cardinality(results'[s])
      BY <1>0, <1>1, <3>1 DEF RunInv, BilledWithItsResult
    <3>q. QED BY <3>3, <3>4 DEF BilledWithItsResult
  <2>q. QED BY <2>3, <2>4, <2>5, <2>6 DEF RunInv
<1>4. CASE StartRateLimited(r)
  <2>1. /\ run'[r].status = "absent" /\ start'[r].pc = "refused"
    BY <1>0, <1>4 DEF StartRateLimited, NoRow, StartState
  <2>2. \A s \in Run : run'[s].status = run[s].status
    BY <1>0, <1>1, <2>1
  <2>3. \A s \in Run : (Active(s)' <=> Active(s)) /\ (Exists(s)' <=> Exists(s))
    BY <2>2 DEF Active, Exists
  <2>4. StartExcludes' /\ UnstartedIsAbsent'
    BY <1>1, <2>1, <2>2, <2>3 DEF RunInv, StartExcludes, UnstartedIsAbsent
  <2>q. QED BY <1>0, <1>1, <2>2, <2>3, <2>4
            DEF RunInv, OneActiveRun, AbsentIsBlank, BilledWithItsResult
<1>q. QED BY <1>2, <1>3, <1>4

LEMMA RunDeleted ==
  ASSUME RunInv, TypeOK', NEW r \in Run, DeleteAgent(r)
  PROVE  RunInv'
<1>0. /\ run \in [Run -> RunState] /\ results \in [Run -> SUBSET Case]
      /\ UNCHANGED <<bills, start>> /\ Exists(r)
  BY DEF RunInv, TypeOK, DeleteAgent
<1>1. /\ run'[r].status = "deleted"
      /\ \A s \in Run \ {r} : run'[s] = run[s] /\ results'[s] = results[s]
  BY <1>0 DEF DeleteAgent, NoRow
<1>2. /\ ~Exists(r)' /\ ~Active(r)'
      /\ \A s \in Run \ {r} : (Active(s)' <=> Active(s)) /\ (Exists(s)' <=> Exists(s))
  BY <1>1 DEF Active, ActiveStatuses, Exists, EvalRunStatus
<1>3. OneActiveRun' /\ StartExcludes'
  BY <1>0, <1>2 DEF RunInv, OneActiveRun, StartExcludes
<1>4. UnstartedIsAbsent'
  BY <1>0, <1>1 DEF RunInv, UnstartedIsAbsent, Exists, EvalRunStatus
<1>5. AbsentIsBlank'
  BY <1>0, <1>1 DEF RunInv, AbsentIsBlank
<1>6. BilledWithItsResult'
  BY <1>0, <1>1, <1>2 DEF RunInv, BilledWithItsResult
<1>q. QED BY <1>3, <1>4, <1>5, <1>6 DEF RunInv

LEMMA RunEntered ==
  ASSUME RunInv, TypeOK', NEW r \in Run, NEW c \in Case, Entered(r, c)
  PROVE  RunInv'
<1>0. /\ run \in [Run -> RunState] /\ results \in [Run -> SUBSET Case]
      /\ bills \in [Run -> [Case -> Nat]]
      /\ UNCHANGED start /\ Exists(r) /\ c \notin results[r]
  BY DEF RunInv, TypeOK, Entered
<1>1. /\ run'[r].status = run[r].status /\ run'[r].count = run[r].count + 1
      /\ results'[r] = results[r] \union {c}
      /\ \A s \in Run \ {r} : run'[s] = run[s] /\ results'[s] = results[s]
  BY <1>0 DEF Entered, RunState
<1>2. /\ bills'[r][c] = bills[r][c] + 1
      /\ \A s \in Run, x \in Case :
           s # r \/ x # c => bills'[s][x] = bills[s][x]
  BY <1>0 DEF Entered
<1>3. \A s \in Run : (Active(s)' <=> Active(s)) /\ (Exists(s)' <=> Exists(s))
  BY <1>1 DEF Active, Exists
<1>4. OneActiveRun' /\ StartExcludes'
  BY <1>0, <1>3 DEF RunInv, OneActiveRun, StartExcludes
<1>5. UnstartedIsAbsent' /\ AbsentIsBlank'
  BY <1>0, <1>1, <1>2
  DEF RunInv, UnstartedIsAbsent, AbsentIsBlank, Exists, EvalRunStatus
<1>6. Cardinality(results'[r]) = run'[r].count
  <2>1. IsFiniteSet(results[r])
    BY <1>0, FS_Subset
  <2>2. Cardinality(results[r] \union {c}) = Cardinality(results[r]) + 1
    BY <1>0, <2>1, FS_AddElement
  <2>q. QED BY <1>0, <1>1, <2>2 DEF RunInv, BilledWithItsResult
<1>7. bills[r][c] = 0
  <2>1. bills[r][c] \in Nat
    BY <1>0
  <2>2. bills[r][c] <= 1 /\ bills[r][c] # 1
    BY <1>0 DEF RunInv, BilledWithItsResult
  <2>q. QED BY <2>1, <2>2
<1>8. BilledWithItsResult'
  <2>1. \A x \in Case : /\ bills'[r][x] <= 1
                        /\ bills'[r][x] = 1 <=> x \in results'[r]
    BY <1>0, <1>1, <1>2, <1>7 DEF RunInv, BilledWithItsResult
  <2>2. \A s \in Run \ {r} : \A x \in Case :
          /\ bills'[s][x] <= 1
          /\ Exists(s)' => (bills'[s][x] = 1 <=> x \in results'[s])
    BY <1>0, <1>1, <1>2, <1>3 DEF RunInv, BilledWithItsResult
  <2>3. \A s \in Run \ {r} : Exists(s)' => run'[s].count = Cardinality(results'[s])
    BY <1>0, <1>1, <1>3 DEF RunInv, BilledWithItsResult
  <2>q. QED BY <1>6, <2>1, <2>2, <2>3 DEF BilledWithItsResult
<1>q. QED BY <1>4, <1>5, <1>8 DEF RunInv

LEMMA RunStep == ASSUME RunInv, [Next]_vars PROVE RunInv'
<1>1. TypeOK' /\ Moves
  BY TypedStep, StepMoves DEF RunInv
<1>2. CASE UNCHANGED <<run, results, bills>> /\ StartsGoOn
  BY <1>1, <1>2, RunQuiet
<1>3. ASSUME NEW r \in Run, NEW row \in RunState, RowMove(r, row),
             UNCHANGED <<results, bills>>, StartsGoOn
      PROVE  RunInv'
  <2>1. run \in [Run -> RunState]
    BY DEF RunInv, TypeOK
  <2>2. \A s \in Run : run'[s] = IF s = r THEN row ELSE run[s]
    BY <1>3, <2>1 DEF RowMove
  <2>q. QED BY <1>1, <1>3, <2>2, RunQuiet DEF RowMove
<1>q. QED BY <1>1, <1>2, <1>3, RunStarted, RunDeleted, RunEntered DEF Moves

\* For any number of requests and workers, a dataset has at most one active run.
THEOREM OneRunAtATime == Spec => []OneActiveRun
<1>1. RunInv => OneActiveRun
  BY DEF RunInv
<1>q. QED BY RunInit, RunStep, <1>1, PTL DEF Spec

\* However attempts overlap and fail, each case of a run is billed at most once,
\* with its result and its count.
THEOREM BilledOnce == Spec => []BilledWithItsResult
<1>1. RunInv => BilledWithItsResult
  BY DEF RunInv
<1>q. QED BY RunInit, RunStep, <1>1, PTL DEF Spec

LEMMA EndIsFinal ==
  ASSUME RunInv, [Next]_vars, NEW r \in Run,
         run[r].status \in {"completed", "failed", "cancelled"}
  PROVE  run'[r].status \in {run[r].status, "deleted"}
<1>0. /\ Moves /\ run \in [Run -> RunState] /\ ~Active(r)
      /\ start[r].pc \notin {"idle", "checked"}
  BY StepMoves DEF RunInv, TypeOK, Active, ActiveStatuses, UnstartedIsAbsent
<1>1. ASSUME NEW s \in Run, NEW row \in RunState, RowMove(s, row)
      PROVE  run'[r].status = run[r].status
  BY <1>0, <1>1 DEF RowMove
<1>2. ASSUME NEW s \in Run, StartCheck(s) \/ StartCommit(s) \/ StartRateLimited(s)
      PROVE  run'[r].status = run[r].status
  BY <1>0, <1>2 DEF StartCheck, StartCommit, StartRateLimited, RunState
<1>3. ASSUME NEW s \in Run, DeleteAgent(s)
      PROVE  run'[r].status \in {run[r].status, "deleted"}
  BY <1>0, <1>3 DEF DeleteAgent, NoRow
<1>4. ASSUME NEW s \in Run, NEW c \in Case, Entered(s, c)
      PROVE  run'[r].status = run[r].status
  BY <1>0, <1>4 DEF Entered, RunState
<1>q. QED BY <1>0, <1>1, <1>2, <1>3, <1>4 DEF Moves

\* A run that is over never changes its status again.  (TerminalStays, for any
\* attempts, cancels and failures.)
THEOREM EndsOnce == Spec => TerminalStays
<1>1. ASSUME RunInv, [Next]_vars
      PROVE  [\A r \in Run :
                run[r].status \in {"completed", "failed", "cancelled"}
                   => run'[r].status \in {run[r].status, "deleted"}]_vars
  BY <1>1, EndIsFinal
<1>q. QED BY RunInit, RunStep, <1>1, PTL DEF Spec, TerminalStays

-----------------------------------------------------------------------------
(* The runs implement EvaluationLedger *)

LEMMA LedgerStep ==
  ASSUME RunInv, [Next]_vars
  PROVE  [Ledger!Next]_<<stateOf, results, bills>>
<1>0. /\ Moves /\ run \in [Run -> RunState] /\ results \in [Run -> SUBSET Case]
      /\ stateOf \in [Run -> EvalRunStatus \union {"absent", "open", "deleted"}]
      /\ stateOf' \in [Run -> EvalRunStatus \union {"absent", "open", "deleted"}]
  <2>1. run \in [Run -> RunState] /\ run' \in [Run -> RunState]
    BY TypedStep DEF RunInv, TypeOK
  <2>q. QED BY <2>1, StepMoves DEF RunInv, TypeOK, stateOf, RunState
<1>1. \A r \in Run : /\ stateOf[r] = IF Active(r) THEN "open" ELSE run[r].status
                     /\ stateOf'[r] = IF Active(r)' THEN "open" ELSE run'[r].status
  BY DEF stateOf
<1>2. \A r \in Run : Exists(r) => stateOf[r] \in {"open", "completed", "failed", "cancelled"}
  BY <1>1 DEF Exists, Active, ActiveStatuses, EvalRunStatus
<1>3. ASSUME UNCHANGED <<results, bills>>,
             \A s \in Run : run'[s].status = run[s].status
      PROVE  UNCHANGED <<stateOf, results, bills>>
  <2>1. \A s \in Run : Active(s)' <=> Active(s)
    BY <1>3 DEF Active
  <2>q. QED BY <1>0, <1>1, <1>3, <2>1
<1>4. ASSUME NEW r \in Run, NEW row \in RunState, RowMove(r, row),
             UNCHANGED <<results, bills>>
      PROVE  [Ledger!Next]_<<stateOf, results, bills>>
  <2>1. \A s \in Run : run'[s] = IF s = r THEN row ELSE run[s]
    BY <1>0, <1>4 DEF RowMove
  <2>2. CASE row.status = run[r].status
    BY <1>3, <1>4, <2>1, <2>2
  <2>3. CASE row.status \in ActiveStatuses /\ Active(r)
    <3>1. \A s \in Run : Active(s)' <=> Active(s)
      BY <2>1, <2>3 DEF Active
    <3>2. stateOf' = stateOf
      BY <1>0, <1>1, <2>1, <2>3, <3>1
    <3>q. QED BY <1>4, <3>2
  <2>4. CASE row.status \in Ledger!Ends /\ Active(r)
    <3>1. /\ ~Active(r)'
          /\ \A s \in Run \ {r} : Active(s)' <=> Active(s)
      BY <2>1, <2>4 DEF Active, ActiveStatuses, Ledger!Ends
    <3>2. stateOf' = [stateOf EXCEPT ![r] = row.status]
      BY <1>0, <1>1, <2>1, <3>1
    <3>3. stateOf[r] = "open"
      BY <1>1, <2>4
    <3>q. QED BY <1>4, <2>4, <3>2, <3>3 DEF Ledger!Next, Ledger!End
  <2>q. QED BY <1>4, <2>2, <2>3, <2>4
            DEF RowMove, EvalRunStatus, ActiveStatuses, Ledger!Ends
<1>5. ASSUME NEW r \in Run, StartCheck(r) \/ StartRateLimited(r)
      PROVE  UNCHANGED <<stateOf, results, bills>>
  <2>1. run[r].status = "absent"
    BY <1>5 DEF RunInv, UnstartedIsAbsent, StartCheck, StartRateLimited
  <2>2. \A s \in Run : run'[s].status = run[s].status
    BY <1>0, <1>5, <2>1 DEF StartCheck, StartRateLimited, RunState, NoRow
  <2>q. QED BY <1>3, <1>5, <2>2 DEF StartCheck, StartRateLimited
<1>6. ASSUME NEW r \in Run, StartCommit(r)
      PROVE  [Ledger!Next]_<<stateOf, results, bills>>
  <2>1. /\ run[r].status = "absent"
        /\ \A s \in Run : ~Active(s)
    BY <1>6 DEF RunInv, UnstartedIsAbsent, StartExcludes, StartCommit
  <2>2. /\ run'[r].status = "pending"
        /\ \A s \in Run \ {r} : run'[s] = run[s]
    BY <1>0, <1>6 DEF StartCommit, RunState
  <2>3. stateOf[r] = "absent"
    BY <1>1, <2>1
  <2>4. \A s \in Run : stateOf[s] # "open"
    BY <1>0, <1>1, <2>1 DEF RunState, EvalRunStatus
  <2>5. Active(r)' /\ \A s \in Run \ {r} : ~Active(s)'
    BY <2>1, <2>2 DEF Active, ActiveStatuses
  <2>6. stateOf' = [stateOf EXCEPT ![r] = "open"]
    BY <1>0, <1>1, <2>1, <2>2, <2>5
  <2>q. QED BY <1>6, <2>3, <2>4, <2>6 DEF StartCommit, Ledger!Next, Ledger!Open
<1>7. ASSUME NEW r \in Run, DeleteAgent(r)
      PROVE  [Ledger!Next]_<<stateOf, results, bills>>
  <2>1. /\ run'[r].status = "deleted"
        /\ \A s \in Run \ {r} : run'[s] = run[s]
    BY <1>0, <1>7 DEF DeleteAgent, NoRow
  <2>2. ~Active(r)' /\ \A s \in Run \ {r} : Active(s)' <=> Active(s)
    BY <2>1 DEF Active, ActiveStatuses
  <2>3. stateOf' = [stateOf EXCEPT ![r] = "deleted"]
    BY <1>0, <1>1, <2>1, <2>2
  <2>q. QED BY <1>2, <1>7, <2>3 DEF DeleteAgent, Ledger!Next, Ledger!Delete, Ledger!Ends
<1>8. ASSUME NEW r \in Run, NEW c \in Case, Entered(r, c)
      PROVE  [Ledger!Next]_<<stateOf, results, bills>>
  <2>1. \A s \in Run : run'[s].status = run[s].status
    BY <1>0, <1>8 DEF Entered, RunState
  <2>2. \A s \in Run : Active(s)' <=> Active(s)
    BY <2>1 DEF Active
  <2>3. stateOf' = stateOf
    BY <1>0, <1>1, <2>1, <2>2
  <2>q. QED BY <1>2, <1>8, <2>3 DEF Entered, Ledger!Next, Ledger!Enter, Ledger!Ends
<1>9. CASE UNCHANGED <<run, results, bills>>
  BY <1>3, <1>9
<1>q. QED BY <1>0, <1>4, <1>5, <1>6, <1>7, <1>8, <1>9 DEF Moves

\* Whatever requests, attempts and failures do, the runs of a dataset keep the
\* promises of EvaluationLedger.
THEOREM EvaluationImplementsLedger == Spec => LedgerSpec
<1>1. Init => Ledger!Init
  BY DEF Init, Ledger!Init, stateOf, NoRow, Active, ActiveStatuses
<1>q. QED BY RunInit, RunStep, <1>1, LedgerStep, PTL
          DEF Spec, LedgerSpec, Ledger!Spec, Ledger!vars


-----------------------------------------------------------------------------
(* A completed run covers its cases *)

\* A job is queued by a request past its commit, and attempted once queued.
Queued ==
    /\ \A r \in Run : queue[r].pc # "none" => start[r].pc \notin {"idle", "checked", "committed"}
    /\ \A w \in Worker : worker[w].pc # "idle" => queue[worker[w].run].pc # "none"

CasesAreBorn == \A r \in Run : \A c \in run[r].cases : case[c] # "unborn"

\* What an attempt knows of its run: once claimed it is never pending again,
\* and the loop was only left early for a run that is over.
Loop == {"listing", "resuming", "next", "turn", "recording", "completing"}

Claimed(w) ==
    /\ worker[w].pc \in Loop => run[worker[w].run].status # "pending"
    /\ worker[w].pc = "completing" => ~Active(worker[w].run)

\* The cases of the run that are neither done nor still to do are gone.
Covers(w) ==
    worker[w].pc \in {"resuming", "next", "turn", "recording"} =>
        \A c \in run[worker[w].run].cases :
            case[c] = "live" => c \in worker[w].todo \union results[worker[w].run]

CoverInv ==
    /\ RunInv
    /\ Queued
    /\ CasesAreBorn
    /\ \A w \in Worker : Claimed(w) /\ Covers(w)
    /\ CompletedCoversItsCases

\* Unless its request or its deletion is at work on it, a run keeps its cases
\* and its results, is never pending anew, and is completed by an attempt only.
RowGoesOn(r) ==
    /\ run'[r].cases = run[r].cases
    /\ results[r] \subseteq results'[r]
    /\ run'[r].status = "pending" => run[r].status = "pending"
    /\ \/ run'[r].status = run[r].status
       \/ Active(r) /\ run'[r].status \in EvalRunStatus
    /\ run'[r].status = "completed" =>
          \/ run[r].status = "completed"
          \/ \E w \in Worker : Complete(w) /\ worker[w].run = r /\ run[r].status = "running"

LEMMA RowsGoOn ==
  ASSUME TypeOK, [Next]_vars, NEW r \in Run
  PROVE  \/ StartCheck(r) \/ StartCommit(r) \/ StartRateLimited(r) \/ DeleteAgent(r)
         \/ RowGoesOn(r)
<1>0. run \in [Run -> RunState] /\ results \in [Run -> SUBSET Case]
  BY DEF TypeOK
<1>1. ASSUME run'[r] = run[r], results'[r] = results[r] PROVE RowGoesOn(r)
  BY <1>1 DEF RowGoesOn
<1>2. ASSUME NEW s \in Run, s # r,
             StartCheck(s) \/ StartCommit(s) \/ StartRateLimited(s) \/ DeleteAgent(s)
      PROVE  RowGoesOn(r)
  <2>1. run'[r] = run[r] /\ results'[r] = results[r]
    BY <1>0, <1>2 DEF StartCheck, StartCommit, StartRateLimited, DeleteAgent
  <2>q. QED BY <1>1, <2>1
<1>3. ASSUME NEW s \in Run, Cancel(s) PROVE RowGoesOn(r)
  <2>1. UNCHANGED results
    BY <1>3 DEF Cancel
  <2>2. CASE s = r
    <3>1. /\ run'[r].cases = run[r].cases /\ run'[r].status = "cancelled" /\ Active(r)
      BY <1>0, <1>3, <2>2 DEF Cancel, RunState
    <3>q. QED BY <2>1, <3>1 DEF RowGoesOn, EvalRunStatus
  <2>3. CASE s # r
    BY <1>0, <1>1, <1>3, <2>1, <2>3 DEF Cancel
  <2>q. QED BY <2>2, <2>3
<1>4. ASSUME NEW s \in Run, NEW x, run' = MarkedFailed(s, x), UNCHANGED results
      PROVE  RowGoesOn(r)
  <2>1. CASE s = r /\ Active(r)
    <3>1. /\ run'[r].cases = run[r].cases /\ run'[r].status = "failed"
      BY <1>0, <1>4, <2>1 DEF MarkedFailed, RunState
    <3>q. QED BY <1>4, <2>1, <3>1 DEF RowGoesOn, EvalRunStatus
  <2>2. CASE s # r \/ ~Active(s)
    BY <1>0, <1>1, <1>4, <2>2 DEF MarkedFailed
  <2>q. QED BY <2>1, <2>2
<1>5. ASSUME NEW w \in Worker, Claim(w) \/ RecordResult(w) \/ Complete(w) PROVE RowGoesOn(r)
  <2>0. worker[w].run \in Run
    BY <1>5 DEF TypeOK, Claim, RecordResult, Complete
  <2>1. CASE worker[w].run # r
    <3>1. run'[r] = run[r] /\ results'[r] = results[r]
      BY <1>0, <1>5, <2>0, <2>1 DEF Claim, RecordResult, Complete
    <3>q. QED BY <1>1, <3>1
  <2>2. CASE worker[w].run = r /\ Claim(w)
    <3>1. UNCHANGED results
      BY <2>2 DEF Claim
    <3>2. UNCHANGED run \/ (Active(r) /\ run' = [run EXCEPT ![r].status = "running"])
      BY <2>2 DEF Claim
    <3>3. UNCHANGED run \/ (/\ Active(r) /\ run'[r].status = "running"
                            /\ run'[r].cases = run[r].cases)
      BY <1>0, <3>2 DEF RunState
    <3>q. QED BY <1>1, <3>1, <3>3 DEF RowGoesOn, EvalRunStatus
  <2>3. CASE worker[w].run = r /\ RecordResult(w)
    <3>1. results[r] \subseteq results'[r]
      BY <1>0, <2>3 DEF RecordResult
    <3>2. UNCHANGED run \/ run' = [run EXCEPT ![r].count = run[r].count + 1]
      BY <2>3 DEF RecordResult
    <3>3. run'[r].cases = run[r].cases /\ run'[r].status = run[r].status
      BY <1>0, <3>2 DEF RunState
    <3>q. QED BY <3>1, <3>3 DEF RowGoesOn
  <2>4. CASE worker[w].run = r /\ Complete(w)
    <3>1. UNCHANGED results
      BY <2>4 DEF Complete
    <3>2. \/ UNCHANGED run
          \/ run' = [run EXCEPT ![r].summary = results[r]]
          \/ /\ run[r].status = "running"
             /\ run' = [run EXCEPT ![r] =
                  [run[r] EXCEPT !.status = "completed", !.summary = results[r],
                                 !.count = Cardinality(results[r])]]
      BY <2>4 DEF Complete
    <3>3. /\ run'[r].cases = run[r].cases
          /\ \/ run'[r].status = run[r].status
             \/ run[r].status = "running" /\ run'[r].status = "completed"
      <4>0. run[r] \in RunState
        BY <1>0
      <4>1. CASE UNCHANGED run
        BY <4>1
      <4>2. CASE run' = [run EXCEPT ![r].summary = results[r]]
        BY <1>0, <4>0, <4>2 DEF RunState
      <4>3. CASE /\ run[r].status = "running"
                 /\ run' = [run EXCEPT ![r] =
                      [run[r] EXCEPT !.status = "completed", !.summary = results[r],
                                     !.count = Cardinality(results[r])]]
        <5>1. run'[r] = [run[r] EXCEPT !.status = "completed", !.summary = results[r],
                                       !.count = Cardinality(results[r])]
          BY <1>0, <4>3
        <5>q. QED BY <4>0, <4>3, <5>1 DEF RunState
      <4>q. QED BY <3>2, <4>1, <4>2, <4>3
    <3>q. QED BY <2>4, <3>1, <3>3 DEF RowGoesOn, Active, ActiveStatuses, EvalRunStatus
  <2>q. QED BY <1>5, <2>1, <2>2, <2>3, <2>4
<1>6. ASSUME UNCHANGED <<run, results>> PROVE RowGoesOn(r)
  BY <1>1, <1>6
<1>7. ASSUME NEW s \in Run, StartStep(s)
      PROVE  \/ StartCheck(r) \/ StartCommit(r) \/ StartRateLimited(r)
             \/ RowGoesOn(r)
  BY <1>2, <1>4, <1>6, <1>7 DEF StartStep, StartEnqueue, StartEnqueueFails,
     StartMarkFailedRead, StartMarkFailedUpdate, StartCrash
<1>8. ASSUME NEW w \in Worker, AttemptStep(w) PROVE RowGoesOn(r)
  <2>1. CASE MarkFailedUpdate(w)
    BY <1>4, <2>1 DEF MarkFailedUpdate, TypeOK
  <2>q. QED BY <1>5, <1>6, <1>8, <2>1 DEF AttemptStep, ListCases, ListRecorded, NextCase,
        OverBudget, RecordLookup, MarkFailedRead
<1>9. ASSUME NEW w \in Worker, FaultStep(w) PROVE RowGoesOn(r)
  BY <1>6, <1>9 DEF FaultStep, RunError, MarkFailedFails, Kill, Timeout, Stall
<1>10. ASSUME EditStep PROVE DeleteAgent(r) \/ RowGoesOn(r)
  BY <1>2, <1>3, <1>6, <1>10 DEF EditStep, CreateCase, DeleteCase
<1>11. ASSUME NEW s \in Run, QueueStep(s) PROVE RowGoesOn(r)
  BY <1>6, <1>11 DEF QueueStep, PickUp, GiveUp
<1>12. CASE UNCHANGED vars
  BY <1>6, <1>12 DEF vars
<1>q. QED BY <1>7, <1>8, <1>9, <1>10, <1>11, <1>12 DEF Next

\* The steps an attempt goes on with, by what they make of its record.
Keeps(w) ==
    /\ worker'[w].pc # "idle"
    /\ worker'[w].run = worker[w].run /\ worker'[w].try = worker[w].try
    /\ UNCHANGED queue
Fails(w) == worker'[w].pc = "failing"
Reads(w) ==
    /\ worker'[w].pc = "marking" /\ worker'[w].found = results[worker[w].run]
    /\ UNCHANGED <<run, results>>
Claims(w) ==
    /\ worker'[w].pc = "listing" /\ run'[worker[w].run].status = "running"
    /\ worker[w].pc = "claiming"
Lists(w) ==
    /\ worker'[w].pc = "resuming" /\ worker'[w].todo = LiveCases
    /\ worker[w].pc = "listing"
Resumes(w) ==
    /\ worker[w].pc = "resuming" /\ worker'[w].pc = "next"
    /\ worker'[w].todo = worker[w].todo \ {c \in results[worker[w].run] : case[c] = "live"}
    /\ UNCHANGED results
Leaves(w) ==
    /\ worker[w].pc = "next" /\ worker'[w].pc = "completing"
    /\ Exists(worker[w].run) /\ run[worker[w].run].status # "running"
    /\ UNCHANGED <<run, results>>
Turns(w) ==
    /\ worker[w].pc = "next" /\ worker'[w].pc = "turn"
    /\ worker'[w].case \in worker[w].todo /\ worker'[w].todo = worker[w].todo
    /\ run[worker[w].run].status = "running" /\ UNCHANGED <<run, results>>
Looks(w) ==
    /\ worker[w].pc = "turn" /\ worker'[w].pc = "recording"
    /\ worker'[w].case = worker[w].case /\ worker'[w].todo = worker[w].todo
    /\ UNCHANGED <<run, results>>
Skips(w) ==
    /\ worker[w].pc = "turn" /\ worker'[w].pc = "next"
    /\ case[worker[w].case] # "live" /\ UNCHANGED <<run, results>>
    /\ worker'[w].todo = worker[w].todo \ {worker[w].case}
Records(w) ==
    /\ worker[w].pc = "recording" /\ worker'[w].pc = "next"
    /\ worker'[w].todo = worker[w].todo \ {worker[w].case}
    /\ results' = [results EXCEPT ![worker[w].run] = @ \union {worker[w].case}]

Went(w) ==
    /\ Keeps(w)
    /\ \/ Fails(w) \/ Reads(w) \/ Claims(w) \/ Lists(w) \/ Resumes(w) \/ Leaves(w)
       \/ Turns(w) \/ Looks(w) \/ Skips(w) \/ Records(w)
Ends(w) == worker'[w] = IdleWorker /\ (Finish(w) \/ Requeue(w))
Alone(w) == \A v \in Worker \ {w} : worker'[v] = worker[v]

LEMMA ChangesAlone ==
  ASSUME TypeOK, NEW w \in Worker, NEW s, Step(w, s)
  PROVE  worker'[w] = s /\ Alone(w)
  BY DEF TypeOK, Step, Alone

LEMMA AttemptGoes ==
  ASSUME TypeOK, NEW w \in Worker, AttemptStep(w) \/ FaultStep(w)
  PROVE  /\ worker[w].pc # "idle" /\ worker[w].run \in Run
         /\ UNCHANGED <<case, start>>
         /\ Alone(w) \/ Stall(w)
         /\ Went(w) \/ Ends(w) \/ Stall(w)
<1> DEFINE r == worker[w].run
<1>0. /\ worker[w].pc # "idle" /\ UNCHANGED <<case, start>>
  BY DEF AttemptStep, Claim, ListCases, ListRecorded, NextCase,
         OverBudget, RecordLookup, RecordResult, Complete, MarkFailedRead,
         MarkFailedUpdate, FaultStep, RunError, MarkFailedFails, Kill, Timeout, Stall
<1>1. /\ r \in Run /\ worker[w] \in WorkerState /\ worker \in [Worker -> WorkerState]
      /\ results \in [Run -> SUBSET Case]
  BY <1>0 DEF TypeOK
<1>2. SUFFICES (Went(w) \/ Ends(w) \/ Stall(w)) /\ (Alone(w) \/ Stall(w))
  BY <1>0, <1>1
<1>3. ASSUME Finish(w) \/ Requeue(w) PROVE Ends(w) /\ Alone(w)
  BY <1>1, <1>3 DEF Ends, Alone, Finish, Requeue
<1>4. ASSUME NEW why, Fail(w, why), UNCHANGED queue PROVE Went(w) /\ Alone(w)
  <2>1. Step(w, [worker[w] EXCEPT !.pc = "failing", !.why = why])
    BY <1>4 DEF Fail
  <2>2a. worker'[w] = [worker[w] EXCEPT !.pc = "failing", !.why = why] /\ Alone(w)
    BY <2>1, ChangesAlone
  <2>2. /\ worker'[w].pc = "failing" /\ worker'[w].run = r /\ worker'[w].try = worker[w].try
        /\ Alone(w)
    BY <1>1, <2>2a DEF WorkerState
  <2>q. QED BY <1>4, <2>2 DEF Went, Keeps, Fails
<1>5. CASE Claim(w)
  <2>1. CASE Active(r) /\ Step(w, [worker[w] EXCEPT !.pc = "listing"]) /\ UNCHANGED queue
             /\ run' = [run EXCEPT ![r].status = "running"]
    <3>2a. worker'[w] = [worker[w] EXCEPT !.pc = "listing"] /\ Alone(w)
      BY <2>1, ChangesAlone
    <3>2. /\ worker'[w].pc = "listing" /\ worker'[w].run = r /\ worker'[w].try = worker[w].try
          /\ Alone(w)
      BY <1>1, <3>2a DEF WorkerState
    <3>3. run'[r].status = "running"
      BY <1>1, <2>1 DEF TypeOK, RunState
    <3>4. worker[w].pc = "claiming"
      BY <1>5 DEF Claim
    <3>q. QED BY <2>1, <3>2, <3>3, <3>4 DEF Went, Keeps, Claims
  <2>2. \/ Active(r) /\ Step(w, [worker[w] EXCEPT !.pc = "listing"]) /\ UNCHANGED queue
             /\ run' = [run EXCEPT ![r].status = "running"]
        \/ Finish(w)
        \/ Fail(w, "gone") /\ UNCHANGED queue
    BY <1>5 DEF Claim
  <2>q. QED BY <1>3, <1>4, <2>1, <2>2
<1>6. CASE ListCases(w)
  <2>1. /\ Step(w, [worker[w] EXCEPT !.pc = "resuming", !.todo = LiveCases])
        /\ worker[w].pc = "listing" /\ UNCHANGED queue
    BY <1>6 DEF ListCases
  <2>2a. worker'[w] = [worker[w] EXCEPT !.pc = "resuming", !.todo = LiveCases] /\ Alone(w)
    BY <2>1, ChangesAlone
  <2>2. /\ worker'[w].pc = "resuming" /\ worker'[w].run = r /\ worker'[w].try = worker[w].try
        /\ Alone(w)
    BY <1>1, <2>2a DEF WorkerState
  <2>3. worker'[w].todo = LiveCases
    BY <1>1, <2>2a DEF WorkerState
  <2>q. QED BY <2>1, <2>2, <2>3 DEF Went, Keeps, Lists
<1>7. CASE ListRecorded(w)
  <2>1. CASE Exists(r)
    <3> DEFINE left == worker[w].todo \ {c \in results[r] : case[c] = "live"}
    <3>1. /\ Step(w, [worker[w] EXCEPT !.pc = "next", !.todo = left])
          /\ worker[w].pc = "resuming" /\ UNCHANGED <<queue, results>>
      BY <1>7, <2>1 DEF ListRecorded
    <3> HIDE DEF left
    <3>2a. worker'[w] = [worker[w] EXCEPT !.pc = "next", !.todo = left] /\ Alone(w)
      BY <3>1, ChangesAlone
    <3>2. /\ worker'[w].pc = "next" /\ worker'[w].run = r /\ worker'[w].try = worker[w].try
          /\ Alone(w)
      BY <1>1, <3>2a DEF WorkerState
    <3>3. worker'[w].todo = left
      BY <1>1, <3>2a DEF WorkerState
    <3>q. QED BY <3>1, <3>2, <3>3 DEF Went, Keeps, Resumes, left
  <2>2. CASE ~Exists(r)
    <3>1. Fail(w, "gone") /\ UNCHANGED queue
      BY <1>7, <2>2 DEF ListRecorded
    <3>q. QED BY <1>4, <3>1
  <2>q. QED BY <2>1, <2>2
<1>8. ASSUME NEW c \in Case, NextCase(w, c)
      PROVE  Went(w) /\ Alone(w)
  <2>0. /\ worker[w].pc = "next" /\ c \in worker[w].todo
        /\ UNCHANGED <<queue, run, results>>
    BY <1>8 DEF NextCase
  <2>1. CASE Exists(r) /\ run[r].status # "running"
    <3>1. Step(w, [worker[w] EXCEPT !.pc = "completing"])
      BY <1>8, <2>1 DEF NextCase
    <3>2a. worker'[w] = [worker[w] EXCEPT !.pc = "completing"] /\ Alone(w)
      BY <3>1, ChangesAlone
    <3>2. /\ worker'[w].pc = "completing" /\ worker'[w].run = r /\ worker'[w].try = worker[w].try
          /\ Alone(w)
      BY <1>1, <3>2a DEF WorkerState
    <3>q. QED BY <2>0, <2>1, <3>2 DEF Went, Keeps, Leaves
  <2>2. CASE Exists(r) /\ run[r].status = "running"
    <3>1. Step(w, [worker[w] EXCEPT !.pc = "turn", !.case = c])
      BY <1>8, <2>2 DEF NextCase
    <3>2a. worker'[w] = [worker[w] EXCEPT !.pc = "turn", !.case = c] /\ Alone(w)
      BY <3>1, ChangesAlone
    <3>2. /\ worker'[w].pc = "turn" /\ worker'[w].run = r /\ worker'[w].try = worker[w].try
          /\ Alone(w)
      BY <1>1, <3>2a DEF WorkerState
    <3>3. worker'[w].case = c /\ worker'[w].todo = worker[w].todo
      BY <1>1, <3>2a DEF WorkerState
    <3>q. QED BY <2>0, <2>2, <3>2, <3>3 DEF Went, Keeps, Turns
  <2>3. CASE ~Exists(r)
    <3>1. Fail(w, "gone")
      BY <1>8, <2>3 DEF NextCase
    <3>q. QED BY <1>4, <2>0, <3>1
  <2>q. QED BY <2>1, <2>2, <2>3
<1>9. CASE OverBudget(w)
  <2>1. (Fail(w, "budget") /\ UNCHANGED queue) \/ Requeue(w)
    BY <1>9 DEF OverBudget
  <2>q. QED BY <1>3, <1>4, <2>1
<1>10. CASE RecordLookup(w)
  <2>0. worker[w].pc = "turn" /\ UNCHANGED <<queue, run, results>>
    BY <1>10 DEF RecordLookup
  <2>1. CASE Exists(r) /\ case[worker[w].case] = "live"
    <3>1. Step(w, [worker[w] EXCEPT !.pc = "recording"])
      BY <1>10, <2>1 DEF RecordLookup
    <3>2a. worker'[w] = [worker[w] EXCEPT !.pc = "recording"] /\ Alone(w)
      BY <3>1, ChangesAlone
    <3>2. /\ worker'[w].pc = "recording" /\ worker'[w].run = r /\ worker'[w].try = worker[w].try
          /\ Alone(w)
      BY <1>1, <3>2a DEF WorkerState
    <3>3. worker'[w].case = worker[w].case /\ worker'[w].todo = worker[w].todo
      BY <1>1, <3>2a DEF WorkerState
    <3>q. QED BY <2>0, <3>2, <3>3 DEF Went, Keeps, Looks
  <2>2. CASE Exists(r) /\ case[worker[w].case] # "live"
    <3> DEFINE left == worker[w].todo \ {worker[w].case}
    <3>1. Step(w, [worker[w] EXCEPT !.pc = "next", !.case = NoCase, !.todo = left])
      BY <1>10, <2>2 DEF RecordLookup
    <3> HIDE DEF left
    <3>2a. worker'[w] = [worker[w] EXCEPT !.pc = "next", !.case = NoCase, !.todo = left] /\ Alone(w)
      BY <3>1, ChangesAlone
    <3>2. /\ worker'[w].pc = "next" /\ worker'[w].run = r /\ worker'[w].try = worker[w].try
          /\ Alone(w)
      BY <1>1, <3>2a DEF WorkerState
    <3>3. worker'[w].todo = left
      BY <1>1, <3>2a DEF WorkerState
    <3>q. QED BY <2>0, <2>2, <3>2, <3>3 DEF Went, Keeps, Skips, left
  <2>3. CASE ~Exists(r)
    <3>1. Fail(w, "gone")
      BY <1>10, <2>3 DEF RecordLookup
    <3>q. QED BY <1>4, <2>0, <3>1
  <2>q. QED BY <2>1, <2>2, <2>3
<1>11. CASE RecordResult(w)
  <2> DEFINE left == worker[w].todo \ {worker[w].case}
             recorded == [worker[w] EXCEPT !.pc = "next", !.case = NoCase, !.todo = left]
             entered == results' = [results EXCEPT ![r] = @ \union {worker[w].case}]
  <2>0. worker[w].pc = "recording" /\ UNCHANGED queue
    BY <1>11 DEF RecordResult
  <2>1. \/ Fail(w, "gone") \/ Fail(w, "caseGone")
        \/ Step(w, recorded) /\ entered
        \/ Step(w, recorded) /\ worker[w].case \in results[r] /\ UNCHANGED results
    BY <1>11 DEF RecordResult
  <2>2. worker[w].case \in results[r] /\ UNCHANGED results => entered
    BY <1>1
  <2> HIDE DEF left, entered
  <2>3. CASE Step(w, recorded) /\ entered
    <3>2a. worker'[w] = recorded /\ Alone(w)
      BY <2>3, ChangesAlone
    <3>2. /\ worker'[w].pc = "next" /\ worker'[w].run = r /\ worker'[w].try = worker[w].try
          /\ Alone(w)
      BY <1>1, <3>2a DEF WorkerState
    <3>3. worker'[w].todo = left
      BY <1>1, <3>2a DEF WorkerState
    <3>q. QED BY <2>0, <2>3, <3>2, <3>3 DEF Went, Keeps, Records, left, entered
  <2>q. QED BY <1>4, <2>0, <2>1, <2>2, <2>3
<1>12. CASE Complete(w)
  <2>1. Finish(w) \/ (Fail(w, "gone") /\ UNCHANGED queue)
    BY <1>12 DEF Complete
  <2>q. QED BY <1>3, <1>4, <2>1
<1>13. CASE MarkFailedRead(w)
  <2>1. /\ Step(w, [worker[w] EXCEPT !.pc = "marking", !.found = results[r]])
        /\ UNCHANGED <<queue, run, results>>
    BY <1>13 DEF MarkFailedRead
  <2>2a. worker'[w] = [worker[w] EXCEPT !.pc = "marking", !.found = results[r]] /\ Alone(w)
    BY <2>1, ChangesAlone
  <2>2. /\ worker'[w].pc = "marking" /\ worker'[w].run = r /\ worker'[w].try = worker[w].try
        /\ Alone(w)
    BY <1>1, <2>2a DEF WorkerState
  <2>3. worker'[w].found = results[r]
    BY <1>1, <2>2a DEF WorkerState
  <2>q. QED BY <2>1, <2>2, <2>3 DEF Went, Keeps, Reads
<1>14. CASE MarkFailedUpdate(w) \/ MarkFailedFails(w) \/ Kill(w) \/ Timeout(w)
  <2>1. Finish(w) \/ Requeue(w)
    BY <1>14 DEF MarkFailedUpdate, MarkFailedFails, Kill, Timeout
  <2>q. QED BY <1>3, <2>1
<1>15. CASE RunError(w)
  <2>1. Fail(w, "error") /\ UNCHANGED queue
    BY <1>15 DEF RunError
  <2>q. QED BY <1>4, <2>1
<1>q. QED BY <1>0, <1>1, <1>5, <1>6, <1>7, <1>8, <1>9, <1>10, <1>11, <1>12, <1>13, <1>14,
          <1>15 DEF AttemptStep, FaultStep

\* What the other steps may do to an attempt, to a case and to a job.
LEMMA WorkersGo ==
  ASSUME TypeOK, [Next]_vars, NEW w \in Worker
  PROVE  \/ worker'[w] = worker[w]
         \/ /\ worker[w].pc # "idle" /\ worker[w].run \in Run
            /\ UNCHANGED <<case, start>>
            /\ Went(w) \/ Ends(w)
         \/ \E r \in Run : PickUp(w, r)
<1>1. ASSUME NEW v \in Worker, AttemptStep(v) \/ FaultStep(v)
      PROVE  \/ worker'[w] = worker[w]
             \/ /\ worker[w].pc # "idle" /\ worker[w].run \in Run
                /\ UNCHANGED <<case, start>>
                /\ Went(w) \/ Ends(w)
  <2>1. /\ worker[v].pc # "idle" /\ worker[v].run \in Run
        /\ UNCHANGED <<case, start>>
        /\ Alone(v) \/ Stall(v)
        /\ Went(v) \/ Ends(v) \/ Stall(v)
    BY <1>1, AttemptGoes
  <2>2. CASE Stall(v)
    BY <2>2 DEF Stall
  <2>3. CASE v # w /\ Alone(v)
    BY <2>3 DEF Alone
  <2>q. QED BY <2>1, <2>2, <2>3
<1>2. ASSUME NEW v \in Worker, NEW r \in Run, PickUp(v, r), v # w
      PROVE  worker'[w] = worker[w]
  <2>1. \E s : Step(v, s)
    BY <1>2 DEF PickUp
  <2>2. Alone(v)
    BY <2>1, ChangesAlone
  <2>q. QED BY <1>2, <2>2 DEF Alone
<1>3. ASSUME NEW r \in Run, StartStep(r) PROVE UNCHANGED worker
  BY <1>3 DEF StartStep, StartCheck, StartCommit, StartRateLimited, StartEnqueue,
     StartEnqueueFails, StartMarkFailedRead, StartMarkFailedUpdate, StartCrash
<1>4. ASSUME EditStep PROVE UNCHANGED worker
  BY <1>4 DEF EditStep, Cancel, DeleteAgent, CreateCase, DeleteCase
<1>5. ASSUME NEW r \in Run, GiveUp(r) PROVE UNCHANGED worker
  BY <1>5 DEF GiveUp
<1>6. CASE UNCHANGED vars
  BY <1>6 DEF vars
<1>q. QED BY <1>1, <1>2, <1>3, <1>4, <1>5, <1>6 DEF Next, QueueStep

LEMMA CasesGoOn ==
  ASSUME TypeOK, [Next]_vars, NEW c \in Case
  PROVE  \/ case'[c] = case[c]
         \/ case[c] = "unborn" /\ case'[c] = "live"
         \/ case[c] = "live" /\ case'[c] = "deleted"
<1>1. ASSUME NEW r \in Run, StartStep(r) PROVE UNCHANGED case
  BY <1>1 DEF StartStep, StartCheck, StartCommit, StartRateLimited, StartEnqueue,
     StartEnqueueFails, StartMarkFailedRead, StartMarkFailedUpdate, StartCrash
<1>2. ASSUME NEW r \in Run, QueueStep(r) PROVE UNCHANGED case
  BY <1>2 DEF QueueStep, PickUp, GiveUp
<1>3. ASSUME NEW w \in Worker, AttemptStep(w) \/ FaultStep(w) PROVE UNCHANGED case
  BY <1>3, AttemptGoes
<1>4. ASSUME NEW r \in Run, Cancel(r) \/ DeleteAgent(r) PROVE UNCHANGED case
  BY <1>4 DEF Cancel, DeleteAgent
<1>5. ASSUME NEW d \in Case, CreateCase(d) \/ DeleteCase(d)
      PROVE  \/ case'[c] = case[c]
             \/ case[c] = "unborn" /\ case'[c] = "live"
             \/ case[c] = "live" /\ case'[c] = "deleted"
  BY <1>5 DEF CreateCase, DeleteCase, TypeOK
<1>6. CASE UNCHANGED vars
  BY <1>6 DEF vars
<1>q. QED BY <1>1, <1>2, <1>3, <1>4, <1>5, <1>6 DEF Next, EditStep

\* The request of the run is past its commit and has queued the job.
Past(r) == start[r].pc \notin {"idle", "checked", "committed"}

LEMMA JobsGoOn ==
  ASSUME TypeOK, [Next]_vars, NEW r \in Run
  PROVE  /\ queue[r].pc # "none" => queue'[r].pc # "none"
         /\ Past(r) => Past(r)'
         /\ \/ queue[r].pc # "none"
            \/ queue'[r].pc = "none"
            \/ Past(r)'
            \/ \E w \in Worker : worker[w].pc # "idle" /\ worker[w].run = r
<1>0. queue \in [Run -> QueueState] /\ start \in [Run -> StartState]
  BY DEF TypeOK
<1>1. ASSUME NEW s \in Run, StartStep(s)
      PROVE  /\ queue[r].pc # "none" => queue'[r].pc # "none"
             /\ Past(r) => Past(r)'
             /\ queue[r].pc # "none" \/ queue'[r].pc = "none" \/ Past(r)'
  <2>1. CASE StartCheck(s) \/ StartCommit(s) \/ StartRateLimited(s)
             \/ StartMarkFailedRead(s) \/ StartMarkFailedUpdate(s) \/ StartCrash(s)
    BY <1>0, <2>1 DEF StartCheck, StartCommit, StartRateLimited, StartMarkFailedRead,
       StartMarkFailedUpdate, StartCrash, StartState, Past
  <2>2. CASE StartEnqueue(s) \/ StartEnqueueFails(s)
    <3>1. /\ queue' = queue \/ queue' = [queue EXCEPT ![s].pc = "queued"]
          /\ \/ start' = [start EXCEPT ![s].pc = "accepted"]
             \/ start' = [start EXCEPT ![s].pc = "failing"]
      BY <2>2 DEF StartEnqueue, StartEnqueueFails
    <3>2. CASE r = s
      BY <1>0, <3>1, <3>2 DEF QueueState, StartState, Past
    <3>3. CASE r # s
      BY <1>0, <3>1, <3>3 DEF Past
    <3>q. QED BY <3>2, <3>3
  <2>q. QED BY <1>1, <2>1, <2>2 DEF StartStep
<1>2. ASSUME NEW s \in Run, QueueStep(s)
      PROVE  /\ queue[r].pc # "none" <=> queue'[r].pc # "none"
             /\ UNCHANGED start
  <2>1. ASSUME NEW w \in Worker, PickUp(w, s)
        PROVE  queue[r].pc # "none" <=> queue'[r].pc # "none"
    BY <1>0, <2>1 DEF PickUp
  <2>2. CASE GiveUp(s)
    BY <1>0, <2>2 DEF GiveUp, QueueState
  <2>q. QED BY <1>2, <2>1, <2>2 DEF QueueStep, PickUp, GiveUp
<1>3. ASSUME NEW w \in Worker, AttemptStep(w) \/ FaultStep(w)
      PROVE  /\ queue[r].pc # "none" => queue'[r].pc # "none"
             /\ UNCHANGED start
             /\ queue'[r] = queue[r] \/ (worker[w].pc # "idle" /\ worker[w].run = r)
  <2>1. /\ worker[w].pc # "idle" /\ worker[w].run \in Run /\ UNCHANGED start
        /\ Went(w) \/ Ends(w) \/ Stall(w)
    BY <1>3, AttemptGoes
  <2>2. \/ UNCHANGED queue
        \/ \E pc \in {"done", "queued"} : queue' = [queue EXCEPT ![worker[w].run].pc = pc]
    BY <2>1 DEF Went, Keeps, Ends, Finish, Requeue, Stall
  <2>3. CASE r = worker[w].run
    BY <1>0, <2>1, <2>2, <2>3 DEF QueueState
  <2>4. CASE r # worker[w].run
    BY <1>0, <2>1, <2>2, <2>4
  <2>q. QED BY <2>3, <2>4
<1>4. ASSUME EditStep PROVE UNCHANGED <<queue, start>>
  BY <1>4 DEF EditStep, Cancel, DeleteAgent, CreateCase, DeleteCase
<1>5. CASE UNCHANGED vars
  BY <1>5 DEF vars, Past
<1>q. QED BY <1>1, <1>2, <1>3, <1>4, <1>5 DEF Next, Past

LEMMA QueuedStep == ASSUME TypeOK, TypeOK', Queued, [Next]_vars PROVE Queued'
<1>1. ASSUME NEW r \in Run, queue'[r].pc # "none" PROVE Past(r)'
  BY <1>1, JobsGoOn DEF Queued, Past
<1>2. ASSUME NEW w \in Worker, worker'[w].pc # "idle"
      PROVE  queue'[worker'[w].run].pc # "none"
  <2>1. CASE worker'[w] = worker[w]
    BY <1>2, <2>1, JobsGoOn DEF Queued, TypeOK
  <2>2. CASE worker[w].pc # "idle" /\ worker[w].run \in Run /\ Went(w)
    BY <2>2, JobsGoOn DEF Queued, Went, Keeps
  <2>3. ASSUME NEW r \in Run, PickUp(w, r) PROVE queue'[worker'[w].run].pc # "none"
    <3>1. worker'[w] = [IdleWorker EXCEPT !.pc = "claiming", !.run = r,
                                          !.try = queue[r].tries + 1]
      BY <2>3, ChangesAlone DEF PickUp
    <3>2. worker'[w].run = r
      BY <3>1 DEF IdleWorker
    <3>3. queue'[r].pc = "running"
      BY <2>3 DEF PickUp, TypeOK
    <3>q. QED BY <3>2, <3>3
  <2>q. QED BY <1>2, <2>1, <2>2, <2>3, WorkersGo DEF Ends, IdleWorker
<1>q. QED BY <1>1, <1>2 DEF Queued, Past

LEMMA CoverInit == Init => CoverInv
  BY RunInit DEF Init, CoverInv, Queued, CasesAreBorn, Claimed, Covers, Loop, NoRow,
     IdleWorker, CompletedCoversItsCases

\* A run whose job is queued keeps its cases and results, unless it is deleted.
LEMMA AttemptedRowsGoOn ==
  ASSUME CoverInv, [Next]_vars, NEW w \in Worker, worker[w].pc # "idle"
  PROVE  LET r == worker[w].run IN
         /\ r \in Run
         /\ RowGoesOn(r) \/ (run'[r].cases = {} /\ run'[r].status = "deleted")
<1> DEFINE r == worker[w].run
<1>1. r \in Run /\ Past(r) /\ run \in [Run -> RunState]
  BY DEF CoverInv, RunInv, TypeOK, Queued, Past
<1>2. ~StartCheck(r) /\ ~StartCommit(r) /\ ~StartRateLimited(r)
  BY <1>1 DEF Past, StartCheck, StartCommit, StartRateLimited
<1>3. DeleteAgent(r) => run'[r].cases = {} /\ run'[r].status = "deleted"
  BY <1>1 DEF DeleteAgent, NoRow
<1>q. QED BY <1>1, <1>2, <1>3, RowsGoOn DEF CoverInv, RunInv

LEMMA CasesAreBornStep ==
  ASSUME CoverInv, [Next]_vars
  PROVE  CasesAreBorn'
<1> SUFFICES ASSUME NEW r \in Run, NEW c \in run'[r].cases PROVE case'[c] # "unborn"
  BY DEF CasesAreBorn
<1>1. TypeOK /\ TypeOK' /\ run \in [Run -> RunState]
  BY TypedStep DEF CoverInv, RunInv, TypeOK
<1>2. c \in Case
  BY <1>1 DEF TypeOK, RunState
<1>3. c \in run[r].cases => case'[c] # "unborn"
  BY <1>1, <1>2, CasesGoOn DEF CoverInv, CasesAreBorn
<1>4. CASE StartCheck(r)
  <2>1. run'[r].cases = LiveCases /\ UNCHANGED case
    BY <1>1, <1>4 DEF StartCheck, RunState
  <2>q. QED BY <2>1 DEF LiveCases
<1>5. CASE StartCommit(r)
  BY <1>1, <1>3, <1>5 DEF StartCommit, RunState
<1>6. CASE StartRateLimited(r) \/ DeleteAgent(r)
  BY <1>1, <1>6 DEF StartRateLimited, DeleteAgent, NoRow
<1>q. QED BY <1>1, <1>3, <1>4, <1>5, <1>6, RowsGoOn DEF RowGoesOn

LEMMA ClaimedStep ==
  ASSUME CoverInv, [Next]_vars, NEW w \in Worker
  PROVE  Claimed(w)'
<1> DEFINE r == worker[w].run
<1>1. TypeOK /\ Claimed(w)
  BY DEF CoverInv, RunInv
<1>2. ASSUME worker[w].pc \in Loop PROVE run'[r].status # "pending"
  <2>1. worker[w].pc # "idle"
    BY <1>2 DEF Loop
  <2>q. QED BY <1>1, <1>2, <2>1, AttemptedRowsGoOn DEF Claimed, RowGoesOn
<1>3. CASE worker'[w] = worker[w]
  <2>1. ASSUME worker[w].pc = "completing" PROVE run'[r].status \notin ActiveStatuses
    <3>1. ~Active(r)
      BY <1>1, <2>1 DEF Claimed
    <3>2. \/ RowGoesOn(r)
          \/ run'[r].status = "deleted"
      BY <2>1, AttemptedRowsGoOn
    <3>q. QED BY <3>1, <3>2 DEF RowGoesOn, Active, ActiveStatuses
  <2>q. QED BY <1>2, <1>3, <2>1 DEF Claimed, Active
<1>4. CASE worker[w].pc # "idle" /\ Went(w)
  <2>1. worker'[w].run = r
    BY <1>4 DEF Went, Keeps
  <2>2. CASE Fails(w) \/ Reads(w)
    BY <2>2 DEF Fails, Reads, Claimed, Loop
  <2>3. CASE Claims(w)
    BY <2>1, <2>3 DEF Claims, Claimed
  <2>4. CASE Lists(w) \/ Resumes(w) \/ Turns(w) \/ Looks(w) \/ Skips(w) \/ Records(w)
    <3>1. worker[w].pc \in Loop /\ worker'[w].pc # "completing"
      BY <2>4 DEF Lists, Resumes, Turns, Looks, Skips, Records, Loop
    <3>q. QED BY <1>2, <2>1, <3>1 DEF Claimed
  <2>5. CASE Leaves(w)
    <3>1. /\ run[r].status \notin {"pending", "running"} /\ UNCHANGED run
      BY <1>1, <2>5 DEF Leaves, Claimed, Loop
    <3>q. QED BY <2>1, <3>1 DEF Claimed, Active, ActiveStatuses
  <2>q. QED BY <1>4, <2>2, <2>3, <2>4, <2>5 DEF Went
<1>5. CASE Ends(w)
  BY <1>5 DEF Ends, IdleWorker, Claimed, Loop
<1>6. ASSUME NEW s \in Run, PickUp(w, s) PROVE Claimed(w)'
  <2>1. worker'[w] = [IdleWorker EXCEPT !.pc = "claiming", !.run = s,
                                        !.try = queue[s].tries + 1]
    BY <1>1, <1>6, ChangesAlone DEF PickUp
  <2>2. worker'[w].pc = "claiming"
    BY <2>1 DEF IdleWorker
  <2>q. QED BY <2>2 DEF Claimed, Loop
<1>q. QED BY <1>1, <1>3, <1>4, <1>5, <1>6, WorkersGo

LEMMA CoversStep ==
  ASSUME CoverInv, [Next]_vars, NEW w \in Worker
  PROVE  Covers(w)'
<1> DEFINE r == worker[w].run
<1>1. TypeOK /\ TypeOK' /\ Covers(w)
  BY TypedStep DEF CoverInv, RunInv
<1>2. SUFFICES ASSUME worker'[w].pc \in {"resuming", "next", "turn", "recording"},
                      NEW c \in run'[worker'[w].run].cases, case'[c] = "live"
               PROVE  c \in worker'[w].todo \union results'[worker'[w].run]
  BY DEF Covers
<1>3. ASSUME worker[w].pc # "idle", worker'[w].run = r
      PROVE  /\ r \in Run /\ c \in Case /\ case[c] = "live" /\ c \in run[r].cases
             /\ results[r] \subseteq results'[r]
  <2>1. RowGoesOn(r) /\ r \in Run
    BY <1>2, <1>3, AttemptedRowsGoOn
  <2>2. c \in run[r].cases /\ results[r] \subseteq results'[r]
    BY <1>2, <1>3, <2>1 DEF RowGoesOn
  <2>3. c \in Case
    BY <1>1, <2>1, <2>2 DEF TypeOK, RunState
  <2>4. case[c] # "unborn"
    BY <2>1, <2>2 DEF CoverInv, CasesAreBorn
  <2>q. QED BY <1>1, <1>2, <2>1, <2>2, <2>3, <2>4, CasesGoOn
<1>4. CASE worker'[w] = worker[w]
  BY <1>1, <1>2, <1>3, <1>4 DEF Covers
<1>5. CASE worker[w].pc # "idle" /\ Went(w)
  <2>1. worker'[w].run = r
    BY <1>5 DEF Went, Keeps
  <2>2. c \in Case /\ r \in Run /\ case[c] = "live" /\ c \in run[r].cases
        /\ results[r] \subseteq results'[r]
    BY <1>3, <1>5, <2>1
  <2>3. ASSUME worker[w].pc \in {"resuming", "next", "turn", "recording"}
        PROVE  c \in worker[w].todo \union results[r]
    BY <1>1, <2>2, <2>3 DEF Covers
  <2>4. CASE Lists(w)
    BY <2>1, <2>2, <2>4 DEF Lists, LiveCases
  <2>5. CASE Resumes(w)
    BY <2>1, <2>2, <2>3, <2>5 DEF Resumes
  <2>6. CASE Turns(w) \/ Looks(w)
    BY <2>1, <2>2, <2>3, <2>6 DEF Turns, Looks
  <2>7. CASE Skips(w)
    BY <2>1, <2>2, <2>3, <2>7 DEF Skips
  <2>8. CASE Records(w)
    <3>1. results'[r] = results[r] \union {worker[w].case}
      BY <1>1, <2>2, <2>8 DEF Records, TypeOK
    <3>q. QED BY <2>1, <2>2, <2>3, <2>8, <3>1 DEF Records
  <2>9. ~Fails(w) /\ ~Reads(w) /\ ~Claims(w) /\ ~Leaves(w)
    BY <1>2 DEF Fails, Reads, Claims, Leaves
  <2>q. QED BY <1>5, <2>4, <2>5, <2>6, <2>7, <2>8, <2>9 DEF Went
<1>6. ~Ends(w)
  BY <1>2 DEF Ends, IdleWorker
<1>7. ASSUME NEW s \in Run, PickUp(w, s) PROVE FALSE
  <2>1. worker'[w] = [IdleWorker EXCEPT !.pc = "claiming", !.run = s,
                                        !.try = queue[s].tries + 1]
    BY <1>1, <1>7, ChangesAlone DEF PickUp
  <2>2. worker'[w].pc = "claiming"
    BY <2>1 DEF IdleWorker
  <2>q. QED BY <1>2, <2>2
<1>q. QED BY <1>1, <1>4, <1>5, <1>6, <1>7, WorkersGo

LEMMA CompletionCovers ==
  ASSUME CoverInv, [Next]_vars
  PROVE  CompletedCoversItsCases'
<1>1. /\ TypeOK /\ TypeOK' /\ run \in [Run -> RunState] /\ CompletedCoversItsCases
      /\ CasesAreBorn /\ UnstartedIsAbsent
  BY TypedStep DEF CoverInv, RunInv, TypeOK
<1> SUFFICES ASSUME NEW r \in Run, run'[r].status = "completed",
                    NEW c \in run'[r].cases, case'[c] = "live"
             PROVE  c \in results'[r]
  BY DEF CompletedCoversItsCases
<1>2. RowGoesOn(r)
  <2>1. StartCheck(r) => run'[r].status = "absent"
    BY <1>1 DEF StartCheck, RunState, UnstartedIsAbsent
  <2>2. StartCommit(r) => run'[r].status = "pending"
    BY <1>1 DEF StartCommit, RunState
  <2>3. StartRateLimited(r) => run'[r].status = "absent"
    BY <1>1 DEF StartRateLimited, NoRow
  <2>4. DeleteAgent(r) => run'[r].status = "deleted"
    BY <1>1 DEF DeleteAgent, NoRow
  <2>q. QED BY <1>1, <2>1, <2>2, <2>3, <2>4, RowsGoOn
<1>3. c \in run[r].cases /\ c \in Case
  BY <1>1, <1>2 DEF RowGoesOn, RunState
<1>4. case[c] = "live"
  BY <1>1, <1>3, CasesGoOn DEF CasesAreBorn
<1>5. c \in results[r]
  <2>1. CASE run[r].status = "completed"
    BY <1>1, <1>3, <1>4, <2>1 DEF CompletedCoversItsCases
  <2>2. ASSUME NEW w \in Worker, Complete(w), worker[w].run = r, run[r].status = "running"
        PROVE  c \in results[r]
    <3>1. Claimed(w) /\ Covers(w)
      BY DEF CoverInv
    <3>2. worker[w].pc = "next" /\ worker[w].todo = {}
      BY <2>2, <3>1 DEF Complete, Claimed, Active, ActiveStatuses
    <3>q. QED BY <1>3, <1>4, <2>2, <3>1, <3>2 DEF Covers
  <2>q. QED BY <1>2, <2>1, <2>2 DEF RowGoesOn
<1>q. QED BY <1>2, <1>5 DEF RowGoesOn

LEMMA CoverStep == ASSUME CoverInv, [Next]_vars PROVE CoverInv'
<1>1. RunInv' /\ TypeOK'
  BY RunStep, TypedStep DEF CoverInv, RunInv
<1>2. Queued'
  BY <1>1, QueuedStep DEF CoverInv, RunInv
<1>3. \A w \in Worker : Claimed(w)' /\ Covers(w)'
  BY ClaimedStep, CoversStep
<1>q. QED BY <1>1, <1>2, <1>3, CasesAreBornStep, CompletionCovers DEF CoverInv

\* A completed run has a result for each of its cases the dataset still has,
\* whatever kills, stalls, hand-offs and edits came between.  (run_evaluation's
\* loop; complete_run; CompletedCoversItsCases, with no hypothesis on the faults.)
THEOREM CompletionIsWhole == Spec => []CompletedCoversItsCases
<1>1. CoverInv => CompletedCoversItsCases
  BY DEF CoverInv
<1>q. QED BY CoverInit, CoverStep, <1>1, PTL DEF Spec

-----------------------------------------------------------------------------
(* A resumed attempt pays for no case that has its result *)

\* Without a stall a job has one attempt at a time, and arq knows of it.
OneAttempt ==
    /\ \A w \in Worker : worker[w].pc # "idle" => queue[worker[w].run].pc = "running"
    /\ \A v, w \in Worker :
         worker[v].pc # "idle" /\ worker[w].pc # "idle" /\ worker[v].run = worker[w].run
            => v = w

\* Of the cases an attempt has still to do, those with a result are gone.
Fresh(w) ==
    /\ worker[w].pc \in {"resuming", "next", "turn", "recording"} =>
          \A c \in worker[w].todo : case[c] # "unborn"
    /\ worker[w].pc \in {"next", "turn", "recording"} =>
          \A c \in worker[w].todo : c \in results[worker[w].run] => case[c] = "deleted"
    /\ worker[w].pc \in {"turn", "recording"} => worker[w].case \in worker[w].todo

ResumeInv == CoverInv /\ OneAttempt /\ \A w \in Worker : Fresh(w)

LEMMA PickUpFields ==
  ASSUME TypeOK, NEW w \in Worker, NEW r \in Run, PickUp(w, r)
  PROVE  /\ worker'[w].pc = "claiming" /\ worker'[w].run = r
         /\ worker'[w].try = queue[r].tries + 1
         /\ Alone(w)
         /\ queue[r].pc = "queued" /\ queue'[r].pc = "running"
         /\ queue'[r].tries = queue[r].tries + 1
         /\ \A s \in Run \ {r} : queue'[s] = queue[s]
<1>1. /\ worker'[w] = [IdleWorker EXCEPT !.pc = "claiming", !.run = r,
                                         !.try = queue[r].tries + 1]
      /\ Alone(w)
  BY ChangesAlone DEF PickUp
<1>2. /\ worker'[w].pc = "claiming" /\ worker'[w].run = r
      /\ worker'[w].try = queue[r].tries + 1
  BY <1>1 DEF IdleWorker
<1>q. QED BY <1>1, <1>2 DEF PickUp, TypeOK

\* A request or GiveUp leaves a job that is being attempted alone.
LEMMA AttemptedJobsGoOn ==
  ASSUME CoverInv, OneAttempt, NEW r \in Run, queue[r].pc = "running",
         \/ \E s \in Run : StartStep(s) \/ GiveUp(s)
         \/ EditStep \/ UNCHANGED vars
  PROVE  queue'[r] = queue[r] /\ UNCHANGED worker
<1>1. Past(r) /\ queue \in [Run -> QueueState]
  BY DEF CoverInv, RunInv, TypeOK, Queued, Past
<1>2. ASSUME NEW s \in Run, StartStep(s) PROVE queue'[r] = queue[r] /\ UNCHANGED worker
  <2>1. CASE StartEnqueue(s) \/ StartEnqueueFails(s)
    <3>1. s # r
      BY <1>1, <2>1 DEF StartEnqueue, StartEnqueueFails, Past
    <3>q. QED BY <1>1, <2>1, <3>1 DEF StartEnqueue, StartEnqueueFails
  <2>q. QED BY <1>2, <2>1 DEF StartStep, StartCheck, StartCommit, StartRateLimited,
        StartMarkFailedRead, StartMarkFailedUpdate, StartCrash
<1>3. ASSUME NEW s \in Run, GiveUp(s) PROVE queue'[r] = queue[r] /\ UNCHANGED worker
  BY <1>1, <1>3 DEF GiveUp
<1>4. EditStep \/ UNCHANGED vars => UNCHANGED <<queue, worker>>
  BY DEF EditStep, Cancel, DeleteAgent, CreateCase, DeleteCase, vars
<1>q. QED BY <1>2, <1>3, <1>4

LEMMA OneAttemptStep ==
  ASSUME CoverInv, OneAttempt, [Next]_vars, "stall" \notin Faults
  PROVE  OneAttempt'
<1>0. TypeOK /\ queue \in [Run -> QueueState]
  BY DEF CoverInv, RunInv, TypeOK
<1>r. \A w \in Worker : worker[w].pc # "idle" =>
         worker[w].run \in Run /\ queue[worker[w].run].pc = "running"
  BY <1>0 DEF TypeOK, OneAttempt
<1>1. ASSUME \/ \E s \in Run : StartStep(s) \/ GiveUp(s)
             \/ EditStep \/ UNCHANGED vars
      PROVE  OneAttempt'
  <2>1. CASE \E w \in Worker : worker[w].pc # "idle"
    <3>1. UNCHANGED worker
      BY <1>1, <1>r, <2>1, AttemptedJobsGoOn
    <3>2. \A w \in Worker : worker[w].pc # "idle" =>
             queue'[worker[w].run] = queue[worker[w].run]
      BY <1>1, <1>r, AttemptedJobsGoOn
    <3>q. QED BY <1>r, <3>1, <3>2 DEF OneAttempt
  <2>2. CASE \A w \in Worker : worker[w].pc = "idle"
    <3>1. UNCHANGED worker
      BY <1>1 DEF StartStep, StartCheck, StartCommit, StartRateLimited, StartEnqueue,
         StartEnqueueFails, StartMarkFailedRead, StartMarkFailedUpdate, StartCrash,
         GiveUp, EditStep, Cancel, DeleteAgent, CreateCase, DeleteCase, vars
    <3>q. QED BY <2>2, <3>1 DEF OneAttempt
  <2>q. QED BY <2>1, <2>2
<1>2. ASSUME NEW w \in Worker, NEW r \in Run, PickUp(w, r) PROVE OneAttempt'
  <2>1. /\ worker'[w].run = r /\ queue[r].pc = "queued" /\ queue'[r].pc = "running"
        /\ \A v \in Worker \ {w} : worker'[v] = worker[v]
        /\ \A s \in Run \ {r} : queue'[s] = queue[s]
    BY <1>0, <1>2, PickUpFields DEF Alone
  <2>2. \A v \in Worker \ {w} : worker'[v].pc # "idle" =>
           worker'[v].run # r /\ queue'[worker'[v].run].pc = "running"
    BY <1>r, <2>1
  <2>q. QED BY <2>1, <2>2 DEF OneAttempt
<1>3. ASSUME NEW w \in Worker, AttemptStep(w) \/ FaultStep(w) PROVE OneAttempt'
  <2>1. /\ worker[w].pc # "idle" /\ worker[w].run \in Run
        /\ \A v \in Worker \ {w} : worker'[v] = worker[v]
        /\ Went(w) \/ Ends(w)
    <3>1. ~Stall(w)
      BY DEF Stall, Fault
    <3>q. QED BY <1>3, <3>1, AttemptGoes, <1>0 DEF Alone
  <2>2. CASE Went(w)
    <3>1. UNCHANGED queue /\ worker'[w].run = worker[w].run
      BY <2>2 DEF Went, Keeps
    <3>q. QED BY <2>1, <3>1 DEF OneAttempt
  <2>3. CASE Ends(w)
    <3>1. worker'[w].pc = "idle"
      BY <2>3 DEF Ends, IdleWorker
    <3>2. \A s \in Run : s # worker[w].run => queue'[s] = queue[s]
      BY <1>0, <2>1, <2>3 DEF Ends, Finish, Requeue
    <3>3. \A v \in Worker \ {w} : worker[v].pc # "idle" => worker[v].run # worker[w].run
      BY <2>1 DEF OneAttempt
    <3>q. QED BY <1>r, <2>1, <3>1, <3>2, <3>3 DEF OneAttempt
  <2>q. QED BY <2>1, <2>2, <2>3
<1>q. QED BY <1>1, <1>2, <1>3 DEF Next, QueueStep

\* Only record_result adds to the results of a run.
LEMMA ResultsGoOn ==
  ASSUME TypeOK, [Next]_vars, NEW r \in Run
  PROVE  \/ results'[r] \subseteq results[r]
         \/ \E v \in Worker : RecordResult(v) /\ worker[v].run = r
<1>1. ASSUME NEW s \in Run, StartStep(s) PROVE UNCHANGED results
  BY <1>1 DEF StartStep, StartCheck, StartCommit, StartRateLimited, StartEnqueue,
     StartEnqueueFails, StartMarkFailedRead, StartMarkFailedUpdate, StartCrash
<1>2. ASSUME NEW s \in Run, QueueStep(s) PROVE UNCHANGED results
  BY <1>2 DEF QueueStep, PickUp, GiveUp
<1>3. ASSUME NEW w \in Worker, AttemptStep(w) \/ FaultStep(w)
      PROVE  \/ results'[r] \subseteq results[r]
             \/ RecordResult(w) /\ worker[w].run = r
  <2>1. CASE RecordResult(w)
    <3>1. worker[w].run \in Run
      BY <2>1 DEF RecordResult, TypeOK
    <3>q. QED BY <2>1, <3>1 DEF RecordResult, TypeOK
  <2>2. CASE ~RecordResult(w)
    BY <1>3, <2>2 DEF AttemptStep, Claim, ListCases, ListRecorded, NextCase,
         OverBudget, RecordLookup, Complete, MarkFailedRead,
         MarkFailedUpdate, FaultStep, RunError, MarkFailedFails, Kill, Timeout, Stall
  <2>q. QED BY <2>1, <2>2
<1>4. EditStep => results'[r] \subseteq results[r]
  BY DEF EditStep, Cancel, DeleteAgent, CreateCase, DeleteCase, TypeOK
<1>5. UNCHANGED vars => UNCHANGED results
  BY DEF vars
<1>q. QED BY <1>1, <1>2, <1>3, <1>4, <1>5 DEF Next

LEMMA FreshStep ==
  ASSUME ResumeInv, [Next]_vars, NEW w \in Worker
  PROVE  Fresh(w)'
<1> DEFINE r == worker[w].run
<1>1. /\ TypeOK /\ TypeOK' /\ Fresh(w) /\ OneAttempt
      /\ worker[w] \in WorkerState /\ worker'[w] \in WorkerState
  BY TypedStep DEF ResumeInv, CoverInv, RunInv, TypeOK
<1>2. CASE worker'[w] = worker[w]
  <2>1. CASE worker[w].pc \in {"resuming", "next", "turn", "recording"}
    <3>1. \A c \in worker[w].todo : c \in Case /\ case[c] # "unborn"
      BY <1>1, <2>1 DEF Fresh, WorkerState
    <3>2. \A c \in worker[w].todo : case'[c] # "unborn"
                                    /\ (case[c] = "deleted" => case'[c] = "deleted")
      BY <1>1, <3>1, CasesGoOn
    <3>3. ASSUME worker[w].pc # "resuming" PROVE results'[r] \subseteq results[r]
      <4>1. r \in Run
        BY <1>1, <2>1 DEF TypeOK
      <4>2. ASSUME NEW v \in Worker, RecordResult(v), worker[v].run = r PROVE FALSE
        <5>1. worker[v].pc = "recording"
          BY <4>2 DEF RecordResult
        <5>2. v = w
          BY <1>1, <2>1, <4>2, <5>1 DEF OneAttempt
        <5>3. worker[w].pc = "recording" /\ RecordResult(w)
          BY <4>2, <5>1, <5>2
        <5>4. Went(w) \/ Ends(w) \/ Stall(w)
          BY <1>1, <5>3, AttemptGoes DEF AttemptStep
        <5>5. ~Stall(w)
          <6>1. UNCHANGED queue
            BY <5>3 DEF RecordResult
          <6>2. queue \in [Run -> QueueState]
            BY <1>1 DEF TypeOK
          <6>3. Stall(w) => queue[r].pc = "running" /\ queue'[r].pc = "queued"
            BY <4>1, <6>2 DEF Stall, QueueState
          <6>q. QED BY <6>1, <6>3
        <5>6. ~Ends(w)
          BY <1>2, <5>3 DEF Ends, IdleWorker
        <5>7. worker'[w].pc = "recording"
          BY <1>2, <5>3
        <5>8. ~Went(w)
          BY <5>3, <5>7 DEF Went, Fails, Reads, Claims, Lists, Resumes, Leaves, Turns,
             Looks, Skips, Records
        <5>q. QED BY <5>4, <5>5, <5>6, <5>8
      <4>q. QED BY <1>1, <4>1, <4>2, ResultsGoOn
    <3>q. QED BY <1>1, <1>2, <2>1, <3>2, <3>3 DEF Fresh
  <2>2. CASE worker[w].pc \notin {"resuming", "next", "turn", "recording"}
    BY <1>2, <2>2 DEF Fresh
  <2>q. QED BY <2>1, <2>2
<1>3. CASE worker[w].pc # "idle" /\ r \in Run /\ UNCHANGED case /\ Went(w)
  <2>1. worker'[w].run = r
    BY <1>3 DEF Went, Keeps
  <2>2. \A c \in worker[w].todo : c \in Case /\ case[c] \in {"unborn", "live", "deleted"}
    BY <1>1 DEF WorkerState, TypeOK
  <2>3. CASE Fails(w) \/ Reads(w) \/ Claims(w) \/ Leaves(w)
    BY <2>3 DEF Fails, Reads, Claims, Leaves, Fresh
  <2>4. CASE Lists(w)
    BY <1>3, <2>4 DEF Lists, LiveCases, Fresh
  <2>5. CASE Resumes(w)
    BY <1>1, <1>3, <2>1, <2>2, <2>5 DEF Resumes, Fresh
  <2>6. CASE Turns(w) \/ Looks(w)
    BY <1>1, <1>3, <2>1, <2>6 DEF Turns, Looks, Fresh
  <2>7. CASE Skips(w)
    BY <1>1, <1>3, <2>1, <2>7 DEF Skips, Fresh
  <2>8. CASE Records(w)
    <3>1. results'[r] = results[r] \union {worker[w].case}
      BY <1>1, <1>3, <2>8 DEF Records, TypeOK
    <3>q. QED BY <1>1, <1>3, <2>1, <2>8, <3>1 DEF Records, Fresh
  <2>q. QED BY <1>3, <2>3, <2>4, <2>5, <2>6, <2>7, <2>8 DEF Went
<1>4. CASE Ends(w)
  BY <1>4 DEF Ends, IdleWorker, Fresh
<1>5. ASSUME NEW s \in Run, PickUp(w, s) PROVE Fresh(w)'
  <2>1. worker'[w].pc = "claiming"
    BY <1>1, <1>5, PickUpFields
  <2>q. QED BY <2>1 DEF Fresh
<1>q. QED BY <1>1, <1>2, <1>3, <1>4, <1>5, WorkersGo

LEMMA ResumeInit == Init => ResumeInv
  BY CoverInit DEF Init, ResumeInv, OneAttempt, Fresh, IdleWorker

LEMMA ResumeStep ==
  ASSUME ResumeInv, [Next]_vars, "stall" \notin Faults
  PROVE  ResumeInv'
  BY CoverStep, OneAttemptStep, FreshStep DEF ResumeInv

\* If no worker stalls, no turn is paid for whose case has its result, across
\* kills, errors, hand-offs and retries.  (recorded_case_ids; a stall makes two
\* attempts of one job overlap, and they may both pay.)
THEOREM ResumesAreFresh == "stall" \notin Faults => (Spec => []NoRecordedCaseReruns)
<1>1. ResumeInv => NoRecordedCaseReruns
  BY DEF ResumeInv, Fresh, NoRecordedCaseReruns
<1>2. SUFFICES ASSUME "stall" \notin Faults PROVE Spec => []NoRecordedCaseReruns
  OBVIOUS
<1>3. ResumeInv /\ [Next]_vars => ResumeInv'
  BY <1>2, ResumeStep
<1>q. QED BY ResumeInit, <1>1, <1>3, PTL DEF Spec

-----------------------------------------------------------------------------
(* The summary of a run that is over covers its results *)

\* What mark_failed has read is still all there is, if it is to write it.
Found(w) ==
    worker[w].pc = "marking" /\ Active(worker[w].run) =>
        worker[w].found = results[worker[w].run]

CutShortOnce(r) == \E n \in 0..MaxTries : <<r, n>> \in lost

\* The attempt of the run is between two cases, or past the last.
BetweenCases(w, r) == worker[w].run = r /\ worker[w].pc \in {"next", "completing"}

\* A run that is over has been summed up, or its attempt is about to.
Summed(r) ==
    /\ run[r].status \in {"completed", "failed"} =>
          queue[r].pc = "done" /\ run[r].summary = results[r]
    /\ run[r].status = "cancelled" =>
          \/ run[r].summary = results[r]
          \/ CutShortOnce(r)
          \/ \E w \in Worker : BetweenCases(w, r)

\* No request is at its mark_failed: it only goes there when enqueue_job raised.
NoFailingRequest == \A r \in Run : start[r].pc \notin {"failing", "marking"}

SumInv ==
    /\ ResumeInv
    /\ NoFailingRequest
    /\ \A w \in Worker : Found(w)
    /\ \A r \in Run : Summed(r)

LEMMA SumInit == Init => SumInv
  BY ResumeInit DEF Init, SumInv, NoFailingRequest, Found, Summed, NoRow, IdleStart,
     IdleWorker

LEMMA NoFailingRequestStep ==
  ASSUME TypeOK, NoFailingRequest, [Next]_vars, "enqueue" \notin Faults
  PROVE  NoFailingRequest'
<1>0. start \in [Run -> StartState]
  BY DEF TypeOK
<1>1. ASSUME NEW r \in Run, StartStep(r) PROVE NoFailingRequest'
  <2>1. ~StartEnqueueFails(r) /\ ~StartMarkFailedRead(r) /\ ~StartMarkFailedUpdate(r)
    BY DEF StartEnqueueFails, Fault, StartMarkFailedRead, StartMarkFailedUpdate,
       NoFailingRequest
  <2>2. \E pc \in {"checked", "committed", "refused", "accepted"} :
           start' = [start EXCEPT ![r].pc = pc]
    BY <1>1, <2>1 DEF StartStep, StartCheck, StartCommit, StartRateLimited, StartEnqueue,
       StartCrash
  <2>q. QED BY <1>0, <2>2 DEF NoFailingRequest, StartState
<1>2. ASSUME NEW w \in Worker, AttemptStep(w) \/ FaultStep(w) PROVE UNCHANGED start
  BY <1>2, AttemptGoes
<1>3. EditStep \/ (\E r \in Run : QueueStep(r)) \/ UNCHANGED vars => UNCHANGED start
  BY DEF EditStep, Cancel, DeleteAgent, CreateCase, DeleteCase, QueueStep, PickUp, GiveUp,
     vars
<1>q. QED BY <1>1, <1>2, <1>3 DEF Next, NoFailingRequest

LEMMA FoundStep ==
  ASSUME SumInv, [Next]_vars, NEW w \in Worker
  PROVE  Found(w)'
<1> DEFINE r == worker[w].run
<1>1. /\ TypeOK /\ CoverInv /\ OneAttempt /\ Found(w)
  BY DEF SumInv, ResumeInv, CoverInv, RunInv
<1> SUFFICES ASSUME worker'[w].pc = "marking",
                    run'[worker'[w].run].status \in ActiveStatuses
             PROVE  worker'[w].found = results'[worker'[w].run]
  BY DEF Found, Active
<1>2. CASE worker'[w] = worker[w]
  <2>1. worker[w].pc = "marking" /\ worker'[w].run = r
    BY <1>2
  <2>2. r \in Run /\ run'[r].status \in ActiveStatuses
    BY <1>1, <2>1 DEF TypeOK
  <2>3. RowGoesOn(r)
    BY <1>1, <2>1, <2>2, AttemptedRowsGoOn DEF ActiveStatuses
  <2>4. Active(r)
    BY <2>2, <2>3 DEF RowGoesOn, Active
  <2>5. ASSUME NEW v \in Worker, RecordResult(v), worker[v].run = r PROVE FALSE
    BY <1>1, <2>1, <2>5 DEF OneAttempt, RecordResult
  <2>6. results'[r] = results[r]
    BY <1>1, <2>2, <2>3, <2>5, ResultsGoOn DEF RowGoesOn
  <2>q. QED BY <1>1, <1>2, <2>1, <2>4, <2>6 DEF Found
<1>3. CASE Went(w)
  <2>1. Reads(w)
    BY <1>3 DEF Went, Fails, Reads, Claims, Lists, Resumes, Leaves, Turns, Looks, Skips,
       Records
  <2>q. QED BY <1>3, <2>1 DEF Went, Keeps, Reads
<1>4. ~Ends(w)
  BY DEF Ends, IdleWorker
<1>5. ASSUME NEW s \in Run, PickUp(w, s) PROVE FALSE
  BY <1>1, <1>5, PickUpFields
<1>q. QED BY <1>1, <1>2, <1>3, <1>4, <1>5, WorkersGo

\* Steps that leave the row, its results and its attempt between two cases alone.
LEMMA SummedFrame ==
  ASSUME NEW r \in Run, Summed(r),
         run'[r].status = run[r].status, run'[r].summary = run[r].summary,
         results'[r] = results[r],
         run[r].status \in {"completed", "failed"} /\ queue[r].pc = "done"
            => queue'[r].pc = "done",
         lost \subseteq lost',
         \A w \in Worker : run[r].status = "cancelled" /\ BetweenCases(w, r)
            => BetweenCases(w, r)'
  PROVE  Summed(r)'
<1>1. CutShortOnce(r) => CutShortOnce(r)'
  BY DEF CutShortOnce
<1>2. run[r].status = "cancelled" /\ (\E w \in Worker : BetweenCases(w, r))
        => \E w \in Worker : BetweenCases(w, r)'
  OBVIOUS
<1>q. QED BY <1>1, <1>2 DEF Summed

LEMMA StartSummed ==
  ASSUME SumInv, NEW r \in Run, NEW s \in Run, StartStep(s), "enqueue" \notin Faults
  PROVE  Summed(r)'
<1>0. /\ run \in [Run -> RunState] /\ queue \in [Run -> QueueState] /\ Summed(r)
      /\ UnstartedIsAbsent /\ Queued
  BY DEF SumInv, ResumeInv, CoverInv, RunInv, TypeOK
<1>1. ~StartEnqueueFails(s) /\ ~StartMarkFailedRead(s) /\ ~StartMarkFailedUpdate(s)
  BY DEF StartEnqueueFails, Fault, StartMarkFailedRead, StartMarkFailedUpdate,
     NoFailingRequest, SumInv
<1>2. UNCHANGED <<worker, results>> /\ lost \subseteq lost'
  BY <1>1 DEF StartStep, StartCheck, StartCommit, StartRateLimited, StartEnqueue,
     StartCrash
<1>3. CASE StartCheck(s) \/ StartCommit(s) \/ StartRateLimited(s)
  <2>1. CASE s = r
    <3>1. run'[r].status \in {"absent", "pending"}
      BY <1>0, <1>3, <2>1 DEF StartCheck, StartCommit, StartRateLimited, RunState, NoRow,
         UnstartedIsAbsent
    <3>q. QED BY <3>1 DEF Summed
  <2>2. CASE s # r
    <3>1. run'[r] = run[r] /\ UNCHANGED queue
      BY <1>0, <1>3, <2>2 DEF StartCheck, StartCommit, StartRateLimited
    <3>q. QED BY <1>0, <1>2, <3>1, SummedFrame DEF BetweenCases
  <2>q. QED BY <2>1, <2>2
<1>4. CASE StartEnqueue(s) \/ StartCrash(s)
  <2>1. UNCHANGED run
    BY <1>4 DEF StartEnqueue, StartCrash
  <2>2. queue[r].pc = "done" => queue'[r].pc = "done"
    <3>1. queue[r].pc = "done" => start[r].pc # "committed"
      BY <1>0 DEF Queued
    <3>q. QED BY <1>0, <1>4, <3>1 DEF StartEnqueue, StartCrash
  <2>q. QED BY <1>0, <1>2, <2>1, <2>2, SummedFrame DEF BetweenCases
<1>q. QED BY <1>1, <1>3, <1>4 DEF StartStep

LEMMA QueueSummed ==
  ASSUME SumInv, NEW r \in Run, NEW s \in Run, QueueStep(s)
  PROVE  Summed(r)'
<1>0. TypeOK /\ queue \in [Run -> QueueState] /\ Summed(r)
  BY DEF SumInv, ResumeInv, CoverInv, RunInv, TypeOK
<1>1. UNCHANGED <<run, results, lost>>
  BY DEF QueueStep, PickUp, GiveUp
<1>2. queue[r].pc = "done" => queue'[r].pc = "done"
  BY <1>0 DEF QueueStep, PickUp, GiveUp
<1>3. \A v \in Worker : worker[v].pc # "idle" => worker'[v] = worker[v]
  <2>1. ASSUME NEW w \in Worker, PickUp(w, s), NEW v \in Worker, worker[v].pc # "idle"
        PROVE  worker'[v] = worker[v]
    <3>1. v # w
      BY <2>1 DEF PickUp
    <3>q. QED BY <1>0, <2>1, <3>1, PickUpFields DEF Alone
  <2>q. QED BY <2>1 DEF QueueStep, GiveUp
<1>q. QED BY <1>0, <1>1, <1>2, <1>3, SummedFrame DEF BetweenCases

LEMMA EditSummed ==
  ASSUME SumInv, NEW r \in Run, EditStep
  PROVE  Summed(r)'
<1>0. /\ run \in [Run -> RunState] /\ results \in [Run -> SUBSET Case] /\ Summed(r)
  BY DEF SumInv, ResumeInv, CoverInv, RunInv, TypeOK
<1>1. UNCHANGED <<queue, worker, lost>>
  BY DEF EditStep, Cancel, DeleteAgent, CreateCase, DeleteCase
<1>2. CASE Cancel(r)
  <2>1. run'[r].status = "cancelled" /\ run'[r].summary = results[r] /\ UNCHANGED results
    BY <1>0, <1>2 DEF Cancel, RunState
  <2>q. QED BY <2>1 DEF Summed
<1>3. CASE DeleteAgent(r)
  <2>1. run'[r].status = "deleted"
    BY <1>0, <1>3 DEF DeleteAgent, NoRow
  <2>q. QED BY <2>1 DEF Summed
<1>4. CASE ~Cancel(r) /\ ~DeleteAgent(r)
  <2>1. run'[r] = run[r] /\ results'[r] = results[r]
    BY <1>0, <1>4 DEF EditStep, Cancel, DeleteAgent, CreateCase, DeleteCase
  <2>q. QED BY <1>0, <1>1, <2>1, SummedFrame DEF BetweenCases
<1>q. QED BY <1>2, <1>3, <1>4

\* A step of an attempt disturbs no other run's row, results, job or attempt.
LEMMA OthersUndisturbed ==
  ASSUME TypeOK, NEW w \in Worker, AttemptStep(w) \/ FaultStep(w),
         NEW r \in Run, r # worker[w].run
  PROVE  run'[r] = run[r] /\ results'[r] = results[r] /\ queue'[r] = queue[r]
<1>0. /\ run \in [Run -> RunState] /\ results \in [Run -> SUBSET Case]
      /\ queue \in [Run -> QueueState] /\ worker[w].run \in Run
  BY AttemptGoes DEF TypeOK
<1>1. results'[r] = results[r]
  BY <1>0 DEF AttemptStep, Claim, ListCases, ListRecorded, NextCase, OverBudget,
     RecordLookup, RecordResult, Complete, MarkFailedRead, MarkFailedUpdate,
     FaultStep, RunError, MarkFailedFails, Kill, Timeout, Stall
<1>2. run'[r] = run[r]
  <2>1. CASE Claim(w) \/ RecordResult(w) \/ Complete(w)
    BY <1>0, <2>1 DEF Claim, RecordResult, Complete
  <2>2. CASE MarkFailedUpdate(w)
    BY <1>0, <2>2 DEF MarkFailedUpdate, MarkedFailed
  <2>q. QED BY <2>1, <2>2 DEF AttemptStep, ListCases, ListRecorded, NextCase, OverBudget,
        RecordLookup, MarkFailedRead, FaultStep, RunError, MarkFailedFails, Kill,
        Timeout, Stall
<1>3. queue'[r] = queue[r]
  <2>1. Went(w) \/ Ends(w) \/ Stall(w)
    BY AttemptGoes
  <2>q. QED BY <1>0, <2>1 DEF Went, Keeps, Ends, Finish, Requeue, Stall
<1>q. QED BY <1>1, <1>2, <1>3

LEMMA CutShortCounts ==
  ASSUME TypeOK, NEW w \in Worker, worker[w].pc # "idle", CutShort(w),
         NEW r, r = worker[w].run
  PROVE  CutShortOnce(r)'
  BY DEF TypeOK, CutShort, CutShortOnce, WorkerState

\* The steps of the run's own attempt.
LEMMA OwnSummed ==
  ASSUME SumInv, NEW w \in Worker, AttemptStep(w) \/ FaultStep(w), "stall" \notin Faults,
         NEW r \in Run, r = worker[w].run
  PROVE  Summed(r)'
<1>0. /\ TypeOK /\ OneAttempt /\ Found(w)
      /\ run \in [Run -> RunState] /\ results \in [Run -> SUBSET Case]
      /\ queue \in [Run -> QueueState] /\ worker[w] \in WorkerState
  BY DEF SumInv, ResumeInv, CoverInv, RunInv, TypeOK
<1>1. /\ worker[w].pc # "idle" /\ Summed(r)
      /\ run[r].status \notin {"completed", "failed"}
  BY <1>0, AttemptGoes DEF SumInv, OneAttempt, Summed
\* Nobody else is between two cases of this run.
<1>2. \A v \in Worker : BetweenCases(v, r) => v = w
  BY <1>0, <1>1 DEF OneAttempt, BetweenCases
<1>3. ASSUME worker[w].pc \notin {"next", "completing"},
             run'[r].status = run[r].status, run'[r].summary = run[r].summary,
             results'[r] = results[r], lost \subseteq lost'
      PROVE  Summed(r)'
  <2>1. \A v \in Worker : ~BetweenCases(v, r)
    BY <1>2, <1>3 DEF BetweenCases
  <2>q. QED BY <1>1, <1>3, <2>1, SummedFrame
<1>4. ASSUME run'[r].status \notin {"completed", "failed", "cancelled"} PROVE Summed(r)'
  BY <1>4 DEF Summed
<1>5. ASSUME run'[r].status \notin {"completed", "failed"}, BetweenCases(w, r)'
      PROVE  Summed(r)'
  BY <1>5 DEF Summed
<1>6. CASE Claim(w)
  <2>1. \/ run' = [run EXCEPT ![r].status = "running"]
        \/ UNCHANGED run
    BY <1>6 DEF Claim
  <2>2. run'[r].status = "running" \/ UNCHANGED run
    BY <1>0, <2>1 DEF RunState
  <2>3. UNCHANGED <<results, lost>> /\ worker[w].pc = "claiming"
    BY <1>6 DEF Claim
  <2>q. QED BY <1>3, <1>4, <2>2, <2>3
<1>7. CASE ListCases(w) \/ ListRecorded(w) \/ RecordLookup(w) \/ MarkFailedRead(w)
  <2>1. /\ UNCHANGED <<run, results, lost>>
        /\ worker[w].pc \in {"listing", "resuming", "turn", "failing"}
    BY <1>7 DEF ListCases, ListRecorded, RecordLookup, MarkFailedRead
  <2>q. QED BY <1>3, <2>1
<1>8. ASSUME NEW c \in Case, NextCase(w, c) PROVE Summed(r)'
  <2>1. UNCHANGED run
    BY <1>8 DEF NextCase
  <2>2. CASE run[r].status = "cancelled"
    <3>1. Step(w, [worker[w] EXCEPT !.pc = "completing"])
      BY <1>8, <2>2 DEF NextCase, Exists, EvalRunStatus
    <3>2. worker'[w] = [worker[w] EXCEPT !.pc = "completing"]
      BY <1>0, <3>1, ChangesAlone
    <3>3. worker'[w].pc = "completing" /\ worker'[w].run = r
      BY <1>0, <3>2 DEF WorkerState
    <3>q. QED BY <1>5, <2>1, <2>2, <3>3 DEF BetweenCases
  <2>q. QED BY <1>1, <1>4, <2>1, <2>2
<1>9. CASE OverBudget(w)
  <2>1. run[r].status = "running" /\ UNCHANGED run
    BY <1>9 DEF OverBudget
  <2>q. QED BY <1>4, <2>1
<1>10. CASE RecordResult(w)
  <2>0. worker[w].pc = "recording" /\ UNCHANGED <<queue, lost>>
    BY <1>10 DEF RecordResult
  <2>1. CASE UNCHANGED <<run, results>>
    BY <1>3, <2>0, <2>1
  <2>2. CASE ~UNCHANGED <<run, results>>
    <3> DEFINE recorded == [worker[w] EXCEPT !.pc = "next", !.case = NoCase,
                                             !.todo = @ \ {worker[w].case}]
    <3>1. Step(w, recorded) /\ run' = [run EXCEPT ![r].count = run[r].count + 1]
      BY <1>10, <2>2 DEF RecordResult
    <3>2. worker'[w] = recorded
      BY <1>0, <3>1, ChangesAlone
    <3>3. worker'[w].pc = "next" /\ worker'[w].run = r
      BY <1>0, <3>2 DEF WorkerState
    <3>4. run'[r].status = run[r].status
      BY <1>0, <3>1 DEF RunState
    <3>q. QED BY <1>1, <1>5, <3>3, <3>4 DEF BetweenCases
  <2>q. QED BY <2>1, <2>2
<1>11. CASE Complete(w)
  <2>0. UNCHANGED results
    BY <1>11 DEF Complete
  <2>1. CASE run[r].status = "cancelled"
    <3>1. run' = [run EXCEPT ![r].summary = results[r]]
      BY <1>11, <2>1 DEF Complete, Exists, EvalRunStatus
    <3>2. run'[r].summary = results[r] /\ run'[r].status = "cancelled"
      BY <1>0, <2>1, <3>1 DEF RunState
    <3>q. QED BY <2>0, <3>2 DEF Summed
  <2>2. CASE run[r].status = "running"
    <3>1. /\ run' = [run EXCEPT ![r] =
               [run[r] EXCEPT !.status = "completed", !.summary = results[r],
                              !.count = Cardinality(results[r])]]
          /\ Finish(w)
      BY <1>11, <2>2 DEF Complete, Exists, EvalRunStatus
    <3>2. run'[r] = [run[r] EXCEPT !.status = "completed", !.summary = results[r],
                                   !.count = Cardinality(results[r])]
      BY <1>0, <3>1
    <3>3. run'[r].summary = results[r] /\ run'[r].status = "completed"
      <4>1. run[r] \in RunState
        BY <1>0
      <4>q. QED BY <3>2, <4>1 DEF RunState
    <3>4. queue'[r].pc = "done"
      BY <1>0, <3>1 DEF Finish, QueueState
    <3>q. QED BY <2>0, <3>3, <3>4 DEF Summed
  <2>3. CASE run[r].status \notin {"cancelled", "running"}
    <3>1. UNCHANGED run
      BY <1>11, <2>3 DEF Complete
    <3>q. QED BY <1>1, <1>4, <2>3, <3>1
  <2>q. QED BY <2>1, <2>2, <2>3
<1>12. CASE MarkFailedUpdate(w)
  <2>0. /\ UNCHANGED <<results, lost>> /\ worker[w].pc = "marking"
        /\ run' = MarkedFailed(r, worker[w].found) /\ Finish(w)
    BY <1>12 DEF MarkFailedUpdate
  <2>1. CASE Active(r)
    <3>1. run' = [run EXCEPT ![r] = [run[r] EXCEPT !.status = "failed",
                                                   !.summary = worker[w].found]]
      BY <2>0, <2>1 DEF MarkedFailed
    <3>2. run'[r].status = "failed" /\ run'[r].summary = worker[w].found
      BY <1>0, <3>1 DEF RunState
    <3>3. worker[w].found = results[r]
      BY <1>0, <2>0, <2>1 DEF Found
    <3>4. queue'[r].pc = "done"
      BY <1>0, <2>0 DEF Finish, QueueState
    <3>q. QED BY <2>0, <3>2, <3>3, <3>4 DEF Summed
  <2>2. CASE ~Active(r)
    <3>1. UNCHANGED run
      BY <2>0, <2>2 DEF MarkedFailed
    <3>q. QED BY <1>3, <2>0, <3>1
  <2>q. QED BY <2>1, <2>2
<1>13. CASE RunError(w) \/ MarkFailedFails(w) \/ Kill(w) \/ Timeout(w)
  <2>1. UNCHANGED <<run, results>> /\ CutShort(w)
    BY <1>13 DEF RunError, MarkFailedFails, Kill, Timeout
  <2>2. CutShortOnce(r)'
    BY <1>0, <1>1, <2>1, CutShortCounts
  <2>q. QED BY <1>1, <2>1, <2>2 DEF Summed
<1>14. ~Stall(w)
  BY DEF Stall, Fault
<1>q. QED BY <1>6, <1>7, <1>8, <1>9, <1>10, <1>11, <1>12, <1>13, <1>14
          DEF AttemptStep, FaultStep

LEMMA AttemptSummed ==
  ASSUME SumInv, NEW w \in Worker, AttemptStep(w) \/ FaultStep(w), "stall" \notin Faults,
         NEW r \in Run
  PROVE  Summed(r)'
<1>1. CASE r = worker[w].run
  BY <1>1, OwnSummed
<1>2. CASE r # worker[w].run
  <2>1. TypeOK /\ Summed(r)
    BY DEF SumInv, ResumeInv, CoverInv, RunInv
  <2>2. run'[r] = run[r] /\ results'[r] = results[r] /\ queue'[r] = queue[r]
    BY <1>2, <2>1, OthersUndisturbed
  <2>3. Alone(w)
    <3>1. ~Stall(w)
      BY DEF Stall, Fault
    <3>q. QED BY <2>1, <3>1, AttemptGoes
  <2>4. \A v \in Worker : BetweenCases(v, r) => BetweenCases(v, r)'
    BY <1>2, <2>3 DEF Alone, BetweenCases
  <2>5. lost \subseteq lost'
    BY DEF AttemptStep, Claim, ListCases, ListRecorded, NextCase, OverBudget,
       RecordLookup, RecordResult, Complete, MarkFailedRead, MarkFailedUpdate,
       FaultStep, RunError, MarkFailedFails, Kill, Timeout, Stall, CutShort
  <2>q. QED BY <2>1, <2>2, <2>4, <2>5, SummedFrame
<1>q. QED BY <1>1, <1>2

LEMMA SumStep ==
  ASSUME SumInv, [Next]_vars, Faults \cap {"stall", "enqueue"} = {}
  PROVE  SumInv'
<1>0. TypeOK /\ ResumeInv /\ NoFailingRequest
  BY DEF SumInv, ResumeInv, CoverInv, RunInv
<1>1. ResumeInv' /\ NoFailingRequest' /\ \A w \in Worker : Found(w)'
  BY <1>0, ResumeStep, NoFailingRequestStep, FoundStep
<1>2. ASSUME NEW r \in Run PROVE Summed(r)'
  <2>1. CASE UNCHANGED vars
    BY <2>1 DEF SumInv, Summed, CutShortOnce, BetweenCases, vars
  <2>q. QED BY <2>1, StartSummed, QueueSummed, EditSummed, AttemptSummed DEF Next
<1>q. QED BY <1>1, <1>2 DEF SumInv

\* While jobs neither stall nor fail to enqueue, the summary of a completed or
\* failed run covers exactly its results, and so does a cancelled run's once its
\* attempt is over, unless that attempt was cut short.  (complete_run,
\* mark_failed and cancel_run; the two faults each put a second writer of the
\* run's results beside the one that sums them up.)
THEOREM SummariesKeepUp ==
  Faults \cap {"stall", "enqueue"} = {} => (Spec => []SummaryIsCurrent)
<1>1. SumInv => SummaryIsCurrent
  BY DEF SumInv, Summed, SummaryIsCurrent, CutShortOnce, BetweenCases, Attempted
<1>2. SUFFICES ASSUME Faults \cap {"stall", "enqueue"} = {}
               PROVE  Spec => []SummaryIsCurrent
  OBVIOUS
<1>3. SumInv /\ [Next]_vars => SumInv'
  BY <1>2, SumStep
<1>q. QED BY SumInit, <1>1, <1>3, PTL DEF Spec
=============================================================================
