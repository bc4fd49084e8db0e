--------------------------- MODULE ChatTurnProofs ---------------------------
(***************************************************************************)
(* Theorems about ChatTurn for any turns, conversations, queue length,     *)
(* steps and failures.                                                     *)
(***************************************************************************)
EXTENDS ChatTurn, SequenceTheorems, TLAPS

USE MaxStepsAssumption, BoundsAssumption, ConversationAssumption

-----------------------------------------------------------------------------
(* Types *)

LEMMA InitTyped == Init => TypeOK
  BY DEF Init, TypeOK, IdleTurn, IdleClient, NoJob, TurnState, ClientState, JobState, Item, Ending

LEMMA FaultTyped ==
  ASSUME TypeOK, NEW kind, Fault(kind)
  PROVE  faults' \in 0..MaxFaults
  BY DEF TypeOK, Fault

\* Putting an item and taking one keep a queue a queue.
LEMMA QueueTyped ==
  ASSUME TypeOK, NEW t \in Turn
  PROVE  /\ \A x \in Item : [queue EXCEPT ![t] = Append(@, x)] \in [Turn -> Seq(Item)]
         /\ [queue EXCEPT ![t] = <<>>] \in [Turn -> Seq(Item)]
         /\ queue[t] # <<>> =>
              /\ [queue EXCEPT ![t] = Tail(@)] \in [Turn -> Seq(Item)]
              /\ Head(queue[t]) \in Item
<1>1. queue[t] \in Seq(Item)
  BY DEF TypeOK
<1>2. \A x \in Item : Append(queue[t], x) \in Seq(Item)
  BY <1>1
<1>3. queue[t] # <<>> => Tail(queue[t]) \in Seq(Item) /\ Head(queue[t]) \in Item
  BY <1>1
<1>q. QED BY <1>2, <1>3 DEF TypeOK

\* A step of one turn that leaves its record typed keeps every record typed.
TurnTyped(s) == s \in TurnState /\ (s.pc # "idle" => s.conv \in Conversation)

LEMMA OneTurnTyped ==
  ASSUME TypeOK, NEW t \in Turn, NEW s, TurnTyped(s),
         turn' = [turn EXCEPT ![t] = s]
  PROVE  /\ turn' \in [Turn -> TurnState]
         /\ \A u \in Turn : turn'[u].pc # "idle" => turn'[u].conv \in Conversation
  BY DEF TypeOK, TurnTyped

LEMMA OneClientTyped ==
  ASSUME TypeOK, NEW t \in Turn, NEW s \in ClientState
  PROVE  [client EXCEPT ![t] = s] \in [Turn -> ClientState]
  BY DEF TypeOK

\* What the generator's assignments make of a turn under way.
LEMMA TurnForms ==
  ASSUME TypeOK, NEW t \in Turn, turn[t].pc # "idle"
  PROVE  /\ \A pc \in {"started", "numbering", "asking", "model", "tools", "saving",
                       "telling", "closing", "raising", "over", "stray"} :
              TurnTyped([turn[t] EXCEPT !.pc = pc])
         /\ \A n \in Nat : TurnTyped([turn[t] EXCEPT !.pc = "asking", !.seq = n])
         /\ TurnTyped([turn[t] EXCEPT !.pc = "model", !.asked = TRUE])
         /\ TurnTyped([turn[t] EXCEPT !.text = turn[t].text + 1])
         /\ turn[t].step < MaxSteps =>
              TurnTyped([turn[t] EXCEPT !.pc = "tools", !.step = turn[t].step + 1])
         /\ \A e \in Ending : TurnTyped([turn[t] EXCEPT !.pc = "saving", !.ending = e])
         /\ TurnTyped(Saved(turn[t]))
         /\ TurnTyped(Refused(turn[t]))
         /\ TurnTyped([IdleTurn EXCEPT !.pc = Stopped(t), !.conv = turn[t].conv,
                                       !.created = turn[t].created])
<1>1. turn[t] \in TurnState /\ turn[t].conv \in Conversation
  BY DEF TypeOK
<1>2. turn[t].text \in Nat /\ turn[t].step \in 0..MaxSteps
  BY <1>1 DEF TurnState
<1>3. \A pc \in {"started", "numbering", "asking", "model", "tools", "saving",
                 "telling", "closing", "raising", "over", "stray"} :
        TurnTyped([turn[t] EXCEPT !.pc = pc])
  BY <1>1 DEF TurnTyped, TurnState
<1>4. \A n \in Nat : TurnTyped([turn[t] EXCEPT !.pc = "asking", !.seq = n])
  BY <1>1 DEF TurnTyped, TurnState
<1>5. TurnTyped([turn[t] EXCEPT !.pc = "model", !.asked = TRUE])
  BY <1>1 DEF TurnTyped, TurnState
<1>6. TurnTyped([turn[t] EXCEPT !.text = turn[t].text + 1])
  <2>1. \A n \in Nat : TurnTyped([turn[t] EXCEPT !.text = n])
    BY <1>1 DEF TurnTyped, TurnState
  <2>2. turn[t].text + 1 \in Nat
    BY <1>2
  <2>q. QED BY <2>1, <2>2
<1>7. turn[t].step < MaxSteps =>
        TurnTyped([turn[t] EXCEPT !.pc = "tools", !.step = turn[t].step + 1])
  <2>1. \A n \in 0..MaxSteps : TurnTyped([turn[t] EXCEPT !.pc = "tools", !.step = n])
    BY <1>1 DEF TurnTyped, TurnState
  <2>2. turn[t].step < MaxSteps => turn[t].step + 1 \in 0..MaxSteps
    BY <1>2
  <2>q. QED BY <2>1, <2>2
<1>8. \A e \in Ending : TurnTyped([turn[t] EXCEPT !.pc = "saving", !.ending = e])
  BY <1>1 DEF TurnTyped, TurnState
<1>9. TurnTyped(Saved(turn[t]))
  BY <1>1 DEF TurnTyped, TurnState, Saved
<1>11. TurnTyped(Refused(turn[t]))
  BY <1>1 DEF TurnTyped, TurnState, Refused, Ending
<1>10. TurnTyped([IdleTurn EXCEPT !.pc = Stopped(t), !.conv = turn[t].conv,
                                  !.created = turn[t].created])
  <2>1. IdleTurn \in TurnState
    BY DEF IdleTurn, TurnState
  <2>2. Stopped(t) \in {"over", "stray"} /\ turn[t].created \in BOOLEAN
    BY <1>1 DEF Stopped, TurnState
  <2>q. QED BY <1>1, <2>1, <2>2 DEF TurnTyped, TurnState
<1>q. QED BY <1>3, <1>4, <1>5, <1>6, <1>7, <1>8, <1>9, <1>10, <1>11

LEMMA AskTyped ==
  ASSUME TypeOK, NEW t \in Turn, AskStep(t)
  PROVE  TypeOK'
<1>0. turn[t] \in TurnState /\ client[t] \in ClientState
  BY DEF TypeOK
<1>1. ASSUME NEW c \in Conversation, NEW created \in BOOLEAN, Send(t, c, created)
      PROVE  TypeOK'
  <2>1. TurnTyped([turn[t] EXCEPT !.pc = "started", !.conv = c, !.created = created])
    BY <1>0 DEF TurnTyped, TurnState
  <2>2. [client[t] EXCEPT !.pc = "first"] \in ClientState
    BY <1>0 DEF ClientState
  <2>q. QED BY <1>1, <2>1, <2>2, OneTurnTyped, OneClientTyped DEF Send, TypeOK
<1>2. CASE ReadHistory(t)
  BY <1>2, TurnForms, OneTurnTyped DEF ReadHistory, TypeOK
<1>3. CASE NumberQuestion(t)
  <2>1. \A n \in {1} \union {m.seq + 1 : m \in Committed(turn[t].conv)} : n \in Nat
    BY DEF TypeOK, Committed, Message
  <2>q. QED BY <1>3, <2>1, TurnForms, OneTurnTyped DEF NumberQuestion, TypeOK
<1>4. CASE InsertQuestion(t)
  BY <1>4, TurnForms, OneTurnTyped DEF InsertQuestion, TypeOK
<1>5. CASE AskFails(t)
  BY <1>5, TurnForms, OneTurnTyped, FaultTyped DEF AskFails, TypeOK
<1>q. QED BY <1>1, <1>2, <1>3, <1>4, <1>5 DEF AskStep

LEMMA LoopTyped ==
  ASSUME TypeOK, NEW t \in Turn, LoopStep(t),
         turn[t].pc = "model" => turn[t].step < MaxSteps
  PROVE  TypeOK'
<1>0. turn[t] \in TurnState
  BY DEF TypeOK
<1>1. CASE StreamText(t)
  <2>1. "text" \in Item
    BY DEF Item
  <2>q. QED BY <1>1, <2>1, TurnForms, OneTurnTyped, QueueTyped DEF StreamText, Put, TypeOK
<1>2. CASE CallTools(t)
  <2>1. "calls" \in Item /\ turn[t].step < MaxSteps
    BY <1>2 DEF Item, CallTools
  <2>q. QED BY <1>2, <2>1, TurnForms, OneTurnTyped, QueueTyped DEF CallTools, Put, TypeOK
<1>3. CASE ToolsReturn(t)
  <2>1. "results" \in Item /\ "limit" \in Ending
    BY DEF Item, Ending
  <2>q. QED BY <1>3, <2>1, TurnForms, OneTurnTyped, QueueTyped DEF ToolsReturn, Put, TypeOK
<1>4. CASE Finish(t)
  <2>1. "end" \in Ending
    BY DEF Ending
  <2>q. QED BY <1>4, <2>1, TurnForms, OneTurnTyped DEF Finish, TypeOK
<1>5. CASE ProviderFails(t)
  <2>1. "error" \in Ending
    BY DEF Ending
  <2>q. QED BY <1>5, <2>1, TurnForms, OneTurnTyped, FaultTyped DEF ProviderFails, TypeOK
<1>6. CASE Bug(t)
  BY <1>6, TurnForms, OneTurnTyped, FaultTyped DEF Bug, TypeOK
<1>7. CASE Stray(t)
  <2>1. "done" \in Item /\ turn[t].pc # "idle"
    BY <1>7 DEF Item, Stray, Working
  <2>2. queue' \in [Turn -> Seq(Item)]
    <3>1. [queue EXCEPT ![t] = Append(@, "done")] \in [Turn -> Seq(Item)]
      BY <2>1, QueueTyped
    <3>2. queue' = queue \/ queue' = [queue EXCEPT ![t] = Append(@, "done")]
      BY <1>7 DEF Stray, Put
    <3>q. QED BY <3>1, <3>2 DEF TypeOK
  <2>q. QED BY <1>7, <2>1, <2>2, TurnForms, OneTurnTyped, FaultTyped DEF Stray, TypeOK
<1>q. QED BY <1>1, <1>2, <1>3, <1>4, <1>5, <1>6, <1>7 DEF LoopStep

LEMMA SaveTyped ==
  ASSUME TypeOK, NEW t \in Turn, SaveStep(t),
         turn[t].pc = "telling" => turn[t].ending \in Ending
  PROVE  TypeOK'
<1>0. turn[t] \in TurnState /\ Ending \subseteq Item
  BY DEF TypeOK, Item
<1>1. CASE Save(t)
  BY <1>1, TurnForms, OneTurnTyped DEF Save, TypeOK
<1>2. CASE SaveFails(t)
  BY <1>2, TurnForms, OneTurnTyped, FaultTyped DEF SaveFails, TypeOK
<1>3. CASE SaveDeadlocks(t)
  BY <1>3, TurnForms, OneTurnTyped DEF SaveDeadlocks, TypeOK
<1>4. CASE Tell(t)
  <2>1. turn[t].ending \in Item
    BY <1>0, <1>4 DEF Tell
  <2>q. QED BY <1>4, <2>1, TurnForms, OneTurnTyped, QueueTyped DEF Tell, Put, TypeOK
<1>5. CASE PutDone(t)
  <2>1. "done" \in Item
    BY DEF Item
  <2>q. QED BY <1>5, <2>1, TurnForms, OneTurnTyped, QueueTyped DEF PutDone, Put, TypeOK
<1>6. CASE PutCrash(t)
  <2>1. "crash" \in Item
    BY DEF Item
  <2>q. QED BY <1>6, <2>1, TurnForms, OneTurnTyped, QueueTyped DEF PutCrash, Put, TypeOK
<1>q. QED BY <1>1, <1>2, <1>3, <1>4, <1>5, <1>6 DEF SaveStep

LEMMA StreamTyped ==
  ASSUME TypeOK, NEW t \in Turn, StreamStep(t),
         turn[t].pc = "idle" => client[t].pc = "none"
  PROVE  TypeOK'
<1>0. turn[t] \in TurnState /\ client[t] \in ClientState
  BY DEF TypeOK
<1>i. \A pc \in {"first", "loop", "closing", "exiting", "titling", "closed", "lost",
              "unread"} :
        [client EXCEPT ![t].pc = pc] \in [Turn -> ClientState]
  BY <1>0, OneClientTyped DEF ClientState
<1>j. client[t].pc # "none" =>
        /\ Released(t) \in [Turn -> TurnState]
        /\ \A u \in Turn : Released(t)[u].pc # "idle" => Released(t)[u].conv \in Conversation
  <2> DEFINE s == [IdleTurn EXCEPT !.pc = Stopped(t), !.conv = turn[t].conv,
                                   !.created = turn[t].created]
  <2>1. client[t].pc # "none" => TurnTyped(s)
    BY TurnForms
  <2>2. Released(t) = [turn EXCEPT ![t] = s]
    BY DEF Released
  <2> HIDE DEF s
  <2>q. QED BY <2>1, <2>2 DEF TurnTyped, TypeOK
<1>1. CASE SendStart(t)
  BY <1>1, <1>i DEF SendStart, TypeOK
<1>2. CASE Deliver(t)
  <2>1. client' \in [Turn -> ClientState]
    <3> DEFINE item == Head(queue[t])
    <3>1. client[t].shown + 1 \in Nat
      BY <1>0 DEF ClientState
    <3>2. [client[t] EXCEPT !.pc = "closing"] \in ClientState
      BY <1>0 DEF ClientState
    <3>3. [client[t] EXCEPT !.pc = "closing", !.exc = TRUE, !.sent = "internal"] \in ClientState
      BY <1>0 DEF ClientState, Ending
    <3>4. [client[t] EXCEPT !.shown = client[t].shown + 1] \in ClientState
      BY <1>0, <3>1 DEF ClientState
    <3>5. item \in Ending => [client[t] EXCEPT !.sent = item] \in ClientState
      BY <1>0 DEF ClientState
    <3>6. \E s \in ClientState : client' = [client EXCEPT ![t] = s]
      BY <1>0, <1>2, <3>2, <3>3, <3>4, <3>5 DEF Deliver, TypeOK
    <3>q. QED BY <3>6, OneClientTyped
  <2>q. QED BY <1>2, <2>1, QueueTyped DEF Deliver, TypeOK
<1>3. CASE Disconnect(t)
  <2>1. [client[t] EXCEPT !.pc = "closing", !.exc = TRUE] \in ClientState
    BY <1>0 DEF ClientState
  <2>q. QED BY <1>3, <2>1, OneClientTyped DEF Disconnect, TypeOK
<1>10. CASE Unread(t)
  <2>1. [turn EXCEPT ![t].pc = "over"] \in [Turn -> TurnState]
    BY <1>0 DEF TypeOK, TurnState
  <2>2. turn[t].pc # "idle" /\ [turn EXCEPT ![t].pc = "over"][t].conv = turn[t].conv
    BY <1>0, <1>10 DEF Unread, TypeOK, TurnState
  <2>3. /\ turn' \in [Turn -> TurnState]
        /\ \A u \in Turn : turn'[u].pc # "idle" => turn'[u].conv \in Conversation
    BY <1>10, <2>1, <2>2 DEF Unread, TypeOK
  <2>q. QED BY <1>10, <1>i, <2>3 DEF Unread, TypeOK
<1>4. CASE StopPump(t)
  <2>1. turn[t].pc # "idle" /\ Stopped(t) \in {"over", "stray"}
    BY <1>4 DEF StopPump, Stopped
  <2>q. QED BY <1>4, <1>i, <2>1, TurnForms, OneTurnTyped, QueueTyped DEF StopPump, TypeOK
<1>5. CASE Commit(t)
  <2>1. client[t].pc # "none" /\ turn[t].pc # "idle"
    BY <1>5 DEF Commit
  <2>2. Rows(t) \subseteq Message
    <3>1. turn[t].conv \in Conversation /\ turn[t].seq \in Nat /\ turn[t].text \in Nat
      BY <1>0, <2>1 DEF TypeOK, TurnState
    <3>2. Question(t) \in Message
      BY <3>1 DEF Question, Message, Role
    <3>3. turn[t].answer # "none" => Answer(t) \in Message
      BY <1>0, <3>1 DEF Answer, Message, Role, TurnState
    <3>q. QED BY <3>2, <3>3 DEF Rows
  <2>3. conv' \in [Conversation -> {"absent", "live", "deleted"}]
    BY <1>5 DEF Commit, TypeOK
  <2>q. QED BY <1>5, <1>i, <1>j, <2>1, <2>2, <2>3 DEF Commit, TypeOK
<1>6. CASE CommitFails(t)
  BY <1>6, <1>i, <1>j, FaultTyped DEF CommitFails, TypeOK
<1>7. CASE Rollback(t)
  BY <1>7, <1>i, <1>j DEF Rollback, TypeOK
<1>8. CASE CloseDead(t)
  BY <1>8, <1>i, <1>j DEF CloseDead, TypeOK
<1>9. CASE Crash(t)
  BY <1>9, <1>i, <1>j, FaultTyped, QueueTyped DEF Crash, TypeOK
<1>q. QED
  BY <1>1, <1>2, <1>3, <1>4, <1>5, <1>6, <1>7, <1>8, <1>9, <1>10 DEF StreamStep

LEMMA TitleTyped ==
  ASSUME TypeOK, NEW t \in Turn, TitleStep(t),
         job[t].pc \in {"queued", "writing"} => turn[t].pc # "idle"
  PROVE  TypeOK'
<1>0. client[t] \in ClientState
  BY DEF TypeOK
<1>i. [client EXCEPT ![t].pc = "closed"] \in [Turn -> ClientState]
  BY <1>0, OneClientTyped DEF ClientState
<1>j. \A x \in JobState : [job EXCEPT ![t] = x] \in [Turn -> JobState]
  BY DEF TypeOK
<1>k. \A pc \in {"queued", "writing", "done", "failed", "raised", "abandoned"} :
        [job EXCEPT ![t].pc = pc] \in [Turn -> JobState]
  <2>1. job[t] \in JobState
    BY DEF TypeOK
  <2>2. \A pc \in {"queued", "writing", "done", "failed", "raised", "abandoned"} :
          [job[t] EXCEPT !.pc = pc] \in JobState
    BY <2>1 DEF JobState
  <2>q. QED BY <1>j, <2>2
<1>1. CASE QueueTitle(t)
  BY <1>1, <1>i, <1>k DEF QueueTitle, TypeOK
<1>2. CASE QueueTitleFails(t)
  BY <1>2, <1>i, <1>k, FaultTyped DEF QueueTitleFails, TypeOK
<1>3. CASE StartTitle(t)
  <2> DEFINE c == turn[t].conv
             x == IF conv[c] # "live" THEN "failed"
                  ELSE IF c \in titled \/ (\A m \in Committed(c) : m.role # "user") THEN "done"
                  ELSE "writing"
             n == job[t].tries + 1
  <2>1. x \in {"failed", "done", "writing"}
    <3> HIDE DEF c
    <3>q. QED OBVIOUS
  <2>2. n \in 0..MaxTries
    BY <1>3 DEF StartTitle, TypeOK, JobState
  <2>3. job' = [job EXCEPT ![t] = [pc |-> x, tries |-> n]]
    BY <1>3, Zenon DEF StartTitle
  <2> HIDE DEF x, n
  <2>4. [pc |-> x, tries |-> n] \in JobState
    BY <2>1, <2>2 DEF JobState
  <2>q. QED BY <1>3, <1>j, <2>3, <2>4 DEF StartTitle, TypeOK
<1>4. CASE WriteTitle(t)
  <2>1. turn[t].conv \in Conversation
    BY <1>4 DEF WriteTitle, TypeOK
  <2>2. titled' \subseteq Conversation
    BY <1>4, <2>1 DEF WriteTitle, TypeOK
  <2>3. job' \in [Turn -> JobState]
    BY <1>4, <1>k DEF WriteTitle
  <2>q. QED BY <1>4, <2>2, <2>3 DEF WriteTitle, TypeOK
<1>5. CASE TitleFails(t) \/ KillTitle(t)
  BY <1>5, <1>k, FaultTyped DEF TitleFails, KillTitle, TypeOK
<1>6. CASE GiveUpTitle(t)
  BY <1>6, <1>k DEF GiveUpTitle, TypeOK
<1>q. QED BY <1>1, <1>2, <1>3, <1>4, <1>5, <1>6 DEF TitleStep

LEMMA DeleteTyped == ASSUME TypeOK, DeleteStep PROVE TypeOK'
<1>1. ASSUME NEW c \in Conversation, DeleteAgent(c) PROVE TypeOK'
  BY <1>1 DEF DeleteAgent, TypeOK
<1>2. ASSUME NEW c \in Conversation, DeleteCascades(c) PROVE TypeOK'
  BY <1>2 DEF DeleteCascades, TypeOK
<1>q. QED BY <1>1, <1>2 DEF DeleteStep

-----------------------------------------------------------------------------
(* Where the generator, the consumer and the transaction of a turn can be *)

Running == {"started", "numbering", "asking", "model", "tools", "saving", "telling",
            "closing", "raising"}
Open == {"first", "loop", "closing"}
Over == {"titling", "closed", "lost", "unread"}

\* The generator has ended and left an answer, or none that can be committed.
Settled(s) == s.pc = "stray" \/ (s.pc = "over" /\ (s.answer # "none" \/ s.dead))

HasDone(q) == \E i \in 1..Len(q) : q[i] = "done"

\* The consumer outlives its generator; a turn without the sentinel or an
\* exception is not committed; only the open transaction holds rows.
Local(t) ==
    /\ turn[t].pc = "idle" => turn[t] = IdleTurn /\ client[t].pc = "none" /\ job[t] = NoJob
    /\ client[t].pc = "none" => turn[t].pc = "idle"
    /\ turn[t].pc \in Running => client[t].pc \in Open
    /\ client[t].pc \notin Open => queue[t] = <<>>
    /\ client[t].pc \in Over =>
         ~turn[t].asked /\ ~turn[t].dead /\ turn[t].answer = "none"
    /\ turn[t].dead => ~turn[t].asked
    /\ ~turn[t].asked => turn[t].answer = "none"
    /\ turn[t].pc \in {"started", "numbering", "asking"} => ~turn[t].asked /\ ~turn[t].dead
    /\ turn[t].pc = "started" => queue[t] = <<>>
    /\ turn[t].pc \in {"model", "tools", "saving"} => turn[t].asked
    /\ turn[t].pc \in {"saving", "telling"} => turn[t].ending \in Ending
    /\ turn[t].pc \in {"telling", "closing"} => turn[t].answer # "none" \/ turn[t].dead
    /\ turn[t].pc \in {"started", "numbering", "asking", "model"} => turn[t].step < MaxSteps
    /\ HasDone(queue[t]) => Settled(turn[t])
    /\ client[t].pc \in {"closing", "exiting"} /\ ~client[t].exc => Settled(turn[t])

LocalInv == TypeOK /\ \A t \in Turn : Local(t)

LEMMA DoneInQueue ==
  ASSUME NEW q \in Seq(Item)
  PROVE  /\ ~HasDone(<<>>)
         /\ \A x \in Item : HasDone(Append(q, x)) <=> HasDone(q) \/ x = "done"
         /\ q # <<>> => /\ HasDone(Tail(q)) => HasDone(q)
                        /\ Head(q) = "done" => HasDone(q)
<1>1. \A x \in Item : HasDone(Append(q, x)) <=> HasDone(q) \/ x = "done"
  <2> SUFFICES ASSUME NEW x \in Item
               PROVE  HasDone(Append(q, x)) <=> HasDone(q) \/ x = "done"
    OBVIOUS
  <2>1. /\ Len(Append(q, x)) = Len(q) + 1
        /\ \A i \in 1..Len(q) : Append(q, x)[i] = q[i]
        /\ Append(q, x)[Len(q) + 1] = x
        /\ Len(q) \in Nat
    OBVIOUS
  <2>2. 1..(Len(q) + 1) = 1..Len(q) \union {Len(q) + 1}
    BY <2>1
  <2>q. QED BY <2>1, <2>2 DEF HasDone
<1>2. ASSUME q # <<>>
      PROVE  /\ HasDone(Tail(q)) => HasDone(q)
             /\ Head(q) = "done" => HasDone(q)
  <2>1. /\ Len(q) \in Nat \ {0} /\ Head(q) = q[1]
        /\ Len(Tail(q)) = Len(q) - 1
        /\ \A i \in 1..Len(Tail(q)) : Tail(q)[i] = q[i + 1]
    BY <1>2
  <2>2. \A i \in 1..Len(Tail(q)) : i + 1 \in 1..Len(q)
    BY <2>1
  <2>3. 1 \in 1..Len(q)
    BY <2>1
  <2>q. QED BY <2>1, <2>2, <2>3 DEF HasDone
<1>q. QED BY <1>1, <1>2 DEF HasDone

\* A step of one turn leaves the others where they are.
LEMMA OthersStay ==
  ASSUME TypeOK, NEW t \in Turn, NEW u \in Turn \ {t},
         AskStep(t) \/ LoopStep(t) \/ SaveStep(t) \/ StreamStep(t) \/ TitleStep(t)
  PROVE  /\ turn'[u] = turn[u] /\ client'[u] = client[u]
         /\ queue'[u] = queue[u] /\ job'[u] = job[u]
<1>0. /\ turn \in [Turn -> TurnState] /\ client \in [Turn -> ClientState]
      /\ queue \in [Turn -> Seq(Item)] /\ job \in [Turn -> JobState]
  BY DEF TypeOK
<1>1. CASE AskStep(t)
  BY <1>0, <1>1 DEF AskStep, Send, ReadHistory, NumberQuestion, InsertQuestion, AskFails
<1>2. CASE LoopStep(t)
  BY <1>0, <1>2 DEF LoopStep, StreamText, CallTools, ToolsReturn, Finish, ProviderFails,
                    Bug, Stray, Put
<1>3. CASE SaveStep(t)
  BY <1>0, <1>3 DEF SaveStep, Save, SaveFails, SaveDeadlocks, Tell, PutDone, PutCrash, Put
<1>4. CASE StreamStep(t)
  BY <1>0, <1>4 DEF StreamStep, SendStart, Deliver, Disconnect, Unread, StopPump,
                    Commit, CommitFails, Rollback, CloseDead, Crash, Released
<1>5. CASE TitleStep(t)
  BY <1>0, <1>5 DEF TitleStep, QueueTitle, QueueTitleFails, StartTitle, WriteTitle,
                    TitleFails, KillTitle, GiveUpTitle
<1>q. QED BY <1>1, <1>2, <1>3, <1>4, <1>5

LEMMA AskLocal ==
  ASSUME LocalInv, NEW t \in Turn, AskStep(t)
  PROVE  Local(t)'
<1>0. /\ turn \in [Turn -> TurnState] /\ client \in [Turn -> ClientState]
      /\ turn[t] \in TurnState /\ client[t] \in ClientState
      /\ Local(t) /\ queue[t] \in Seq(Item)
  BY DEF LocalInv, TypeOK
<1>1. ASSUME NEW c \in Conversation, NEW created \in BOOLEAN, Send(t, c, created)
      PROVE  Local(t)'
  <2>1. /\ turn'[t].pc = "started" /\ turn'[t].step = 0
        /\ ~turn'[t].asked /\ ~turn'[t].dead /\ turn'[t].answer = "none"
        /\ client'[t].pc = "first" /\ queue' = queue
        /\ queue[t] = <<>>
    BY <1>0, <1>1 DEF Send, Local, IdleTurn, TurnState, ClientState, Open
  <2>2. ~HasDone(queue'[t])
    BY <1>0, <2>1, DoneInQueue
  <2>q. QED BY <2>1, <2>2 DEF Local, Running, Open, Over
<1>2. CASE ReadHistory(t)
  BY <1>0, <1>2 DEF ReadHistory, Local, Running, Open, Over, Settled, TurnState
<1>3. CASE NumberQuestion(t)
  <2>1. /\ turn[t].pc = "numbering" /\ UNCHANGED <<client, queue, job>>
        /\ \/ turn' = [turn EXCEPT ![t].pc = "raising"]
           \/ \E n : turn' = [turn EXCEPT ![t] = [@ EXCEPT !.pc = "asking", !.seq = n]]
    BY <1>3 DEF NumberQuestion
  <2>2. CASE turn' = [turn EXCEPT ![t].pc = "raising"]
    BY <1>0, <2>1, <2>2 DEF Local, Running, Open, Over, Settled, TurnState
  <2>3. ASSUME NEW n, turn' = [turn EXCEPT ![t] = [@ EXCEPT !.pc = "asking", !.seq = n]]
        PROVE  Local(t)'
    BY <1>0, <2>1, <2>3 DEF Local, Running, Open, Over, Settled, TurnState
  <2>q. QED BY <2>1, <2>2, <2>3
<1>4. CASE InsertQuestion(t)
  <2>1. /\ turn[t].pc = "asking" /\ UNCHANGED <<client, queue, job>>
        /\ \/ turn' = [turn EXCEPT ![t].pc = "raising"]
           \/ turn' = [turn EXCEPT ![t] = [@ EXCEPT !.pc = "model", !.asked = TRUE]]
    BY <1>4 DEF InsertQuestion
  <2>2. CASE turn' = [turn EXCEPT ![t].pc = "raising"]
    BY <1>0, <2>1, <2>2 DEF Local, Running, Open, Over, Settled, TurnState
  <2>3. CASE turn' = [turn EXCEPT ![t] = [@ EXCEPT !.pc = "model", !.asked = TRUE]]
    BY <1>0, <2>1, <2>3 DEF Local, Running, Open, Over, Settled, TurnState
  <2>q. QED BY <2>1, <2>2, <2>3
<1>5. CASE AskFails(t)
  BY <1>0, <1>5 DEF AskFails, Local, Running, Open, Over, Settled, TurnState
<1>q. QED BY <1>1, <1>2, <1>3, <1>4, <1>5 DEF AskStep

LEMMA LoopLocal ==
  ASSUME LocalInv, NEW t \in Turn, LoopStep(t)
  PROVE  Local(t)'
<1>0. /\ turn \in [Turn -> TurnState] /\ client \in [Turn -> ClientState]
      /\ queue \in [Turn -> Seq(Item)]
      /\ turn[t] \in TurnState /\ client[t] \in ClientState
      /\ Local(t) /\ queue[t] \in Seq(Item)
  BY DEF LocalInv, TypeOK
<1>d. /\ HasDone(Append(queue[t], "text")) => HasDone(queue[t])
      /\ HasDone(Append(queue[t], "calls")) => HasDone(queue[t])
      /\ HasDone(Append(queue[t], "results")) => HasDone(queue[t])
  BY <1>0, DoneInQueue DEF Item
<1>1. CASE StreamText(t)
  BY <1>0, <1>d, <1>1 DEF StreamText, Put, Local, Running, Open, Over, Settled, TurnState
<1>2. CASE CallTools(t)
  BY <1>0, <1>d, <1>2 DEF CallTools, Put, Local, Running, Open, Over, Settled, TurnState
<1>3. CASE ToolsReturn(t)
  BY <1>0, <1>d, <1>3
  DEF ToolsReturn, Put, Local, Running, Open, Over, Settled, TurnState, Ending
<1>4. CASE Finish(t)
  BY <1>0, <1>4 DEF Finish, Local, Running, Open, Over, Settled, TurnState, Ending
<1>5. CASE ProviderFails(t)
  BY <1>0, <1>5 DEF ProviderFails, Local, Running, Open, Over, Settled, TurnState, Ending
<1>6. CASE Bug(t)
  BY <1>0, <1>6 DEF Bug, Local, Running, Open, Over, Settled, TurnState
<1>7. CASE Stray(t)
  BY <1>0, <1>7 DEF Stray, Working, Put, Local, Running, Open, Over, Settled, TurnState
<1>q. QED BY <1>1, <1>2, <1>3, <1>4, <1>5, <1>6, <1>7 DEF LoopStep

LEMMA SaveLocal ==
  ASSUME LocalInv, NEW t \in Turn, SaveStep(t)
  PROVE  Local(t)'
<1>0. /\ turn \in [Turn -> TurnState] /\ client \in [Turn -> ClientState]
      /\ queue \in [Turn -> Seq(Item)]
      /\ turn[t] \in TurnState /\ client[t] \in ClientState
      /\ Local(t) /\ queue[t] \in Seq(Item)
  BY DEF LocalInv, TypeOK
<1>d. /\ \A e \in Ending : HasDone(Append(queue[t], e)) => HasDone(queue[t])
      /\ HasDone(Append(queue[t], "crash")) => HasDone(queue[t])
  BY <1>0, DoneInQueue DEF Item, Ending
<1>1. CASE Save(t)
  BY <1>0, <1>1 DEF Save, Saved, Local, Running, Open, Over, Settled, TurnState
<1>2. CASE SaveFails(t)
  BY <1>0, <1>2 DEF SaveFails, Refused, Local, Running, Open, Over, Settled, TurnState, Ending
<1>3. CASE SaveDeadlocks(t)
  <2>1. /\ turn[t].pc = "saving" /\ UNCHANGED <<client, queue, job>>
        /\ turn' = [turn EXCEPT ![t] = Refused(turn[t])]
             \/ turn' = [turn EXCEPT ![t] = Saved(turn[t])]
    BY <1>3 DEF SaveDeadlocks
  <2>2. CASE turn' = [turn EXCEPT ![t] = Refused(turn[t])]
    BY <1>0, <2>1, <2>2 DEF Refused, Local, Running, Open, Over, Settled, TurnState, Ending
  <2>3. CASE turn' = [turn EXCEPT ![t] = Saved(turn[t])]
    BY <1>0, <2>1, <2>3 DEF Saved, Local, Running, Open, Over, Settled, TurnState
  <2>q. QED BY <2>1, <2>2, <2>3
<1>4. CASE Tell(t)
  BY <1>0, <1>d, <1>4 DEF Tell, Put, Local, Running, Open, Over, Settled, TurnState
<1>5. CASE PutDone(t)
  BY <1>0, <1>5 DEF PutDone, Put, Local, Running, Open, Over, Settled, TurnState
<1>6. CASE PutCrash(t)
  BY <1>0, <1>d, <1>6 DEF PutCrash, Put, Local, Running, Open, Over, Settled, TurnState
<1>q. QED BY <1>1, <1>2, <1>3, <1>4, <1>5, <1>6 DEF SaveStep

LEMMA StreamLocal ==
  ASSUME LocalInv, NEW t \in Turn, StreamStep(t)
  PROVE  Local(t)'
<1>0. /\ turn \in [Turn -> TurnState] /\ client \in [Turn -> ClientState]
      /\ queue \in [Turn -> Seq(Item)]
      /\ turn[t] \in TurnState /\ client[t] \in ClientState
      /\ Local(t) /\ queue[t] \in Seq(Item)
  BY DEF LocalInv, TypeOK
<1>d. ~HasDone(<<>>)
  BY <1>0, DoneInQueue
<1>r. /\ Released(t)[t].pc \in {"over", "stray"}
      /\ ~Released(t)[t].asked /\ ~Released(t)[t].dead /\ Released(t)[t].answer = "none"
  BY <1>0 DEF Released, Stopped, IdleTurn
<1>1. CASE SendStart(t)
  BY <1>0, <1>1 DEF SendStart, Local, Running, Open, Over, Settled, ClientState
<1>2. CASE Deliver(t)
  <2>1. /\ client[t].pc = "loop" /\ queue[t] # <<>> /\ UNCHANGED <<turn, job>>
        /\ queue'[t] = Tail(queue[t])
    BY <1>0, <1>2 DEF Deliver
  <2>2. HasDone(queue'[t]) \/ Head(queue[t]) = "done" => HasDone(queue[t])
    BY <1>0, <2>1, DoneInQueue
  <2>3. \/ client'[t].pc = "loop"
        \/ client'[t].pc = "closing" /\ (Head(queue[t]) = "done" \/ client'[t].exc)
    BY <1>0, <1>2, <2>1 DEF Deliver, ClientState
  <2>q. QED BY <1>0, <2>1, <2>2, <2>3 DEF Local, Running, Open, Over
<1>3. CASE Disconnect(t)
  BY <1>0, <1>3 DEF Disconnect, Local, Running, Open, Over, Settled, ClientState
<1>11. CASE Unread(t)
  <2>1. /\ client'[t].pc = "unread" /\ turn'[t].pc = "over"
        /\ turn'[t].asked = turn[t].asked /\ turn'[t].dead = turn[t].dead
        /\ turn'[t].answer = turn[t].answer
        /\ queue'[t] = <<>>
        /\ ~turn[t].asked /\ ~turn[t].dead
    BY <1>0, <1>11 DEF Unread, Local, TurnState, ClientState
  <2>q. QED BY <1>0, <1>d, <2>1 DEF Local, Running, Open, Over
<1>4. CASE StopPump(t)
  <2>1. /\ client[t].pc = "closing" /\ client'[t].pc = "exiting"
        /\ client'[t].exc = client[t].exc /\ job' = job
        /\ turn'[t].pc = Stopped(t) /\ turn'[t].asked = turn[t].asked
        /\ turn'[t].dead = turn[t].dead /\ turn'[t].answer = turn[t].answer
        /\ queue'[t] = <<>>
    BY <1>0, <1>4 DEF StopPump, TurnState, ClientState
  <2>2. Settled(turn[t]) => Settled(turn'[t])
    BY <2>1 DEF Settled, Stopped
  <2>q. QED BY <1>0, <1>d, <2>1, <2>2 DEF Local, Stopped, Running, Open, Over
<1>5. ASSUME turn' = Released(t), client'[t].pc \in Over, queue'[t] = <<>>
      PROVE  Local(t)'
  BY <1>d, <1>r, <1>5 DEF Local, Running, Open, Over
<1>6. ASSUME turn' = Released(t), queue' = queue, client[t].pc = "exiting",
             \E pc \in Over : client' = [client EXCEPT ![t].pc = pc]
      PROVE  Local(t)'
  <2>1. client'[t].pc \in Over
    BY <1>0, <1>6 DEF ClientState
  <2>2. queue'[t] = <<>>
    BY <1>0, <1>6 DEF Local, Open
  <2>q. QED BY <1>5, <1>6, <2>1, <2>2
<1>7. CASE Commit(t) \/ CloseDead(t)
  BY <1>6, <1>7 DEF Commit, CloseDead, Over
<1>8. CASE CommitFails(t)
  BY <1>6, <1>8 DEF CommitFails, Over
<1>9. CASE Rollback(t)
  BY <1>6, <1>9 DEF Rollback, Over
<1>10. CASE Crash(t)
  <2>1. client'[t].pc \in Over /\ queue'[t] = <<>>
    BY <1>0, <1>10 DEF Crash, Over, ClientState
  <2>q. QED BY <1>5, <1>10, <2>1 DEF Crash
<1>q. QED BY <1>1, <1>2, <1>3, <1>4, <1>7, <1>8, <1>9, <1>10, <1>11 DEF StreamStep

LEMMA TitleLocal ==
  ASSUME LocalInv, NEW t \in Turn, TitleStep(t)
  PROVE  Local(t)'
<1>0. /\ client \in [Turn -> ClientState] /\ client[t] \in ClientState
      /\ Local(t)
  BY DEF LocalInv, TypeOK
<1>1. CASE QueueTitle(t) \/ QueueTitleFails(t)
  <2>1. /\ UNCHANGED <<turn, queue>>
        /\ client[t].pc = "titling" /\ client'[t].pc = "closed"
    BY <1>0, <1>1 DEF QueueTitle, QueueTitleFails, ClientState
  <2>q. QED BY <1>0, <2>1 DEF Local, Running, Open, Over
<1>2. CASE StartTitle(t) \/ WriteTitle(t) \/ TitleFails(t) \/ KillTitle(t) \/ GiveUpTitle(t)
  <2>1. UNCHANGED <<turn, queue, client>> /\ job[t].pc \in {"queued", "writing"}
    BY <1>2 DEF StartTitle, WriteTitle, TitleFails, KillTitle, GiveUpTitle
  <2>q. QED BY <1>0, <2>1 DEF Local, NoJob
<1>q. QED BY <1>1, <1>2 DEF TitleStep

LEMMA LocalInit == Init => LocalInv
<1> SUFFICES ASSUME Init PROVE LocalInv
  OBVIOUS
<1>1. TypeOK
  BY InitTyped
<1>2. ASSUME NEW t \in Turn PROVE Local(t)
  <2>1. /\ turn[t] = IdleTurn /\ client[t].pc = "none" /\ queue[t] = <<>> /\ job[t] = NoJob
    BY DEF Init, IdleClient
  <2>2. ~HasDone(queue[t])
    BY <1>1, <2>1, DoneInQueue DEF TypeOK
  <2>q. QED BY <2>1, <2>2 DEF Local, IdleTurn, Running, Over
<1>q. QED BY <1>1, <1>2 DEF LocalInv

LEMMA LocalStep == ASSUME LocalInv, [Next]_vars PROVE LocalInv'
<1>1. CASE UNCHANGED vars
  BY <1>1 DEF vars, LocalInv, TypeOK, Local
<1>2. ASSUME NEW t \in Turn,
             AskStep(t) \/ LoopStep(t) \/ SaveStep(t) \/ StreamStep(t) \/ TitleStep(t)
      PROVE  LocalInv'
  <2>1. Local(t)
    BY DEF LocalInv
  <2>2. TypeOK'
    <3>1. job[t].pc \in {"queued", "writing"} => turn[t].pc # "idle"
      BY <2>1 DEF Local, NoJob
    <3>2. turn[t].pc = "idle" => client[t].pc = "none"
      BY <2>1 DEF Local
    <3>q. QED
      BY <1>2, <2>1, <3>1, <3>2, AskTyped, LoopTyped, SaveTyped, StreamTyped, TitleTyped
      DEF LocalInv, Local
  <2>3. Local(t)'
    BY <1>2, AskLocal, LoopLocal, SaveLocal, StreamLocal, TitleLocal
  <2>4. ASSUME NEW u \in Turn \ {t} PROVE Local(u)'
    <3>1. /\ turn'[u] = turn[u] /\ client'[u] = client[u]
          /\ queue'[u] = queue[u] /\ job'[u] = job[u]
      BY <1>2, OthersStay DEF LocalInv
    <3>2. Local(u)
      BY DEF LocalInv
    <3>q. QED BY <3>1, <3>2 DEF Local
  <2>q. QED BY <2>2, <2>3, <2>4 DEF LocalInv
<1>3. CASE DeleteStep
  <2>1. TypeOK' /\ UNCHANGED <<turn, client, queue, job>>
    BY <1>3, DeleteTyped DEF LocalInv, DeleteStep, DeleteAgent, DeleteCascades
  <2>q. QED BY <2>1 DEF LocalInv, Local
<1>q. QED BY <1>1, <1>2, <1>3 DEF Next

\* Every state of a chat turn is typed: no queue, step or row leaves its range,
\* whatever turns, failures and deletes come together.
THEOREM Typed == Spec => []TypeOK
<1>1. LocalInv => TypeOK
  BY DEF LocalInv
<1>q. QED BY LocalInit, LocalStep, <1>1, PTL DEF Spec

-----------------------------------------------------------------------------
(* What is stored, and what an open transaction may still add to it *)

\* The transaction of the turn has ended.
Ended(t) == client[t].pc \in Over

\* Every number before the turn's own is taken.
Backed(t) ==
    /\ turn[t].seq > 0
    /\ \A k \in 1..(turn[t].seq - 1) :
         \E n \in messages : n.conv = turn[t].conv /\ n.seq = k

RowsAreOfEnded ==
    \A m \in messages :
        conv[m.conv] = "live" /\ Ended(m.turn) /\ turn[m.turn].conv = m.conv

\* A conversation that a turn creates is its own until it commits.
CreatedAlone ==
    \A t \in Turn :
        /\ turn[t].created =>
             /\ ~Ended(t) => conv[turn[t].conv] = "absent"
             /\ \A u \in Turn :
                  turn[u].created /\ turn[u].conv = turn[t].conv => u = t
        /\ turn[t].pc # "idle" /\ ~turn[t].created => conv[turn[t].conv] # "absent"

\* A number read and not yet used follows stored ones, unless they have gone.
AskingIsBacked ==
    \A t \in Turn :
        turn[t].pc = "asking" => Backed(t) \/ conv[turn[t].conv] = "deleted"

\* A question that was inserted comes after everything stored, and its
\* conversation has no other open question.
AskedIsNext ==
    \A t \in Turn : turn[t].asked =>
        /\ Backed(t)
        /\ \A m \in messages : m.conv = turn[t].conv => m.seq < turn[t].seq
        /\ Visible(t)
        /\ \A u \in Turn : turn[u].asked /\ turn[u].conv = turn[t].conv => u = t

DeletedAreLive == \A c \in deleting : conv[c] = "live"
BilledAreEnded == \A t \in billed : Ended(t)

StoredInv ==
    /\ LocalInv
    /\ NumberedInOrder
    /\ RowsAreOfEnded
    /\ CreatedAlone
    /\ AskingIsBacked
    /\ AskedIsNext
    /\ DeletedAreLive
    /\ BilledAreEnded
    /\ BilledWithItsAnswer
    /\ QuestionIsAnswered

\* A step that stores and inserts nothing, and begins and numbers no turn.
Quiet ==
    /\ UNCHANGED <<conv, messages, billed>>
    /\ deleting' \subseteq deleting
    /\ \A t \in Turn :
         /\ turn'[t].conv = turn[t].conv
         /\ turn'[t].created <=> turn[t].created
         /\ turn'[t].asked => turn[t].asked /\ turn'[t].seq = turn[t].seq
         /\ turn'[t].pc = "asking" => turn[t].pc = "asking" /\ turn'[t].seq = turn[t].seq
         /\ turn[t].pc = "stray" => turn'[t].pc = "stray"
         /\ turn'[t].pc = "idle" <=> turn[t].pc = "idle"
         /\ Ended(t) => Ended(t)'

Moves ==
    \/ Quiet
    \/ \E t \in Turn :
         \/ NumberQuestion(t) \/ InsertQuestion(t) \/ Commit(t)
         \/ \E c \in Conversation, created \in BOOLEAN : Send(t, c, created)
    \/ \E c \in Conversation : DeleteAgent(c) \/ DeleteCascades(c)

\* A turn's step is quiet when it is for the turn itself.
LEMMA QuietForOne ==
  ASSUME TypeOK, NEW t \in Turn,
         AskStep(t) \/ LoopStep(t) \/ SaveStep(t) \/ StreamStep(t) \/ TitleStep(t),
         UNCHANGED <<conv, messages, billed>>, deleting' \subseteq deleting,
         turn'[t].conv = turn[t].conv,
         turn'[t].created <=> turn[t].created,
         turn'[t].asked => turn[t].asked /\ turn'[t].seq = turn[t].seq,
         turn'[t].pc # "asking",
         turn[t].pc = "stray" => turn'[t].pc = "stray",
         turn'[t].pc # "idle", turn[t].pc # "idle",
         Ended(t) => Ended(t)'
  PROVE  Quiet
<1>1. \A u \in Turn \ {t} : turn'[u] = turn[u] /\ client'[u] = client[u]
  BY OthersStay
<1>q. QED BY <1>1 DEF Quiet, Ended

LEMMA AskMoves == ASSUME LocalInv, NEW t \in Turn, AskStep(t) PROVE Moves
<1>0. /\ turn \in [Turn -> TurnState] /\ turn[t] \in TurnState /\ TypeOK
  BY DEF LocalInv, TypeOK
<1>1. CASE ReadHistory(t) /\ turn'[t].pc = "numbering"
  BY <1>0, <1>1, QuietForOne DEF AskStep, ReadHistory, Moves, TurnState, Ended
<1>2. CASE ReadHistory(t) /\ turn'[t].pc = "raising"
  BY <1>0, <1>2, QuietForOne DEF AskStep, ReadHistory, Moves, TurnState, Ended
<1>3. CASE AskFails(t)
  <2>1. /\ turn[t].pc \in {"started", "numbering", "asking"} /\ turn'[t].pc = "raising"
        /\ turn' = [turn EXCEPT ![t].pc = "raising"]
        /\ UNCHANGED <<conv, messages, billed, client, deleting>>
    BY <1>0, <1>3 DEF AskFails, TurnState
  <2>2. AskStep(t)
    BY <1>3 DEF AskStep
  <2>q. QED BY <1>0, <2>1, <2>2, QuietForOne DEF Moves, TurnState, Ended
<1>4. ReadHistory(t) => turn'[t].pc \in {"numbering", "raising"}
  BY <1>0 DEF ReadHistory, TurnState
<1>q. QED BY <1>1, <1>2, <1>3, <1>4 DEF AskStep, Moves

LEMMA LoopMoves == ASSUME LocalInv, NEW t \in Turn, LoopStep(t) PROVE Moves
<1>0. /\ turn \in [Turn -> TurnState] /\ turn[t] \in TurnState /\ TypeOK
  BY DEF LocalInv, TypeOK
<1>1. CASE StreamText(t)
  BY <1>0, <1>1, QuietForOne DEF LoopStep, StreamText, Moves, TurnState, Ended
<1>2. CASE CallTools(t)
  BY <1>0, <1>2, QuietForOne DEF LoopStep, CallTools, Moves, TurnState, Ended
<1>3. CASE ToolsReturn(t)
  BY <1>0, <1>3, QuietForOne DEF LoopStep, ToolsReturn, Moves, TurnState, Ended
<1>4. CASE Finish(t)
  BY <1>0, <1>4, QuietForOne DEF LoopStep, Finish, Moves, TurnState, Ended
<1>5. CASE ProviderFails(t)
  BY <1>0, <1>5, QuietForOne DEF LoopStep, ProviderFails, Moves, TurnState, Ended
<1>6. CASE Bug(t)
  BY <1>0, <1>6, QuietForOne DEF LoopStep, Bug, Moves, TurnState, Ended
<1>7. CASE Stray(t)
  <2>1. /\ turn[t].pc # "idle" /\ turn'[t].pc = "stray"
        /\ turn' = [turn EXCEPT ![t].pc = "stray"]
        /\ UNCHANGED <<conv, messages, billed, client, deleting>>
    BY <1>0, <1>7 DEF Stray, Working, TurnState
  <2>2. LoopStep(t)
    BY <1>7 DEF LoopStep
  <2>q. QED BY <1>0, <2>1, <2>2, QuietForOne DEF Moves, TurnState, Ended
<1>q. QED BY <1>1, <1>2, <1>3, <1>4, <1>5, <1>6, <1>7 DEF LoopStep

LEMMA SaveMoves == ASSUME LocalInv, NEW t \in Turn, SaveStep(t) PROVE Moves
<1>0. /\ turn \in [Turn -> TurnState] /\ turn[t] \in TurnState /\ TypeOK
  BY DEF LocalInv, TypeOK
<1>1. ASSUME turn[t].pc = "saving", SaveStep(t),
             turn' = [turn EXCEPT ![t] = Saved(turn[t])],
             UNCHANGED <<conv, messages, billed, client>>, deleting' \subseteq deleting
      PROVE  Moves
  BY <1>0, <1>1, QuietForOne DEF Saved, Moves, TurnState, Ended
<1>2. ASSUME turn[t].pc = "saving", SaveStep(t),
             turn' = [turn EXCEPT ![t] = Refused(turn[t])],
             UNCHANGED <<conv, messages, billed, client>>, deleting' \subseteq deleting
      PROVE  Moves
  BY <1>0, <1>2, QuietForOne DEF Refused, Moves, TurnState, Ended
<1>3. CASE Save(t)
  BY <1>1, <1>3 DEF SaveStep, Save
<1>4. CASE SaveFails(t)
  BY <1>2, <1>4 DEF SaveStep, SaveFails
<1>5. CASE SaveDeadlocks(t)
  BY <1>1, <1>2, <1>5 DEF SaveStep, SaveDeadlocks
<1>6. CASE Tell(t)
  BY <1>0, <1>6, QuietForOne DEF SaveStep, Tell, Moves, TurnState, Ended
<1>7. CASE PutDone(t)
  BY <1>0, <1>7, QuietForOne DEF SaveStep, PutDone, Moves, TurnState, Ended
<1>8. CASE PutCrash(t)
  BY <1>0, <1>8, QuietForOne DEF SaveStep, PutCrash, Moves, TurnState, Ended
<1>q. QED BY <1>3, <1>4, <1>5, <1>6, <1>7, <1>8 DEF SaveStep

LEMMA StreamMoves == ASSUME LocalInv, NEW t \in Turn, StreamStep(t) PROVE Moves
<1>0. /\ turn \in [Turn -> TurnState] /\ turn[t] \in TurnState /\ TypeOK
      /\ client \in [Turn -> ClientState] /\ client[t] \in ClientState /\ Local(t)
  BY DEF LocalInv, TypeOK
<1>r. /\ Released(t)[t].conv = turn[t].conv
      /\ Released(t)[t].created <=> turn[t].created
      /\ ~Released(t)[t].asked
      /\ Released(t)[t].pc = Stopped(t) /\ Stopped(t) \in {"over", "stray"}
      /\ turn[t].pc = "stray" => Stopped(t) = "stray"
  BY <1>0 DEF Released, Stopped, IdleTurn, TurnState
<1>n. client[t].pc # "none" => turn[t].pc # "idle"
  BY <1>0 DEF Local
<1>1. ASSUME StreamStep(t), UNCHANGED <<turn, conv, messages, billed, deleting>>,
             client[t].pc \in {"first", "loop"}
      PROVE  Moves
  <2>1. \A u \in Turn \ {t} : client'[u] = client[u]
    BY <1>0, <1>1, OthersStay
  <2>2. ~Ended(t)
    BY <1>1 DEF Ended, Over
  <2>q. QED BY <1>1, <2>1, <2>2 DEF Moves, Quiet, Ended
<1>2. CASE SendStart(t) \/ Deliver(t) \/ Disconnect(t)
  BY <1>1, <1>2 DEF StreamStep, SendStart, Deliver, Disconnect
<1>3. CASE StopPump(t)
  <2>1. /\ turn'[t].conv = turn[t].conv /\ turn'[t].seq = turn[t].seq
        /\ turn'[t].created <=> turn[t].created
        /\ turn'[t].asked <=> turn[t].asked
        /\ turn'[t].pc = Stopped(t)
    BY <1>0, <1>3 DEF StopPump, TurnState
  <2>2. /\ client[t].pc = "closing" /\ ~Ended(t)
        /\ UNCHANGED <<conv, messages, billed, deleting>>
    BY <1>3 DEF StopPump, Ended, Over
  <2>3. StreamStep(t) /\ turn[t].pc # "idle"
    BY <1>3, <1>n, <2>2 DEF StreamStep
  <2>4. turn'[t].pc # "asking" /\ turn'[t].pc # "idle"
    BY <1>r, <2>1
  <2>q. QED BY <1>0, <1>r, <2>1, <2>2, <2>3, <2>4, QuietForOne DEF Moves
<1>4. ASSUME StreamStep(t), turn' = Released(t), client[t].pc # "none",
             UNCHANGED <<conv, messages, billed, deleting>>,
             \E pc \in Over : client' = [client EXCEPT ![t].pc = pc]
      PROVE  Moves
  <2>1. Ended(t)'
    BY <1>0, <1>4 DEF Ended, ClientState
  <2>q. QED BY <1>0, <1>4, <1>n, <1>r, <2>1, QuietForOne DEF Moves
<1>7. CASE Unread(t)
  <2>1. /\ turn'[t].conv = turn[t].conv /\ turn'[t].seq = turn[t].seq
        /\ turn'[t].created <=> turn[t].created
        /\ turn'[t].asked <=> turn[t].asked
        /\ turn'[t].pc = "over" /\ turn[t].pc = "started"
    BY <1>0, <1>7 DEF Unread, TurnState
  <2>2. /\ client[t].pc = "first" /\ ~Ended(t)
        /\ UNCHANGED <<conv, messages, billed, deleting>>
    BY <1>7 DEF Unread, Ended, Over
  <2>3. StreamStep(t)
    BY <1>7 DEF StreamStep
  <2>q. QED BY <1>0, <2>1, <2>2, <2>3, QuietForOne DEF Moves
<1>5. CASE CommitFails(t) \/ Rollback(t) \/ CloseDead(t) \/ Crash(t)
  BY <1>4, <1>5 DEF StreamStep, CommitFails, Rollback, CloseDead, Crash, Over
<1>6. CASE Commit(t)
  BY <1>6 DEF Moves
<1>q. QED BY <1>2, <1>3, <1>5, <1>6, <1>7 DEF StreamStep

LEMMA StepMoves == ASSUME LocalInv, [Next]_vars PROVE Moves
<1>1. CASE UNCHANGED vars
  BY <1>1 DEF vars, Moves, Quiet, Ended
<1>2. ASSUME NEW t \in Turn, TitleStep(t) PROVE Moves
  <2>1. /\ UNCHANGED <<conv, messages, billed, turn, deleting>>
        /\ client' = client \/ client' = [client EXCEPT ![t].pc = "closed"]
    BY <1>2 DEF TitleStep, QueueTitle, QueueTitleFails, StartTitle, WriteTitle,
                TitleFails, KillTitle, GiveUpTitle
  <2>2. client \in [Turn -> ClientState]
    BY DEF LocalInv, TypeOK
  <2>3. \A u \in Turn : Ended(u) => Ended(u)'
    BY <2>1, <2>2 DEF Ended, Over, ClientState
  <2>q. QED BY <2>1, <2>3 DEF Moves, Quiet
<1>3. CASE DeleteStep
  BY <1>3 DEF DeleteStep, Moves
<1>q. QED BY <1>1, <1>2, <1>3, AskMoves, LoopMoves, SaveMoves, StreamMoves DEF Next

-----------------------------------------------------------------------------
(* The invariant of what is stored *)

LEMMA StoredInit == Init => StoredInv
<1> SUFFICES ASSUME Init PROVE StoredInv
  OBVIOUS
<1>1. /\ LocalInv /\ messages = {} /\ billed = {} /\ deleting = {}
      /\ \A t \in Turn : turn[t] = IdleTurn
  BY LocalInit DEF Init
<1>q. QED BY <1>1
          DEF StoredInv, NumberedInOrder, RowsAreOfEnded, CreatedAlone, AskingIsBacked,
              AskedIsNext, DeletedAreLive, BilledAreEnded, BilledWithItsAnswer,
              QuestionIsAnswered, IdleTurn

LEMMA QuietKeeps == ASSUME StoredInv, LocalInv', Quiet PROVE StoredInv'
<1>0. /\ UNCHANGED <<conv, messages, billed>> /\ messages \subseteq Message
      /\ \A t \in Turn : turn'[t].conv = turn[t].conv
      /\ \A t \in Turn : Ended(t) => Ended(t)'
  BY DEF Quiet, StoredInv, LocalInv, TypeOK
<1>1. NumberedInOrder' /\ DeletedAreLive'
  BY <1>0 DEF StoredInv, NumberedInOrder, DeletedAreLive, Quiet
<1>2. RowsAreOfEnded' /\ BilledAreEnded'
  BY <1>0 DEF StoredInv, RowsAreOfEnded, BilledAreEnded, Message, LocalInv, TypeOK
<1>3. CreatedAlone'
  BY <1>0 DEF StoredInv, CreatedAlone, Quiet
<1>4. AskingIsBacked'
  BY <1>0 DEF StoredInv, AskingIsBacked, Backed, Quiet
<1>5. AskedIsNext'
  BY <1>0 DEF StoredInv, AskedIsNext, Backed, Visible, Quiet
<1>6. BilledWithItsAnswer'
  BY <1>0 DEF StoredInv, BilledWithItsAnswer
<1>7. QuestionIsAnswered'
  BY <1>0 DEF StoredInv, QuestionIsAnswered, Quiet, Message
<1>q. QED BY <1>1, <1>2, <1>3, <1>4, <1>5, <1>6, <1>7 DEF StoredInv

LEMMA SendKeeps ==
  ASSUME StoredInv, LocalInv', NEW t \in Turn, NEW c \in Conversation,
         NEW created \in BOOLEAN, Send(t, c, created)
  PROVE  StoredInv'
<1>0. /\ turn \in [Turn -> TurnState] /\ client \in [Turn -> ClientState]
      /\ messages \subseteq Message /\ billed \subseteq Turn
      /\ turn[t] = IdleTurn /\ client[t].pc = "none" /\ ~Ended(t)
  BY DEF StoredInv, LocalInv, TypeOK, Local, Send, Ended, Over
<1>1. /\ turn'[t].conv = c /\ turn'[t].pc = "started"
      /\ turn'[t].created = created /\ ~turn'[t].asked
      /\ \A u \in Turn \ {t} : turn'[u] = turn[u]
      /\ UNCHANGED <<conv, messages, billed, deleting>>
  BY <1>0 DEF Send, IdleTurn
<1>2. ~Ended(t)' /\ \A u \in Turn \ {t} : Ended(u)' <=> Ended(u)
  BY <1>0 DEF Send, Ended, Over, ClientState
<1>3. \A m \in messages : m.turn \in Turn \ {t}
  BY <1>0 DEF StoredInv, RowsAreOfEnded, Message
<1>4. NumberedInOrder' /\ DeletedAreLive'
  BY <1>1 DEF StoredInv, NumberedInOrder, DeletedAreLive
<1>5. RowsAreOfEnded' /\ BilledAreEnded'
  BY <1>0, <1>1, <1>2, <1>3 DEF StoredInv, RowsAreOfEnded, BilledAreEnded
<1>6. CreatedAlone'
  <2>1. CASE created
    <3>1. conv[c] = "absent" /\ \A u \in Turn : turn[u].conv # c
      BY <2>1 DEF Send
    <3>2. \A u \in Turn : turn'[u].created /\ turn'[u].conv = c => u = t
      BY <1>1, <3>1
    <3>3. \A u \in Turn \ {t} : turn'[u].conv # c
      BY <1>1, <3>1
    <3>4. ASSUME NEW u \in Turn, turn'[u].created
          PROVE  /\ ~Ended(u)' => conv'[turn'[u].conv] = "absent"
                 /\ \A v \in Turn :
                      turn'[v].created /\ turn'[v].conv = turn'[u].conv => v = u
      <4>1. CASE u = t
        BY <1>1, <3>1, <3>2, <4>1
      <4>2. CASE u # t
        BY <1>1, <1>2, <3>3, <3>4, <4>2 DEF StoredInv, CreatedAlone
      <4>q. QED BY <4>1, <4>2
    <3>5. ASSUME NEW u \in Turn, turn'[u].pc # "idle", ~turn'[u].created
          PROVE  conv'[turn'[u].conv] # "absent"
      <4>1. u # t
        BY <1>1, <2>1, <3>5
      <4>q. QED BY <1>1, <3>5, <4>1 DEF StoredInv, CreatedAlone
    <3>q. QED BY <3>4, <3>5 DEF CreatedAlone
  <2>2. CASE ~created
    <3>1. conv[c] = "live"
      BY <2>2 DEF Send
    <3>q. QED BY <1>1, <1>2, <2>2, <3>1 DEF StoredInv, CreatedAlone
  <2>q. QED BY <2>1, <2>2
<1>7. AskingIsBacked'
  BY <1>1 DEF StoredInv, AskingIsBacked, Backed
<1>8. AskedIsNext'
  BY <1>1 DEF StoredInv, AskedIsNext, Backed, Visible
<1>9. BilledWithItsAnswer'
  BY <1>0, <1>1, <1>3 DEF StoredInv, BilledWithItsAnswer, BilledAreEnded
<1>10. QuestionIsAnswered'
  BY <1>0, <1>1, <1>3 DEF StoredInv, QuestionIsAnswered
<1>q. QED BY <1>4, <1>5, <1>6, <1>7, <1>8, <1>9, <1>10 DEF StoredInv

LEMMA NumberKeeps ==
  ASSUME StoredInv, LocalInv', NEW t \in Turn, NumberQuestion(t)
  PROVE  StoredInv'
<1>0. /\ turn \in [Turn -> TurnState] /\ turn[t] \in TurnState
      /\ messages \subseteq Message /\ ~turn[t].asked
      /\ turn[t].pc = "numbering"
      /\ UNCHANGED <<conv, messages, billed, deleting, client>>
  BY DEF StoredInv, LocalInv, TypeOK, Local, NumberQuestion
<1>1. /\ turn'[t].conv = turn[t].conv
      /\ turn'[t].created <=> turn[t].created
      /\ ~turn'[t].asked /\ turn'[t].pc \in {"asking", "raising"}
      /\ \A u \in Turn \ {t} : turn'[u] = turn[u]
  <2>1. CASE turn' = [turn EXCEPT ![t].pc = "raising"]
    BY <1>0, <2>1 DEF TurnState
  <2>2. ASSUME NEW n, turn' = [turn EXCEPT ![t] = [@ EXCEPT !.pc = "asking", !.seq = n]]
        PROVE  /\ turn'[t].conv = turn[t].conv
               /\ turn'[t].created <=> turn[t].created
               /\ ~turn'[t].asked /\ turn'[t].pc \in {"asking", "raising"}
               /\ \A u \in Turn \ {t} : turn'[u] = turn[u]
    BY <1>0, <2>2 DEF TurnState
  <2>q. QED BY <2>1, <2>2 DEF NumberQuestion
<1>2. turn'[t].pc = "asking" => Backed(t)'
  <2> SUFFICES ASSUME turn'[t].pc = "asking" PROVE Backed(t)'
    OBVIOUS
  <2>1. PICK n \in {1} \union {m.seq + 1 : m \in Committed(turn[t].conv)} :
          /\ IsNextSeq(turn[t].conv, n)
          /\ turn' = [turn EXCEPT ![t] = [@ EXCEPT !.pc = "asking", !.seq = n]]
    <3>1. turn' # [turn EXCEPT ![t].pc = "raising"]
      BY <1>0 DEF TurnState
    <3>q. QED BY <3>1 DEF NumberQuestion
  <2>2. turn'[t].seq = n
    BY <1>0, <2>1 DEF TurnState
  <2>3. CASE n = 1
    BY <1>0, <2>2, <2>3 DEF Backed
  <2>4. ASSUME NEW m \in Committed(turn[t].conv), n = m.seq + 1
        PROVE  Backed(t)'
    <3>1. m \in messages /\ m.conv = turn[t].conv /\ m.seq \in Nat
      BY <1>0, <2>4 DEF Committed, Message
    <3>2. \A k \in 1..m.seq : \E x \in messages : x.conv = m.conv /\ x.seq = k
      BY <3>1 DEF StoredInv, NumberedInOrder
    <3>3. n > 0 /\ n - 1 = m.seq
      BY <2>4, <3>1
    <3>q. QED BY <1>0, <1>1, <2>2, <3>1, <3>2, <3>3 DEF Backed
  <2>q. QED BY <2>1, <2>3, <2>4
<1>3. AskingIsBacked'
  BY <1>0, <1>1, <1>2 DEF StoredInv, AskingIsBacked, Backed
<1>4. AskedIsNext'
  BY <1>0, <1>1 DEF StoredInv, AskedIsNext, Backed, Visible
<1>5. CreatedAlone'
  BY <1>0, <1>1 DEF StoredInv, CreatedAlone, Ended
<1>6. RowsAreOfEnded' /\ BilledAreEnded'
  BY <1>0, <1>1 DEF StoredInv, RowsAreOfEnded, BilledAreEnded, Ended, Message
<1>7. NumberedInOrder' /\ DeletedAreLive'
  BY <1>0 DEF StoredInv, NumberedInOrder, DeletedAreLive
<1>8. BilledWithItsAnswer'
  BY <1>0, <1>1 DEF StoredInv, BilledWithItsAnswer
<1>9. QuestionIsAnswered'
  BY <1>0, <1>1 DEF StoredInv, QuestionIsAnswered, Message
<1>q. QED BY <1>3, <1>4, <1>5, <1>6, <1>7, <1>8, <1>9 DEF StoredInv

\* The number a transaction inserts is the next one: one that is smaller is
\* taken, and one that is larger is not backed.
LEMMA InsertKeeps ==
  ASSUME StoredInv, LocalInv', NEW t \in Turn, InsertQuestion(t)
  PROVE  StoredInv'
<1>0. /\ turn \in [Turn -> TurnState] /\ turn[t] \in TurnState
      /\ messages \subseteq Message
      /\ ~turn[t].asked /\ turn[t].pc = "asking"
      /\ UNCHANGED <<conv, messages, billed, deleting, client>>
  BY DEF StoredInv, LocalInv, TypeOK, Local, InsertQuestion
<1>1. /\ turn'[t].conv = turn[t].conv /\ turn'[t].seq = turn[t].seq
      /\ turn'[t].created <=> turn[t].created
      /\ turn'[t].pc \in {"model", "raising"}
      /\ \A u \in Turn \ {t} : turn'[u] = turn[u]
  <2>1. CASE turn' = [turn EXCEPT ![t].pc = "raising"]
    BY <1>0, <2>1 DEF TurnState
  <2>2. CASE turn' = [turn EXCEPT ![t] = [@ EXCEPT !.pc = "model", !.asked = TRUE]]
    BY <1>0, <2>2 DEF TurnState
  <2>q. QED BY <2>1, <2>2 DEF InsertQuestion
<1>2. ASSUME turn'[t].asked
      PROVE  /\ Visible(t) /\ Backed(t)
             /\ \A m \in messages : m.conv = turn[t].conv => m.seq < turn[t].seq
             /\ \A u \in Turn : turn[u].asked => turn[u].conv # turn[t].conv
  <2>1. /\ Visible(t)
        /\ \A m \in messages : m.conv = turn[t].conv => m.seq # turn[t].seq
        /\ \A u \in Turn : turn[u].asked /\ turn[u].conv = turn[t].conv
                             => turn[u].seq # turn[t].seq
    <3>1. turn' # [turn EXCEPT ![t].pc = "raising"]
      BY <1>0, <1>2 DEF TurnState
    <3>q. QED BY <3>1 DEF InsertQuestion, Holders, Committed
  <2>2. turn[t].seq \in Nat /\ \A m \in messages : m.seq \in Nat
    BY <1>0 DEF TurnState, Message
  <2>3. conv[turn[t].conv] # "deleted"
    <3>1. turn[t].created => ~Ended(t)
      BY <1>0 DEF StoredInv, LocalInv, Local, Ended, Running, Open, Over
    <3>q. QED BY <2>1, <3>1 DEF Visible, StoredInv, CreatedAlone
  <2>4. Backed(t)
    BY <1>0, <2>3 DEF StoredInv, AskingIsBacked
  <2>5. \A m \in messages : m.conv = turn[t].conv => m.seq < turn[t].seq
    <3> SUFFICES ASSUME NEW m \in messages, m.conv = turn[t].conv, m.seq > turn[t].seq
                 PROVE  FALSE
      BY <2>1, <2>2
    <3>1. turn[t].seq \in 1..m.seq
      BY <2>2, <2>4 DEF Backed
    <3>2. \E n \in messages : n.conv = m.conv /\ n.seq = turn[t].seq
      BY <3>1 DEF StoredInv, NumberedInOrder
    <3>q. QED BY <2>1, <3>2
  <2>6. ASSUME NEW u \in Turn, turn[u].asked, turn[u].conv = turn[t].conv
        PROVE  FALSE
    <3>1. /\ Backed(u) /\ turn[u].seq \in Nat /\ turn[u].seq # turn[t].seq
          /\ \A m \in messages : m.conv = turn[t].conv => m.seq < turn[u].seq
      BY <1>0, <2>1, <2>6 DEF StoredInv, AskedIsNext, TurnState
    <3>2. CASE turn[t].seq < turn[u].seq
      <4>1. turn[t].seq \in 1..(turn[u].seq - 1)
        BY <2>2, <2>4, <3>1, <3>2 DEF Backed
      <4>q. QED BY <2>1, <2>6, <3>1, <4>1 DEF Backed
    <3>3. CASE turn[u].seq < turn[t].seq
      <4>1. turn[u].seq \in 1..(turn[t].seq - 1)
        BY <2>2, <3>1, <3>3 DEF Backed
      <4>2. \E n \in messages : n.conv = turn[t].conv /\ n.seq = turn[u].seq
        BY <2>4, <4>1 DEF Backed
      <4>q. QED BY <2>2, <3>1, <4>2
    <3>q. QED BY <2>2, <3>1, <3>2, <3>3
  <2>q. QED BY <2>1, <2>4, <2>5, <2>6
<1>3. AskedIsNext'
  BY <1>0, <1>1, <1>2 DEF StoredInv, AskedIsNext, Backed, Visible
<1>4. AskingIsBacked'
  BY <1>0, <1>1 DEF StoredInv, AskingIsBacked, Backed
<1>5. CreatedAlone'
  BY <1>0, <1>1 DEF StoredInv, CreatedAlone, Ended
<1>6. RowsAreOfEnded' /\ BilledAreEnded'
  BY <1>0, <1>1 DEF StoredInv, RowsAreOfEnded, BilledAreEnded, Ended, Message
<1>7. NumberedInOrder' /\ DeletedAreLive'
  BY <1>0 DEF StoredInv, NumberedInOrder, DeletedAreLive
<1>8. BilledWithItsAnswer'
  BY <1>0, <1>1 DEF StoredInv, BilledWithItsAnswer
<1>9. QuestionIsAnswered'
  BY <1>0, <1>1 DEF StoredInv, QuestionIsAnswered, Message
<1>q. QED BY <1>3, <1>4, <1>5, <1>6, <1>7, <1>8, <1>9 DEF StoredInv

\* What a transaction commits: nothing, a question a stray exception left
\* alone, or a question and its answer.
LEMMA CommittedRows ==
  ASSUME LocalInv, NEW t \in Turn, Commit(t)
  PROVE  /\ turn[t].pc \in {"over", "stray"}
         /\ \/ ~turn[t].asked /\ Rows(t) = {} /\ turn[t].answer = "none"
            \/ /\ turn[t].asked /\ Rows(t) = {Question(t)} /\ turn[t].answer = "none"
               /\ turn[t].pc = "stray"
            \/ /\ turn[t].asked /\ Rows(t) = {Question(t), Answer(t)}
               /\ turn[t].answer \in {"answered", "partial"}
<1>1. /\ Local(t) /\ turn[t] \in TurnState /\ client[t].pc = "exiting"
      /\ ~client[t].exc /\ ~turn[t].dead
  BY DEF LocalInv, TypeOK, Commit
<1>2. Settled(turn[t])
  BY <1>1 DEF Local
<1>q. QED BY <1>1, <1>2 DEF Local, Settled, Rows, TurnState

\* The frame of a commit.
LEMMA CommitFrame ==
  ASSUME StoredInv, NEW t \in Turn, Commit(t)
  PROVE  /\ messages' = messages \union Rows(t) /\ deleting' = deleting
         /\ billed' = IF turn[t].answer = "answered" THEN billed \union {t} ELSE billed
         /\ conv' \in [Conversation -> {"absent", "live", "deleted"}]
         /\ \A c \in Conversation :
              conv'[c] = IF turn[t].created /\ c = turn[t].conv THEN "live" ELSE conv[c]
         /\ turn[t].conv \in Conversation
         /\ turn[t].created => conv[turn[t].conv] = "absent"
         /\ ~turn[t].created => conv[turn[t].conv] # "absent"
         /\ \A u \in Turn \ {t} : turn'[u] = turn[u] /\ client'[u] = client[u]
         /\ turn'[t].conv = turn[t].conv
         /\ turn'[t].created <=> turn[t].created
         /\ ~turn'[t].asked
         /\ turn'[t].pc = turn[t].pc
         /\ ~Ended(t) /\ Ended(t)'
         /\ t \notin billed
         /\ \A m \in messages : m \in Message /\ m.turn # t
<1>1. /\ TypeOK /\ Local(t) /\ turn[t] \in TurnState /\ client[t] \in ClientState
      /\ turn \in [Turn -> TurnState] /\ client \in [Turn -> ClientState]
      /\ conv \in [Conversation -> {"absent", "live", "deleted"}]
      /\ client[t].pc = "exiting" /\ messages \subseteq Message
      /\ turn[t].pc # "idle" /\ turn[t].conv \in Conversation
  BY DEF StoredInv, LocalInv, TypeOK, Commit, Local
<1>2. ~Ended(t) /\ Ended(t)'
  BY <1>1 DEF Commit, Ended, Over, ClientState
<1>3. turn[t].pc \in {"over", "stray"}
  BY CommittedRows DEF StoredInv
<1>4. /\ \A u \in Turn \ {t} : turn'[u] = turn[u] /\ client'[u] = client[u]
      /\ turn'[t].conv = turn[t].conv
      /\ turn'[t].created <=> turn[t].created
      /\ ~turn'[t].asked
      /\ turn'[t].pc = turn[t].pc
  BY <1>1, <1>3 DEF Commit, Released, Stopped, IdleTurn, TurnState
<1>5. t \notin billed /\ \A m \in messages : m \in Message /\ m.turn # t
  BY <1>1, <1>2 DEF StoredInv, BilledAreEnded, RowsAreOfEnded
<1>6. /\ turn[t].created => conv[turn[t].conv] = "absent"
      /\ ~turn[t].created => conv[turn[t].conv] # "absent"
  BY <1>1, <1>2 DEF StoredInv, CreatedAlone
<1>7. /\ conv' \in [Conversation -> {"absent", "live", "deleted"}]
      /\ \A c \in Conversation :
           conv'[c] = IF turn[t].created /\ c = turn[t].conv THEN "live" ELSE conv[c]
  BY <1>1 DEF Commit
<1>q. QED BY <1>1, <1>2, <1>4, <1>5, <1>6, <1>7 DEF Commit

LEMMA CommitKeeps ==
  ASSUME StoredInv, LocalInv', NEW t \in Turn, Commit(t)
  PROVE  StoredInv'
<1> DEFINE c == turn[t].conv
           s == turn[t].seq
<1>0. /\ messages' = messages \union Rows(t) /\ deleting' = deleting
      /\ billed' = IF turn[t].answer = "answered" THEN billed \union {t} ELSE billed
      /\ \A k \in Conversation :
           conv'[k] = IF turn[t].created /\ k = c THEN "live" ELSE conv[k]
      /\ c \in Conversation
      /\ turn[t].created => conv[c] = "absent"
      /\ ~turn[t].created => conv[c] # "absent"
      /\ \A u \in Turn \ {t} : turn'[u] = turn[u]
      /\ turn'[t].conv = c
      /\ turn'[t].created <=> turn[t].created
      /\ ~turn'[t].asked
      /\ turn'[t].pc = turn[t].pc
      /\ t \notin billed
      /\ \A m \in messages : m \in Message /\ m.turn # t
  BY CommitFrame
<1>1. /\ turn[t].pc \in {"over", "stray"}
      /\ \/ ~turn[t].asked /\ Rows(t) = {} /\ turn[t].answer = "none"
         \/ /\ turn[t].asked /\ Rows(t) = {Question(t)} /\ turn[t].answer = "none"
            /\ turn[t].pc = "stray"
         \/ /\ turn[t].asked /\ Rows(t) = {Question(t), Answer(t)}
            /\ turn[t].answer \in {"answered", "partial"}
  BY CommittedRows DEF StoredInv
<1>2. /\ Question(t).conv = c /\ Question(t).seq = s /\ Question(t).turn = t
      /\ Question(t).role = "user"
      /\ Answer(t).conv = c /\ Answer(t).seq = s + 1 /\ Answer(t).turn = t
      /\ Answer(t).role = turn[t].answer
  BY DEF Question, Answer
<1>3. /\ ~Ended(t) /\ Ended(t)'
      /\ \A u \in Turn \ {t} : Ended(u)' <=> Ended(u)
  BY CommitFrame DEF Ended
<1>4. /\ messages \subseteq Message /\ messages' \subseteq Message
      /\ turn[t] \in TurnState /\ s \in Nat
      /\ \A u \in Turn : turn[u].pc # "idle" => turn[u].conv \in Conversation
      /\ \A u \in Turn : turn[u].asked => turn[u].conv \in Conversation
  BY DEF StoredInv, LocalInv, TypeOK, TurnState, Local, IdleTurn
<1>5. turn[t].asked =>
        /\ s > 0
        /\ \A k \in 1..(s - 1) : \E n \in messages : n.conv = c /\ n.seq = k
        /\ \A m \in messages : m.conv = c => m.seq < s
        /\ conv'[c] = "live"
        /\ \A u \in Turn \ {t} : turn[u].asked => turn[u].conv # c
  BY <1>0 DEF StoredInv, AskedIsNext, Backed, Visible
<1>6. NumberedInOrder'
  <2>1. \A m \in Rows(t) : turn[t].asked /\ m.conv = c /\ m.seq \in {s, s + 1}
    BY <1>1, <1>2
  <2>2. \A m \in messages, n \in Rows(t) : m.conv = n.conv => m.seq < n.seq
    BY <1>0, <1>4, <1>5, <2>1 DEF Message
  <2>3. \A m, n \in Rows(t) : m.seq = n.seq => m = n
    BY <1>1, <1>2, <1>4
  <2>4. \A m, n \in messages' : m.conv = n.conv /\ m.seq = n.seq => m = n
    <3>1. \A m \in messages' : m.seq \in Nat
      BY <1>4 DEF Message
    <3>q. QED BY <1>0, <2>2, <2>3, <3>1 DEF StoredInv, NumberedInOrder
  <2>5. ASSUME NEW m \in messages
        PROVE  m.seq > 0 /\ \A k \in 1..m.seq : \E n \in messages' : n.conv = m.conv /\ n.seq = k
    BY <1>0 DEF StoredInv, NumberedInOrder
  <2>6. ASSUME NEW m \in Rows(t)
        PROVE  m.seq > 0 /\ \A k \in 1..m.seq : \E n \in messages' : n.conv = m.conv /\ n.seq = k
    <3>1. \A k \in 1..s : \E n \in messages' : n.conv = c /\ n.seq = k
      <4>1. \A k \in 1..s : k \in 1..(s - 1) \/ k = s
        BY <1>4
      <4>2. Question(t) \in messages'
        BY <1>0, <1>1, <2>1, <2>6
      <4>q. QED BY <1>0, <1>2, <1>5, <2>1, <2>6, <4>1, <4>2
    <3>2. CASE m.seq = s
      BY <1>5, <2>1, <2>6, <3>1, <3>2
    <3>3. CASE m.seq = s + 1
      <4>1. \A k \in 1..m.seq : k \in 1..s \/ k = m.seq
        BY <1>4, <3>3
      <4>2. m \in messages' /\ m.conv = c
        BY <1>0, <2>1, <2>6
      <4>q. QED BY <1>4, <3>1, <3>3, <4>1, <4>2
    <3>q. QED BY <2>1, <2>6, <3>2, <3>3
  <2>q. QED BY <1>0, <2>4, <2>5, <2>6 DEF NumberedInOrder
<1>7. RowsAreOfEnded'
  <2>1. \A m \in messages : conv'[m.conv] = "live" /\ Ended(m.turn)' /\ turn'[m.turn].conv = m.conv
    BY <1>0, <1>3, <1>4 DEF StoredInv, RowsAreOfEnded, Message
  <2>2. \A m \in Rows(t) : conv'[m.conv] = "live" /\ m.turn = t /\ m.conv = c
    BY <1>1, <1>2, <1>5
  <2>q. QED BY <1>0, <1>3, <2>1, <2>2 DEF RowsAreOfEnded
<1>8. CreatedAlone'
  <2>1. ASSUME NEW u \in Turn, turn'[u].created
        PROVE  /\ ~Ended(u)' => conv'[turn'[u].conv] = "absent"
               /\ \A v \in Turn :
                    turn'[v].created /\ turn'[v].conv = turn'[u].conv => v = u
    <3>1. \A v \in Turn : turn'[v].conv = turn[v].conv /\ (turn'[v].created <=> turn[v].created)
      BY <1>0
    <3>2. \A v \in Turn : turn'[v].created /\ turn'[v].conv = turn'[u].conv => v = u
      BY <2>1, <3>1 DEF StoredInv, CreatedAlone
    <3>3. ASSUME ~Ended(u)' PROVE conv'[turn'[u].conv] = "absent"
      <4>1. u # t /\ ~Ended(u) /\ turn[u].created
        BY <1>3, <2>1, <3>1, <3>3
      <4>2. turn[u].conv \in Conversation
        BY <1>4, <4>1 DEF StoredInv, LocalInv, Local, IdleTurn
      <4>3. conv[turn[u].conv] = "absent"
        BY <4>1 DEF StoredInv, CreatedAlone
      <4>4. turn[t].created => turn[u].conv # c
        BY <4>1 DEF StoredInv, CreatedAlone
      <4>q. QED BY <1>0, <3>1, <4>2, <4>3, <4>4
    <3>q. QED BY <3>2, <3>3
  <2>2. ASSUME NEW u \in Turn, turn'[u].pc # "idle", ~turn'[u].created
        PROVE  conv'[turn'[u].conv] # "absent"
    <3>1. turn[u].pc # "idle" /\ ~turn[u].created /\ turn'[u].conv = turn[u].conv
      BY <1>0, <1>1, <2>2
    <3>2. conv[turn[u].conv] # "absent" /\ turn[u].conv \in Conversation
      BY <1>4, <3>1 DEF StoredInv, CreatedAlone
    <3>q. QED BY <1>0, <3>1, <3>2
  <2>q. QED BY <2>1, <2>2 DEF CreatedAlone
<1>9. AskingIsBacked'
  <2> SUFFICES ASSUME NEW u \in Turn, turn'[u].pc = "asking"
               PROVE  Backed(u)' \/ conv'[turn'[u].conv] = "deleted"
    BY DEF AskingIsBacked
  <2>1. u # t /\ turn'[u] = turn[u] /\ turn[u].pc = "asking" /\ turn[u].conv \in Conversation
    BY <1>0, <1>1, <1>4
  <2>2. Backed(u) \/ conv[turn[u].conv] = "deleted"
    BY <2>1 DEF StoredInv, AskingIsBacked
  <2>q. QED BY <1>0, <2>1, <2>2 DEF Backed
<1>10. AskedIsNext'
  <2> SUFFICES ASSUME NEW u \in Turn, turn'[u].asked
               PROVE  /\ Backed(u)'
                      /\ \A m \in messages' : m.conv = turn'[u].conv => m.seq < turn'[u].seq
                      /\ Visible(u)'
                      /\ \A v \in Turn : turn'[v].asked /\ turn'[v].conv = turn'[u].conv => v = u
    BY DEF AskedIsNext
  <2>1. u # t /\ turn'[u] = turn[u] /\ turn[u].asked /\ turn[u].conv \in Conversation
    BY <1>0, <1>4
  <2>2. /\ Backed(u) /\ Visible(u)
        /\ \A m \in messages : m.conv = turn[u].conv => m.seq < turn[u].seq
        /\ \A v \in Turn : turn[v].asked /\ turn[v].conv = turn[u].conv => v = u
    BY <2>1 DEF StoredInv, AskedIsNext
  <2>3. \A m \in Rows(t) : m.conv # turn[u].conv
    BY <1>1, <1>2, <1>5, <2>1
  <2>4. Visible(u)'
    BY <1>0, <2>1, <2>2 DEF Visible
  <2>5. Backed(u)'
    BY <1>0, <2>1, <2>2 DEF Backed
  <2>q. QED BY <1>0, <2>1, <2>2, <2>3, <2>4, <2>5
<1>11. DeletedAreLive' /\ BilledAreEnded'
  <2>1. deleting \subseteq Conversation /\ billed \subseteq Turn
    BY DEF StoredInv, LocalInv, TypeOK
  <2>q. QED BY <1>0, <1>3, <2>1 DEF StoredInv, DeletedAreLive, BilledAreEnded
<1>12. BilledWithItsAnswer'
  <2> SUFFICES ASSUME NEW u \in Turn
               PROVE  IF \E m \in messages' : m.turn = u /\ m.role = "answered"
                        THEN u \in billed'
                        ELSE u \in billed' => conv'[turn'[u].conv] = "deleted"
    BY DEF BilledWithItsAnswer
  <2>1. \A m \in Rows(t) : m.turn = t
    BY <1>1, <1>2
  <2>2. CASE u = t
    <3>1. (\E m \in messages' : m.turn = t /\ m.role = "answered") <=> turn[t].answer = "answered"
      BY <1>0, <1>1, <1>2
    <3>q. QED BY <1>0, <2>2, <3>1
  <2>3. CASE u # t
    <3>1. (\E m \in messages' : m.turn = u /\ m.role = "answered")
            <=> (\E m \in messages : m.turn = u /\ m.role = "answered")
      BY <1>0, <2>1, <2>3
    <3>2. (u \in billed' <=> u \in billed) /\ turn'[u].conv = turn[u].conv
      BY <1>0, <2>3
    <3>3. u \in billed => turn[u].conv \in Conversation
      <4>1. u \in billed => client[u].pc # "none"
        BY DEF StoredInv, BilledAreEnded, Ended, Over
      <4>q. QED BY <1>4, <4>1 DEF StoredInv, LocalInv, Local
    <3>4. conv[turn[u].conv] = "deleted" /\ turn[u].conv \in Conversation
            => conv'[turn[u].conv] = "deleted"
      BY <1>0
    <3>q. QED BY <3>1, <3>2, <3>3, <3>4 DEF StoredInv, BilledWithItsAnswer
  <2>q. QED BY <2>2, <2>3
<1>13. QuestionIsAnswered'
  <2> SUFFICES ASSUME NEW m \in messages', m.role = "user"
               PROVE  \/ turn'[m.turn].pc = "stray"
                      \/ \E a \in messages' :
                           /\ a.conv = m.conv /\ a.turn = m.turn
                           /\ a.seq = m.seq + 1 /\ a.role # "user"
    BY DEF QuestionIsAnswered
  <2>1. CASE m \in messages
    <3>1. m.turn \in Turn \ {t} /\ turn'[m.turn] = turn[m.turn]
      BY <1>0, <2>1 DEF Message
    <3>q. QED BY <1>0, <2>1, <3>1 DEF StoredInv, QuestionIsAnswered
  <2>2. CASE m \in Rows(t)
    BY <1>0, <1>1, <1>2, <2>2
  <2>q. QED BY <1>0, <2>1, <2>2
<1>q. QED BY <1>6, <1>7, <1>8, <1>9, <1>10, <1>11, <1>12, <1>13 DEF StoredInv

LEMMA DeleteAgentKeeps ==
  ASSUME StoredInv, LocalInv', NEW c \in Conversation, DeleteAgent(c)
  PROVE  StoredInv'
<1>1. /\ UNCHANGED <<conv, messages, billed, turn, client>>
      /\ deleting' = deleting \union {c} /\ conv[c] = "live"
  BY DEF DeleteAgent
<1>2. DeletedAreLive'
  BY <1>1 DEF StoredInv, DeletedAreLive
<1>q. QED BY <1>1, <1>2
          DEF StoredInv, NumberedInOrder, RowsAreOfEnded, CreatedAlone, AskingIsBacked,
              AskedIsNext, BilledAreEnded, BilledWithItsAnswer, QuestionIsAnswered,
              Ended, Backed, Visible

LEMMA CascadeKeeps ==
  ASSUME StoredInv, LocalInv', NEW c \in Conversation, DeleteCascades(c)
  PROVE  StoredInv'
<1>0. /\ UNCHANGED <<billed, turn, client>> /\ deleting' = deleting \ {c}
      /\ messages' = {m \in messages : m.conv # c}
      /\ conv[c] = "live" /\ conv'[c] = "deleted"
      /\ \A k \in Conversation \ {c} : conv'[k] = conv[k]
      /\ \A t \in Turn : turn[t].asked => turn[t].conv # c
      /\ \A m \in messages : m \in Message
      /\ deleting \subseteq Conversation /\ billed \subseteq Turn
      /\ \A t \in Turn : turn[t].pc # "idle" => turn[t].conv \in Conversation
  BY DEF StoredInv, DeletedAreLive, LocalInv, TypeOK, DeleteCascades, Committed, Holders
<1>1. \A t \in Turn : (Ended(t)' <=> Ended(t)) /\ (Ended(t) => turn[t].pc # "idle")
  BY <1>0 DEF Ended, Over, StoredInv, LocalInv, Local
<1>2. NumberedInOrder'
  BY <1>0 DEF StoredInv, NumberedInOrder
<1>3. RowsAreOfEnded'
  BY <1>0, <1>1 DEF StoredInv, RowsAreOfEnded, Message
<1>4. CreatedAlone'
  <2>1. \A t \in Turn : turn[t].created => turn[t].pc # "idle"
    BY DEF StoredInv, LocalInv, Local, IdleTurn
  <2>q. QED BY <1>0, <1>1, <2>1 DEF StoredInv, CreatedAlone
<1>5. AskingIsBacked'
  <2> SUFFICES ASSUME NEW t \in Turn, turn[t].pc = "asking"
               PROVE  Backed(t)' \/ conv'[turn[t].conv] = "deleted"
    BY <1>0 DEF AskingIsBacked
  <2>1. turn[t].conv # c => Backed(t) \/ conv'[turn[t].conv] = "deleted"
    BY <1>0 DEF StoredInv, AskingIsBacked
  <2>2. turn[t].conv # c /\ Backed(t) => Backed(t)'
    BY <1>0 DEF Backed
  <2>q. QED BY <1>0, <2>1, <2>2
<1>6. AskedIsNext'
  <2> SUFFICES ASSUME NEW t \in Turn, turn[t].asked
               PROVE  /\ Backed(t)'
                      /\ \A m \in messages' : m.conv = turn[t].conv => m.seq < turn[t].seq
                      /\ Visible(t)'
                      /\ \A u \in Turn : turn[u].asked /\ turn[u].conv = turn[t].conv => u = t
    BY <1>0 DEF AskedIsNext
  <2>1. /\ Backed(t) /\ Visible(t)
        /\ \A m \in messages : m.conv = turn[t].conv => m.seq < turn[t].seq
        /\ \A u \in Turn : turn[u].asked /\ turn[u].conv = turn[t].conv => u = t
    BY DEF StoredInv, AskedIsNext
  <2>2. turn[t].conv \in Conversation \ {c}
    BY <1>0 DEF StoredInv, LocalInv, Local, IdleTurn
  <2>3. Backed(t)'
    BY <1>0, <2>1, <2>2 DEF Backed
  <2>4. Visible(t)'
    BY <1>0, <2>1, <2>2 DEF Visible
  <2>q. QED BY <1>0, <2>1, <2>3, <2>4
<1>7. DeletedAreLive' /\ BilledAreEnded'
  BY <1>0, <1>1 DEF StoredInv, DeletedAreLive, BilledAreEnded
<1>8. BilledWithItsAnswer'
  <2> SUFFICES ASSUME NEW t \in Turn
               PROVE  IF \E m \in messages' : m.turn = t /\ m.role = "answered"
                        THEN t \in billed
                        ELSE t \in billed => conv'[turn[t].conv] = "deleted"
    BY <1>0 DEF BilledWithItsAnswer
  <2>1. \A m \in messages : m.turn = t => m.conv = turn[t].conv
    BY DEF StoredInv, RowsAreOfEnded
  <2>2. t \in billed => turn[t].conv \in Conversation
    BY <1>0, <1>1 DEF StoredInv, BilledAreEnded
  <2>q. QED BY <1>0, <2>1, <2>2 DEF StoredInv, BilledWithItsAnswer
<1>9. QuestionIsAnswered'
  BY <1>0 DEF StoredInv, QuestionIsAnswered
<1>q. QED BY <1>2, <1>3, <1>4, <1>5, <1>6, <1>7, <1>8, <1>9 DEF StoredInv

LEMMA StoredStep == ASSUME StoredInv, [Next]_vars PROVE StoredInv'
<1>1. LocalInv' /\ Moves
  BY LocalStep, StepMoves DEF StoredInv
<1>q. QED BY <1>1, QuietKeeps, SendKeeps, NumberKeeps, InsertKeeps, CommitKeeps,
             DeleteAgentKeeps, CascadeKeeps DEF Moves

\* The messages of a conversation are numbered 1, 2, 3, ..., however many turns
\* run side by side and however they fail.
THEOREM StoredInOrder == Spec => []NumberedInOrder
<1>1. StoredInv => NumberedInOrder
  BY DEF StoredInv
<1>q. QED BY StoredInit, StoredStep, <1>1, PTL DEF Spec

\* A stored question is followed at once by its own answer, unless a stray
\* exception ended its generator.
THEOREM QuestionsAreAnswered == Spec => []QuestionIsAnswered
<1>1. StoredInv => QuestionIsAnswered
  BY DEF StoredInv
<1>q. QED BY StoredInit, StoredStep, <1>1, PTL DEF Spec

\* A turn is billed exactly when its complete answer is stored.
THEOREM AnswersAreBilled == Spec => []BilledWithItsAnswer
<1>1. StoredInv => BilledWithItsAnswer
  BY DEF StoredInv
<1>q. QED BY StoredInit, StoredStep, <1>1, PTL DEF Spec

-----------------------------------------------------------------------------
(* The stored conversations implement Transcript *)

EntryOf(m) == [conv |-> m.conv, turn |-> m.turn, at |-> m.seq]
Entries == {EntryOf(m) : m \in {n \in messages : n.role = "user"}}

LEMMA EntryFields ==
  \A m : EntryOf(m).conv = m.conv /\ EntryOf(m).turn = m.turn /\ EntryOf(m).at = m.seq
  BY DEF EntryOf

LEMMA CommitAppends ==
  ASSUME StoredInv, NEW t \in Turn, Commit(t)
  PROVE  [Stored!Next]_<<conv, Entries>>
<1> DEFINE c == turn[t].conv
           e == [conv |-> c, turn |-> t, at |-> turn[t].seq]
<1>0. /\ messages' = messages \union Rows(t)
      /\ conv \in [Conversation -> {"absent", "live", "deleted"}]
      /\ conv' = IF turn[t].created THEN [conv EXCEPT ![c] = "live"] ELSE conv
      /\ c \in Conversation
      /\ turn[t].created => conv[c] = "absent"
      /\ \A m \in messages : m \in Message /\ m.turn # t
      /\ turn[t].seq \in Nat
  <2>1. conv \in [Conversation -> {"absent", "live", "deleted"}] /\ turn[t] \in TurnState
    BY DEF StoredInv, LocalInv, TypeOK
  <2>2. conv' = IF turn[t].created THEN [conv EXCEPT ![c] = "live"] ELSE conv
    BY DEF Commit
  <2>3. turn[t].seq \in Nat
    BY <2>1 DEF TurnState
  <2>q. QED BY <2>1, <2>2, <2>3, CommitFrame
<1>1. CASE ~turn[t].asked
  <2>1. Entries' = Entries
    BY <1>0, <1>1, CommittedRows DEF StoredInv, Entries
  <2>2. CASE turn[t].created
    <3>1. /\ conv[c] = "absent" /\ conv' = [conv EXCEPT ![c] = "live"]
      BY <1>0, <2>2
    <3>2. Stored!Open(c)
      BY <2>1, <3>1 DEF Stored!Open, Entries, EntryOf
    <3>q. QED BY <1>0, <3>2 DEF Stored!Next
  <2>3. CASE ~turn[t].created
    BY <1>0, <2>1, <2>3
  <2>q. QED BY <2>2, <2>3
<1>2. CASE turn[t].asked
  <2>1. /\ Visible(t)
        /\ \A m \in messages : m.conv = c => m.seq < turn[t].seq
    BY <1>2 DEF StoredInv, AskedIsNext
  <2>2. conv[c] \in {"absent", "live"} /\ conv' = [conv EXCEPT ![c] = "live"]
    BY <1>0, <2>1 DEF Visible
  <2>3. {m \in messages' : m.role = "user"} = {m \in messages : m.role = "user"} \union {Question(t)}
    BY <1>0, <1>2, CommittedRows DEF StoredInv, Question, Answer
  <2>4. Entries' = Entries \union {e}
    <3>1. EntryOf(Question(t)) = e
      BY DEF EntryOf, Question
    <3>q. QED BY <2>3, <3>1 DEF Entries
  <2>5. /\ \A d \in Entries : d.turn # t
        /\ \A d \in Entries : d.conv = c => d.at < e.at
    BY <1>0, <2>1, EntryFields DEF Entries
  <2>6. e \in Stored!Entry /\ e.conv = c /\ e.turn = t /\ e \in Entries'
    BY <1>0, <2>4 DEF Stored!Entry
  <2>7. Stored!Append(c, t)
    BY <2>2, <2>4, <2>5, <2>6 DEF Stored!Append, Entries, EntryOf
  <2>q. QED BY <1>0, <2>7 DEF Stored!Next
<1>q. QED BY <1>1, <1>2

LEMMA TranscriptStep ==
  ASSUME StoredInv, [Next]_vars
  PROVE  [Stored!Next]_<<conv, Entries>>
<1>1. Moves
  BY StepMoves DEF StoredInv
<1>2. ASSUME UNCHANGED <<conv, messages>> PROVE [Stored!Next]_<<conv, Entries>>
  BY <1>2 DEF Entries
<1>3. CASE Quiet
  BY <1>2, <1>3 DEF Quiet
<1>4. ASSUME NEW t \in Turn, NumberQuestion(t) \/ InsertQuestion(t)
      PROVE  [Stored!Next]_<<conv, Entries>>
  BY <1>2, <1>4 DEF NumberQuestion, InsertQuestion
<1>5. ASSUME NEW t \in Turn, NEW c \in Conversation, NEW created \in BOOLEAN,
             Send(t, c, created)
      PROVE  [Stored!Next]_<<conv, Entries>>
  BY <1>2, <1>5 DEF Send
<1>6. ASSUME NEW c \in Conversation, DeleteAgent(c)
      PROVE  [Stored!Next]_<<conv, Entries>>
  BY <1>2, <1>6 DEF DeleteAgent
<1>7. ASSUME NEW c \in Conversation, DeleteCascades(c)
      PROVE  [Stored!Next]_<<conv, Entries>>
  <2>1. /\ conv[c] = "live" /\ conv' = [conv EXCEPT ![c] = "deleted"]
        /\ messages' = {m \in messages : m.conv # c}
    BY <1>7 DEF StoredInv, DeletedAreLive, DeleteCascades, Committed
  <2>2. Entries' = {d \in Entries : d.conv # c}
    BY <2>1, EntryFields DEF Entries
  <2>3. Stored!Delete(c)
    BY <2>1, <2>2 DEF Stored!Delete, Entries, EntryOf
  <2>q. QED BY <2>3 DEF Stored!Next
<1>q. QED BY <1>1, <1>3, <1>4, <1>5, <1>6, <1>7, CommitAppends DEF Moves

\* A stored conversation only grows, by whole turns, each after what is there
\* and at most once, until it is deleted.
THEOREM ChatImplementsTranscript == Spec => TranscriptSpec
<1>1. Init => Stored!Init
  BY DEF Init, Stored!Init
<1>2. ASSUME StoredInv, [Next]_vars
      PROVE  [Stored!Next]_(Stored!vars)
  BY <1>2, TranscriptStep DEF Stored!vars, Entries, EntryOf
<1>q. QED BY StoredInit, StoredStep, <1>1, <1>2, PTL
          DEF Spec, TranscriptSpec, Stored!Spec

-----------------------------------------------------------------------------
(* What the client was told agrees with what is stored *)

\* The text deltas in the queue take the count from one number to the other.
Counts(q, from, to) ==
    \E n \in [0..Len(q) -> Nat] :
        /\ n[0] = from /\ n[Len(q)] = to
        /\ \A i \in 1..Len(q) : n[i] = n[i - 1] + (IF q[i] = "text" THEN 1 ELSE 0)

DoneIsLast(q) == \A i \in 1..Len(q) : q[i] = "done" => i = Len(q)

\* What the transaction holds is what the turn's ending says of it.
Honest(s) ==
    /\ s.pc \in {"telling", "closing", "over"}
    /\ IF s.ending = "internal" THEN s.dead
       ELSE ~s.dead /\ s.answer = (IF s.ending = "error" THEN "partial" ELSE "answered")

\* Until the transaction ends: the client has seen the text the turn has, but
\* for the deltas still queued, and an ending it was told, or will be, is true.
Shown(t) ==
    /\ client[t].pc \in {"none", "first"} => client[t].sent = "none"
    /\ client[t].pc \in {"none", "first", "loop"} =>
          Counts(queue[t], client[t].shown, turn[t].text)
    /\ client[t].pc \in {"closing", "exiting"} /\ ~client[t].exc =>
          client[t].shown = turn[t].text
    /\ DoneIsLast(queue[t])
    /\ turn[t].pc = "saving" => turn[t].ending # "internal"
    /\ turn[t].pc = "telling" => Honest(turn[t])
    /\ \A i \in 1..Len(queue[t]) : queue[t][i] \in Ending =>
          turn[t].pc # "telling" /\ Honest(turn[t]) /\ queue[t][i] = turn[t].ending
    /\ client[t].pc \in {"loop", "closing", "exiting"} /\ ~client[t].exc
         /\ client[t].sent # "none" =>
          turn[t].pc # "telling" /\ Honest(turn[t]) /\ client[t].sent = turn[t].ending

\* ScreenAgreesWithHistory for a turn whose transaction has ended.
StoredOf(t) == {m \in messages : m.turn = t}
Agreed(t) ==
    client[t].pc \in {"titling", "closed"} /\ client[t].sent # "none" =>
        IF client[t].sent = "internal" \/ client[t].exc THEN StoredOf(t) = {}
        ELSE \/ conv[turn[t].conv] = "deleted"
             \/ \E m \in StoredOf(t) :
                  /\ m.role = IF client[t].sent = "error" THEN "partial" ELSE "answered"
                  /\ m.text = client[t].shown

ScreenInv == StoredInv /\ \A t \in Turn : Shown(t) /\ Agreed(t)

LEMMA CountsForms ==
  ASSUME NEW q \in Seq(Item), NEW a \in Nat, NEW b \in Nat
  PROVE  /\ Counts(<<>>, a, a)
         /\ Counts(<<>>, a, b) => a = b
         /\ Counts(q, a, b) =>
              \A x \in Item : Counts(Append(q, x), a, b + (IF x = "text" THEN 1 ELSE 0))
         /\ Counts(q, a, b) /\ q # <<>> =>
              Counts(Tail(q), a + (IF Head(q) = "text" THEN 1 ELSE 0), b)
<1>1. Counts(<<>>, a, a)
  <2> DEFINE n == [i \in 0..0 |-> a]
  <2>1. n \in [0..0 -> Nat] /\ n[0] = a
    OBVIOUS
  <2>2. Len(<<>>) = 0 /\ 1..0 = {}
    OBVIOUS
  <2> HIDE DEF n
  <2>q. QED BY <2>1, <2>2 DEF Counts
<1>2. Counts(<<>>, a, b) => a = b
  BY DEF Counts
<1>3. ASSUME Counts(q, a, b), NEW x \in Item
      PROVE  Counts(Append(q, x), a, b + (IF x = "text" THEN 1 ELSE 0))
  <2> DEFINE d == IF x = "text" THEN 1 ELSE 0
             l == Len(q)
  <2>1. PICK n \in [0..l -> Nat] :
          /\ n[0] = a /\ n[l] = b
          /\ \A i \in 1..l : n[i] = n[i - 1] + (IF q[i] = "text" THEN 1 ELSE 0)
    BY <1>3 DEF Counts
  <2>2. /\ l \in Nat /\ Len(Append(q, x)) = l + 1
        /\ \A i \in 1..l : Append(q, x)[i] = q[i]
        /\ Append(q, x)[l + 1] = x
    OBVIOUS
  <2> DEFINE m == [i \in 0..(l + 1) |-> IF i = l + 1 THEN b + d ELSE n[i]]
  <2>3. d \in Nat
    OBVIOUS
  <2> HIDE DEF d
  <2>4. m \in [0..(l + 1) -> Nat]
    BY <2>2, <2>3
  <2>5. m[0] = a /\ m[l + 1] = b + d /\ \A i \in 0..l : m[i] = n[i]
    BY <2>1, <2>2
  <2> HIDE DEF m
  <2>6. ASSUME NEW i \in 1..(l + 1)
        PROVE  m[i] = m[i - 1] + (IF Append(q, x)[i] = "text" THEN 1 ELSE 0)
    <3>1. CASE i = l + 1
      <4>1. i - 1 = l /\ l \in 0..l
        BY <2>2, <3>1
      <4>2. m[i - 1] = b /\ m[i] = b + d /\ Append(q, x)[i] = x
        BY <2>1, <2>2, <2>5, <3>1, <4>1
      <4>q. QED BY <4>2 DEF d
    <3>2. CASE i # l + 1
      <4>1. i \in 1..l /\ i \in 0..l /\ i - 1 \in 0..l
        BY <2>2, <3>2
      <4>q. QED BY <2>1, <2>2, <2>5, <4>1
    <3>q. QED BY <3>1, <3>2
  <2>7. Counts(Append(q, x), a, b + d)
    BY <2>2, <2>4, <2>5, <2>6 DEF Counts
  <2>q. QED BY <2>7 DEF d
<1>4. ASSUME Counts(q, a, b), q # <<>>
      PROVE  Counts(Tail(q), a + (IF Head(q) = "text" THEN 1 ELSE 0), b)
  <2> DEFINE d == IF Head(q) = "text" THEN 1 ELSE 0
             l == Len(q)
  <2>1. PICK n \in [0..l -> Nat] :
          /\ n[0] = a /\ n[l] = b
          /\ \A i \in 1..l : n[i] = n[i - 1] + (IF q[i] = "text" THEN 1 ELSE 0)
    BY <1>4 DEF Counts
  <2>2. /\ l \in Nat \ {0} /\ Head(q) = q[1]
        /\ Len(Tail(q)) = l - 1
        /\ \A i \in 1..(l - 1) : Tail(q)[i] = q[i + 1]
    BY <1>4
  <2> DEFINE m == [i \in 0..(l - 1) |-> n[i + 1]]
  <2>3. m \in [0..(l - 1) -> Nat]
    BY <2>2
  <2>4. /\ m[0] = n[1] /\ m[l - 1] = n[l]
        /\ \A i \in 0..(l - 1) : m[i] = n[i + 1]
    BY <2>2
  <2>5. n[1] = a + d
    <3>1. 1 \in 1..l /\ 1 - 1 = 0
      BY <2>2
    <3>2. n[1] = n[0] + (IF q[1] = "text" THEN 1 ELSE 0)
      BY <2>1, <3>1
    <3>q. QED BY <2>1, <2>2, <3>2
  <2> HIDE DEF m, d
  <2>6. ASSUME NEW i \in 1..(l - 1)
        PROVE  m[i] = m[i - 1] + (IF Tail(q)[i] = "text" THEN 1 ELSE 0)
    <3>1. i \in 0..(l - 1) /\ i - 1 \in 0..(l - 1) /\ i + 1 \in 1..l /\ (i - 1) + 1 = i
          /\ (i + 1) - 1 = i
      BY <2>2
    <3>2. m[i] = n[i + 1] /\ m[i - 1] = n[i] /\ Tail(q)[i] = q[i + 1]
      BY <2>2, <2>4, <3>1
    <3>3. n[i + 1] = n[i] + (IF q[i + 1] = "text" THEN 1 ELSE 0)
      BY <2>1, <3>1
    <3>q. QED BY <3>2, <3>3
  <2>7. Counts(Tail(q), a + d, b)
    BY <2>1, <2>2, <2>3, <2>4, <2>5, <2>6 DEF Counts
  <2>q. QED BY <2>7 DEF d
<1>q. QED BY <1>1, <1>2, <1>3, <1>4

\* The items of a queue after a put or a take.
LEMMA ItemsAfter ==
  ASSUME NEW q \in Seq(Item)
  PROVE  /\ \A x \in Item :
              /\ DoneIsLast(q) /\ ~HasDone(q) => DoneIsLast(Append(q, x))
              /\ \A i \in 1..Len(Append(q, x)) :
                   \/ i \in 1..Len(q) /\ Append(q, x)[i] = q[i]
                   \/ Append(q, x)[i] = x
         /\ q # <<>> =>
              /\ 1 \in 1..Len(q) /\ Head(q) = q[1]
              /\ DoneIsLast(q) => DoneIsLast(Tail(q))
              /\ DoneIsLast(q) /\ Head(q) = "done" => Tail(q) = <<>>
              /\ \A i \in 1..Len(Tail(q)) :
                   i + 1 \in 1..Len(q) /\ Tail(q)[i] = q[i + 1]
<1>1. ASSUME NEW x \in Item
      PROVE  /\ DoneIsLast(q) /\ ~HasDone(q) => DoneIsLast(Append(q, x))
             /\ \A i \in 1..Len(Append(q, x)) :
                   \/ i \in 1..Len(q) /\ Append(q, x)[i] = q[i]
                   \/ Append(q, x)[i] = x
  <2>1. /\ Len(Append(q, x)) = Len(q) + 1
        /\ \A i \in 1..Len(q) : Append(q, x)[i] = q[i]
        /\ Append(q, x)[Len(q) + 1] = x
        /\ Len(q) \in Nat
    OBVIOUS
  <2>2. \A i \in 1..(Len(q) + 1) : i \in 1..Len(q) \/ i = Len(q) + 1
    BY <2>1
  <2>q. QED BY <2>1, <2>2 DEF DoneIsLast, HasDone
<1>2. ASSUME q # <<>>
      PROVE  /\ 1 \in 1..Len(q) /\ Head(q) = q[1]
             /\ DoneIsLast(q) => DoneIsLast(Tail(q))
             /\ DoneIsLast(q) /\ Head(q) = "done" => Tail(q) = <<>>
             /\ \A i \in 1..Len(Tail(q)) :
                   i + 1 \in 1..Len(q) /\ Tail(q)[i] = q[i + 1]
  <2>1. /\ Len(q) \in Nat \ {0} /\ Head(q) = q[1] /\ Tail(q) \in Seq(Item)
        /\ Len(Tail(q)) = Len(q) - 1
        /\ \A i \in 1..Len(Tail(q)) : Tail(q)[i] = q[i + 1]
    BY <1>2
  <2>2. \A i \in 1..Len(Tail(q)) :
           i + 1 \in 1..Len(q) /\ (i + 1 = Len(q) <=> i = Len(Tail(q)))
    BY <2>1
  <2>3. 1 \in 1..Len(q)
    BY <2>1
  <2>4. Len(Tail(q)) = 0 => Tail(q) = <<>>
    BY <2>1, EmptySeq
  <2>5. DoneIsLast(q) /\ Head(q) = "done" => Tail(q) = <<>>
    <3> SUFFICES ASSUME DoneIsLast(q), Head(q) = "done" PROVE Tail(q) = <<>>
      OBVIOUS
    <3>1. 1 = Len(q)
      BY <2>1, <2>3 DEF DoneIsLast
    <3>q. QED BY <2>1, <2>4, <3>1
  <2>q. QED BY <2>1, <2>2, <2>3, <2>5 DEF DoneIsLast
<1>q. QED BY <1>1, <1>2

\* A step of the generator that tells no lie.
LEMMA GeneratorShown ==
  ASSUME TypeOK, NEW t \in Turn, Shown(t),
         client'[t].shown = client[t].shown, client'[t].sent = client[t].sent,
         client'[t].exc = client[t].exc,
         \/ client'[t].pc = client[t].pc
         \/ client[t].pc \in {"none", "first"} /\ client'[t].pc \in {"first", "loop"},
         client'[t].pc = "first" => client[t].pc \in {"none", "first"},
         \/ queue'[t] = queue[t] /\ turn'[t].text = turn[t].text
         \/ \E x \in Item :
              /\ queue'[t] = Append(queue[t], x) /\ ~HasDone(queue[t])
              /\ turn'[t].text = turn[t].text + (IF x = "text" THEN 1 ELSE 0)
              /\ x = "text" => client[t].pc \notin {"closing", "exiting"} \/ client[t].exc
              /\ x \in Ending =>
                   turn'[t].pc # "telling" /\ Honest(turn'[t]) /\ x = turn'[t].ending,
         turn'[t].pc = "saving" => turn'[t].ending # "internal",
         turn'[t].pc = "telling" => Honest(turn'[t]),
         turn[t].pc # "telling" /\ Honest(turn[t]) =>
            turn'[t].pc # "telling" /\ Honest(turn'[t]) /\ turn'[t].ending = turn[t].ending
  PROVE  Shown(t)'
<1>0. /\ queue[t] \in Seq(Item) /\ turn[t].text \in Nat /\ client[t].shown \in Nat
  BY DEF TypeOK, TurnState, ClientState
<1>1. CASE queue'[t] = queue[t] /\ turn'[t].text = turn[t].text
  BY <1>1 DEF Shown
<1>2. ASSUME NEW x \in Item,
             queue'[t] = Append(queue[t], x), ~HasDone(queue[t]),
             turn'[t].text = turn[t].text + (IF x = "text" THEN 1 ELSE 0),
             x = "text" => client[t].pc \notin {"closing", "exiting"} \/ client[t].exc,
             x \in Ending =>
               turn'[t].pc # "telling" /\ Honest(turn'[t]) /\ x = turn'[t].ending
      PROVE  Shown(t)'
  <2>1. client[t].pc \in {"none", "first", "loop"} =>
           Counts(queue'[t], client[t].shown, turn'[t].text)
    BY <1>0, <1>2, CountsForms DEF Shown
  <2>2. client[t].pc \in {"closing", "exiting"} /\ ~client[t].exc =>
           turn'[t].text = turn[t].text
    BY <1>0, <1>2
  <2>3. DoneIsLast(queue'[t])
    BY <1>0, <1>2, ItemsAfter DEF Shown
  <2>4. ASSUME NEW i \in 1..Len(queue'[t]), queue'[t][i] \in Ending
        PROVE  /\ turn'[t].pc # "telling" /\ Honest(turn'[t])
               /\ queue'[t][i] = turn'[t].ending
    <3>1. \/ i \in 1..Len(queue[t]) /\ queue'[t][i] = queue[t][i]
          \/ queue'[t][i] = x
      BY <1>0, <1>2, ItemsAfter
    <3>q. QED BY <1>2, <2>4, <3>1 DEF Shown
  <2>q. QED BY <2>1, <2>2, <2>3, <2>4 DEF Shown
<1>q. QED BY <1>1, <1>2

LEMMA AskShown ==
  ASSUME LocalInv, NEW t \in Turn, Shown(t), AskStep(t)
  PROVE  Shown(t)'
<1>0. /\ TypeOK /\ Local(t) /\ turn[t] \in TurnState /\ client[t] \in ClientState
      /\ turn \in [Turn -> TurnState] /\ client \in [Turn -> ClientState]
  BY DEF LocalInv, TypeOK
<1>1. /\ UNCHANGED queue
      /\ turn[t].pc \in {"idle", "started", "numbering", "asking"}
      /\ turn'[t].pc \in {"started", "numbering", "asking", "model", "raising"}
      /\ turn'[t].text = turn[t].text
  <2>1. ASSUME NEW c \in Conversation, NEW created \in BOOLEAN, Send(t, c, created)
        PROVE  /\ UNCHANGED queue /\ turn[t].pc = "idle" /\ turn'[t].pc = "started"
               /\ turn'[t].text = turn[t].text
    BY <1>0, <2>1 DEF Send, TurnState
  <2>2. CASE ReadHistory(t)
    BY <1>0, <2>2 DEF ReadHistory, TurnState
  <2>3. CASE NumberQuestion(t)
    <3>1. /\ turn[t].pc = "numbering" /\ UNCHANGED queue
          /\ \/ turn' = [turn EXCEPT ![t].pc = "raising"]
             \/ \E n : turn' = [turn EXCEPT ![t] = [@ EXCEPT !.pc = "asking", !.seq = n]]
      BY <2>3 DEF NumberQuestion
    <3>2. CASE turn' = [turn EXCEPT ![t].pc = "raising"]
      BY <1>0, <3>1, <3>2 DEF TurnState
    <3>3. ASSUME NEW n, turn' = [turn EXCEPT ![t] = [@ EXCEPT !.pc = "asking", !.seq = n]]
          PROVE  turn'[t].pc = "asking" /\ turn'[t].text = turn[t].text
      BY <1>0, <3>3 DEF TurnState
    <3>q. QED BY <3>1, <3>2, <3>3
  <2>4. CASE InsertQuestion(t)
    <3>1. /\ turn[t].pc = "asking" /\ UNCHANGED queue
          /\ \/ turn' = [turn EXCEPT ![t].pc = "raising"]
             \/ turn' = [turn EXCEPT ![t] = [@ EXCEPT !.pc = "model", !.asked = TRUE]]
      BY <2>4 DEF InsertQuestion
    <3>2. CASE turn' = [turn EXCEPT ![t].pc = "raising"]
      BY <1>0, <3>1, <3>2 DEF TurnState
    <3>3. CASE turn' = [turn EXCEPT ![t] = [@ EXCEPT !.pc = "model", !.asked = TRUE]]
      BY <1>0, <3>1, <3>3 DEF TurnState
    <3>q. QED BY <3>1, <3>2, <3>3
  <2>5. CASE AskFails(t)
    BY <1>0, <2>5 DEF AskFails, TurnState
  <2>q. QED BY <2>1, <2>2, <2>3, <2>4, <2>5 DEF AskStep
<1>2. /\ client'[t].shown = client[t].shown /\ client'[t].sent = client[t].sent
      /\ client'[t].exc = client[t].exc
      /\ \/ client'[t] = client[t]
         \/ client[t].pc = "none" /\ client'[t].pc = "first"
  <2>1. CASE UNCHANGED client
    BY <2>1
  <2>2. CASE turn[t].pc = "idle" /\ client' = [client EXCEPT ![t].pc = "first"]
    BY <1>0, <2>2 DEF ClientState, Local
  <2>q. QED BY <2>1, <2>2 DEF AskStep, Send, ReadHistory, NumberQuestion, InsertQuestion,
               AskFails
<1>3. client'[t].pc = "first" => client[t].pc \in {"none", "first"}
  BY <1>2
<1>q. QED BY <1>0, <1>1, <1>2, <1>3, GeneratorShown DEF Honest

LEMMA LoopShown ==
  ASSUME LocalInv, NEW t \in Turn, Shown(t), LoopStep(t)
  PROVE  Shown(t)'
<1>0. /\ TypeOK /\ Local(t) /\ turn[t] \in TurnState /\ turn \in [Turn -> TurnState]
      /\ queue \in [Turn -> Seq(Item)] /\ turn[t].text \in Nat
      /\ turn[t].text + 0 = turn[t].text
  BY DEF LocalInv, TypeOK, TurnState
<1>1. /\ Working(t) /\ UNCHANGED client
  BY DEF LoopStep, StreamText, CallTools, ToolsReturn, Finish, ProviderFails, Bug, Stray,
     Working
<1>2. /\ ~Settled(turn[t]) /\ ~HasDone(queue[t]) /\ ~Honest(turn[t])
      /\ client[t].pc \notin {"closing", "exiting"} \/ client[t].exc
  BY <1>0, <1>1 DEF Working, Settled, Local, Honest
<1>3. {"text", "calls", "results", "done"} \subseteq Item \ Ending
  BY DEF Item, Ending
<1>4. ASSUME NEW x \in {"calls", "results", "done"},
             queue' = [queue EXCEPT ![t] = Append(@, x)],
             turn'[t].text = turn[t].text, turn'[t].pc \notin {"telling"},
             turn'[t].pc = "saving" => turn'[t].ending # "internal"
      PROVE  Shown(t)'
  <2>1. queue'[t] = Append(queue[t], x) /\ x \in Item /\ x \notin Ending /\ x # "text"
    BY <1>0, <1>3, <1>4
  <2>q. QED BY <1>0, <1>1, <1>2, <1>4, <2>1, GeneratorShown
<1>5. ASSUME UNCHANGED queue,
             turn'[t].text = turn[t].text, turn'[t].pc \notin {"telling"},
             turn'[t].pc = "saving" => turn'[t].ending # "internal"
      PROVE  Shown(t)'
  BY <1>0, <1>1, <1>2, <1>5, GeneratorShown
<1>6. CASE StreamText(t)
  <2>1. /\ queue'[t] = Append(queue[t], "text") /\ "text" \in Item /\ "text" \notin Ending
        /\ turn'[t].text = turn[t].text + 1 /\ turn'[t].pc = "model"
    BY <1>0, <1>3, <1>6 DEF StreamText, Put, TurnState
  <2>q. QED BY <1>0, <1>1, <1>2, <2>1, GeneratorShown
<1>7. CASE CallTools(t)
  <2>1. /\ queue' = [queue EXCEPT ![t] = Append(@, "calls")]
        /\ turn'[t].text = turn[t].text /\ turn'[t].pc = "tools"
    BY <1>0, <1>7 DEF CallTools, Put, TurnState
  <2>q. QED BY <1>4, <2>1
<1>8. CASE ToolsReturn(t)
  <2>1. /\ queue' = [queue EXCEPT ![t] = Append(@, "results")]
        /\ turn'[t].text = turn[t].text
        /\ \/ turn'[t].pc = "model"
           \/ turn'[t].pc = "saving" /\ turn'[t].ending = "limit"
    BY <1>0, <1>8 DEF ToolsReturn, Put, TurnState
  <2>q. QED BY <1>4, <2>1
<1>9. CASE Finish(t) \/ ProviderFails(t)
  <2>1. /\ UNCHANGED queue /\ turn'[t].text = turn[t].text /\ turn'[t].pc = "saving"
        /\ turn'[t].ending \in {"end", "error"}
    <3>1. CASE Finish(t)
      BY <1>0, <3>1 DEF Finish, TurnState
    <3>2. CASE ProviderFails(t)
      BY <1>0, <3>2 DEF ProviderFails, TurnState
    <3>q. QED BY <1>9, <3>1, <3>2
  <2>q. QED BY <1>5, <2>1
<1>10. CASE Bug(t)
  <2>1. UNCHANGED queue /\ turn'[t].text = turn[t].text /\ turn'[t].pc = "raising"
    BY <1>0, <1>10 DEF Bug, TurnState
  <2>q. QED BY <1>5, <2>1
<1>11. CASE Stray(t)
  <2>1. /\ turn'[t].text = turn[t].text /\ turn'[t].pc = "stray"
        /\ UNCHANGED queue \/ queue' = [queue EXCEPT ![t] = Append(@, "done")]
    BY <1>0, <1>11 DEF Stray, Put, TurnState
  <2>q. QED BY <1>4, <1>5, <2>1
<1>q. QED BY <1>6, <1>7, <1>8, <1>9, <1>10, <1>11 DEF LoopStep

LEMMA SaveShown ==
  ASSUME LocalInv, NEW t \in Turn, Shown(t), SaveStep(t)
  PROVE  Shown(t)'
<1>0. /\ TypeOK /\ Local(t) /\ turn[t] \in TurnState /\ turn \in [Turn -> TurnState]
      /\ queue \in [Turn -> Seq(Item)] /\ turn[t].text \in Nat
      /\ turn[t].text + 0 = turn[t].text
  BY DEF LocalInv, TypeOK, TurnState
<1>1. turn[t].pc \in {"saving", "telling", "closing", "raising"} /\ UNCHANGED client
  BY DEF SaveStep, Save, SaveFails, SaveDeadlocks, Tell, PutDone, PutCrash
<1>2. ~HasDone(queue[t])
  BY <1>0, <1>1 DEF Settled, Local
<1>3. /\ {"done", "crash"} \subseteq Item \ Ending /\ Ending \subseteq Item
      /\ "text" \notin Ending
  BY DEF Item, Ending
<1>4. CASE Save(t) \/ SaveFails(t) \/ SaveDeadlocks(t)
  <2>1. /\ turn[t].pc = "saving" /\ UNCHANGED queue
        /\ \/ turn' = [turn EXCEPT ![t] = Saved(turn[t])]
           \/ turn' = [turn EXCEPT ![t] = Refused(turn[t])]
    BY <1>4 DEF Save, SaveFails, SaveDeadlocks
  <2>2. turn[t].ending \in Ending /\ turn[t].ending # "internal" /\ ~turn[t].dead
    BY <1>0, <2>1 DEF Local, Shown
  <2>3. CASE turn' = [turn EXCEPT ![t] = Saved(turn[t])]
    <3>1. turn'[t] = Saved(turn[t])
      BY <1>0, <2>3
    <3>2. /\ turn'[t].pc = "telling" /\ turn'[t].ending = turn[t].ending
          /\ turn'[t].dead = turn[t].dead /\ turn'[t].text = turn[t].text
          /\ turn'[t].answer = (IF turn[t].ending = "error" THEN "partial" ELSE "answered")
      BY <1>0, <3>1 DEF Saved, TurnState
    <3>3. Honest(turn'[t])
      BY <2>2, <3>2 DEF Honest
    <3>4. ~Honest(turn[t])
      BY <2>1 DEF Honest
    <3>q. QED BY <1>0, <1>1, <2>1, <3>2, <3>3, <3>4, GeneratorShown
  <2>4. CASE turn' = [turn EXCEPT ![t] = Refused(turn[t])]
    <3>1. turn'[t] = Refused(turn[t])
      BY <1>0, <2>4
    <3>2. /\ turn'[t].pc = "telling" /\ turn'[t].ending = "internal"
          /\ turn'[t].dead /\ turn'[t].text = turn[t].text
      BY <1>0, <3>1 DEF Refused, TurnState
    <3>3. Honest(turn'[t])
      BY <3>2 DEF Honest
    <3>4. ~Honest(turn[t])
      BY <2>1 DEF Honest
    <3>q. QED BY <1>0, <1>1, <2>1, <3>2, <3>3, <3>4, GeneratorShown
  <2>q. QED BY <2>1, <2>3, <2>4
<1>5. CASE Tell(t)
  <2>1. /\ turn[t].pc = "telling" /\ turn[t].ending \in Ending /\ Honest(turn[t])
        /\ queue'[t] = Append(queue[t], turn[t].ending)
        /\ turn' = [turn EXCEPT ![t].pc = "closing"]
    BY <1>0, <1>5 DEF Tell, Put, Local, Shown
  <2>2. /\ turn'[t].pc = "closing" /\ turn'[t].ending = turn[t].ending
        /\ turn'[t].dead = turn[t].dead /\ turn'[t].text = turn[t].text
        /\ turn'[t].answer = turn[t].answer
    BY <1>0, <2>1 DEF TurnState
  <2>3. Honest(turn'[t])
    BY <2>1, <2>2 DEF Honest
  <2>4. turn[t].ending \in Item /\ turn[t].ending # "text"
    BY <1>3, <2>1
  <2>q. QED BY <1>0, <1>1, <1>2, <2>1, <2>2, <2>3, <2>4, GeneratorShown
<1>6. CASE PutDone(t) \/ PutCrash(t)
  <2> DEFINE x == IF turn[t].pc = "closing" THEN "done" ELSE "crash"
  <2>1. /\ turn[t].pc \in {"closing", "raising"}
        /\ turn' = [turn EXCEPT ![t].pc = "over"]
        /\ queue' = [queue EXCEPT ![t] = Append(@, x)]
    BY <1>6 DEF PutDone, PutCrash, Put
  <2>2. x \in Item /\ x \notin Ending /\ x # "text"
    BY <1>3
  <2> HIDE DEF x
  <2>3. /\ turn'[t].pc = "over" /\ turn'[t].ending = turn[t].ending
        /\ turn'[t].dead = turn[t].dead /\ turn'[t].text = turn[t].text
        /\ turn'[t].answer = turn[t].answer
        /\ queue'[t] = Append(queue[t], x)
    BY <1>0, <2>1 DEF TurnState
  <2>4. Honest(turn[t]) => Honest(turn'[t])
    BY <2>3 DEF Honest
  <2>q. QED BY <1>0, <1>1, <1>2, <2>2, <2>3, <2>4, GeneratorShown
<1>q. QED BY <1>4, <1>5, <1>6 DEF SaveStep

LEMMA StreamShown ==
  ASSUME LocalInv, NEW t \in Turn, Shown(t), StreamStep(t)
  PROVE  Shown(t)'
<1>0. /\ TypeOK /\ Local(t) /\ turn[t] \in TurnState /\ client[t] \in ClientState
      /\ turn \in [Turn -> TurnState] /\ client \in [Turn -> ClientState]
      /\ queue \in [Turn -> Seq(Item)] /\ queue[t] \in Seq(Item)
      /\ turn[t].text \in Nat /\ client[t].shown \in Nat
  BY DEF LocalInv, TypeOK, TurnState, ClientState
<1>1. CASE SendStart(t)
  <2>1. /\ client[t].pc = "first" /\ UNCHANGED <<turn, queue>>
        /\ client'[t].pc = "loop" /\ client'[t].shown = client[t].shown
        /\ client'[t].sent = client[t].sent /\ client'[t].exc = client[t].exc
    BY <1>0, <1>1 DEF SendStart, ClientState
  <2>q. QED BY <2>1 DEF Shown
<1>2. CASE Deliver(t)
  <2> DEFINE item == Head(queue[t])
  <2>1. /\ client[t].pc = "loop" /\ queue[t] # <<>> /\ UNCHANGED turn
        /\ queue'[t] = Tail(queue[t])
    BY <1>0, <1>2 DEF Deliver
  <2>2. /\ 1 \in 1..Len(queue[t]) /\ item = queue[t][1]
        /\ DoneIsLast(Tail(queue[t]))
        /\ item = "done" => Tail(queue[t]) = <<>>
        /\ \A i \in 1..Len(Tail(queue[t])) :
             i + 1 \in 1..Len(queue[t]) /\ Tail(queue[t])[i] = queue[t][i + 1]
    BY <1>0, <2>1, ItemsAfter DEF Shown
  <2>3. Counts(Tail(queue[t]), client[t].shown + (IF item = "text" THEN 1 ELSE 0),
               turn[t].text)
    <3>1. Counts(queue[t], client[t].shown, turn[t].text)
      BY <2>1 DEF Shown
    <3>q. QED BY <1>0, <2>1, <3>1, CountsForms
  <2>4. \A i \in 1..Len(queue'[t]) : queue'[t][i] \in Ending =>
          turn[t].pc # "telling" /\ Honest(turn[t]) /\ queue'[t][i] = turn[t].ending
    BY <2>1, <2>2 DEF Shown
  <2>5. client' = [client EXCEPT ![t] =
          CASE item = "done"    -> [@ EXCEPT !.pc = "closing"]
            [] item = "crash"   -> [@ EXCEPT !.pc = "closing", !.exc = TRUE, !.sent = "internal"]
            [] item = "text"    -> [@ EXCEPT !.shown = client[t].shown + 1]
            [] item \in Ending  -> [@ EXCEPT !.sent = item]
            [] OTHER            -> @]
    BY <1>2 DEF Deliver
  <2>6. client[t].shown + 0 = client[t].shown
    BY <1>0
  <2>7. /\ "done" \notin Ending /\ "crash" \notin Ending /\ "text" \notin Ending
    BY DEF Ending
  <2> HIDE DEF item
  <2>8. CASE item = "done"
    <3>1. /\ client'[t].pc = "closing" /\ client'[t].shown = client[t].shown
          /\ client'[t].sent = client[t].sent /\ client'[t].exc = client[t].exc
      BY <1>0, <2>5, <2>7, <2>8 DEF ClientState
    <3>2. Counts(<<>>, client[t].shown, turn[t].text)
      BY <2>2, <2>3, <2>6, <2>8
    <3>4. queue[t] \in Seq(Item) /\ client[t].shown \in Nat /\ turn[t].text \in Nat
      BY <1>0
    <3>5. client[t].shown = turn[t].text
      BY <3>2, <3>4, CountsForms
    <3>q. QED BY <2>1, <2>2, <2>4, <3>1, <3>5 DEF Shown
  <2>9. CASE item = "crash"
    <3>1. client'[t].pc = "closing" /\ client'[t].exc
      BY <1>0, <2>5, <2>7, <2>9 DEF ClientState
    <3>q. QED BY <2>1, <2>2, <2>4, <3>1 DEF Shown
  <2>10. CASE item = "text"
    <3>1. /\ client'[t].pc = "loop" /\ client'[t].shown = client[t].shown + 1
          /\ client'[t].sent = client[t].sent /\ client'[t].exc = client[t].exc
      BY <1>0, <2>1, <2>5, <2>7, <2>10 DEF ClientState
    <3>q. QED BY <2>1, <2>2, <2>3, <2>4, <2>10, <3>1 DEF Shown
  <2>11. CASE item \in Ending
    <3>1. /\ client'[t].pc = "loop" /\ client'[t].shown = client[t].shown
          /\ client'[t].sent = item /\ client'[t].exc = client[t].exc
      BY <1>0, <2>1, <2>5, <2>7, <2>11 DEF ClientState
    <3>2. turn[t].pc # "telling" /\ Honest(turn[t]) /\ item = turn[t].ending
      BY <2>2, <2>11 DEF Shown
    <3>3. item # "text"
      BY <2>7, <2>11
    <3>q. QED BY <2>1, <2>2, <2>3, <2>4, <2>6, <3>1, <3>2, <3>3 DEF Shown
  <2>12. CASE item \notin {"done", "crash", "text"} \union Ending
    <3>1. client'[t] = client[t]
      BY <1>0, <2>5, <2>12
    <3>q. QED BY <2>1, <2>2, <2>3, <2>4, <2>6, <2>12, <3>1 DEF Shown
  <2>q. QED BY <2>8, <2>9, <2>10, <2>11, <2>12
<1>3. CASE Disconnect(t)
  <2>1. UNCHANGED <<turn, queue>> /\ client'[t].pc = "closing" /\ client'[t].exc
    BY <1>0, <1>3 DEF Disconnect, ClientState
  <2>q. QED BY <2>1 DEF Shown
<1>e. ASSUME queue'[t] = <<>>, turn'[t].pc \in {"over", "stray"},
             client'[t].pc \in {"exiting"} \union Over,
             client'[t].pc = "exiting" /\ ~client'[t].exc =>
               /\ client'[t].shown = turn'[t].text
               /\ client'[t].sent # "none" =>
                    Honest(turn'[t]) /\ client'[t].sent = turn'[t].ending
      PROVE  Shown(t)'
  <2>1. Len(queue'[t]) = 0 /\ 1..0 = {}
    BY <1>e
  <2>2. DoneIsLast(queue'[t])
    BY <2>1 DEF DoneIsLast
  <2>q. QED BY <1>e, <2>1, <2>2 DEF Shown, Over
<1>4. CASE StopPump(t)
  <2>1. /\ client[t].pc = "closing" /\ queue'[t] = <<>>
        /\ client'[t].pc = "exiting" /\ client'[t].exc = client[t].exc
        /\ client'[t].shown = client[t].shown /\ client'[t].sent = client[t].sent
    BY <1>0, <1>4 DEF StopPump, ClientState
  <2>2. /\ turn'[t].pc = Stopped(t) /\ turn'[t].text = turn[t].text
        /\ turn'[t].ending = turn[t].ending /\ turn'[t].dead = turn[t].dead
        /\ turn'[t].answer = turn[t].answer
    BY <1>0, <1>4 DEF StopPump, TurnState
  <2>3. Honest(turn[t]) => turn'[t].pc = "over" /\ Honest(turn'[t])
    BY <2>2 DEF Honest, Stopped
  <2>4. turn'[t].pc \in {"over", "stray"}
    BY <2>2 DEF Stopped
  <2>q. QED BY <1>e, <2>1, <2>2, <2>3, <2>4 DEF Shown
<1>r. Released(t)[t].pc \in {"over", "stray"}
  BY <1>0 DEF Released, Stopped, IdleTurn
<1>5. CASE Commit(t) \/ CommitFails(t) \/ Rollback(t) \/ CloseDead(t)
  <2>1. /\ client[t].pc = "exiting" /\ UNCHANGED queue /\ turn' = Released(t)
        /\ \E pc \in Over : client' = [client EXCEPT ![t].pc = pc]
    BY <1>5 DEF Commit, CommitFails, Rollback, CloseDead, Over
  <2>2. client'[t].pc \in Over /\ "exiting" \notin Over
    BY <1>0, <2>1 DEF ClientState, Over
  <2>3. queue'[t] = <<>>
    BY <1>0, <2>1 DEF Local, Open
  <2>q. QED BY <1>e, <1>r, <2>1, <2>2, <2>3
<1>6. CASE Crash(t)
  <2>1. /\ queue'[t] = <<>> /\ turn' = Released(t) /\ client'[t].pc = "lost"
    BY <1>0, <1>6 DEF Crash, ClientState
  <2>q. QED BY <1>e, <1>r, <2>1 DEF Over
<1>7. CASE Unread(t)
  <2>1. queue'[t] = <<>> /\ turn'[t].pc = "over" /\ client'[t].pc = "unread"
    BY <1>0, <1>7 DEF Unread, Local, TurnState, ClientState
  <2>q. QED BY <1>e, <2>1 DEF Over
<1>q. QED BY <1>1, <1>2, <1>3, <1>4, <1>5, <1>6, <1>7 DEF StreamStep

LEMMA TitleShown ==
  ASSUME LocalInv, NEW t \in Turn, Shown(t), TitleStep(t)
  PROVE  Shown(t)'
<1>0. client \in [Turn -> ClientState] /\ client[t] \in ClientState
  BY DEF LocalInv, TypeOK
<1>1. CASE QueueTitle(t) \/ QueueTitleFails(t)
  <2>1. /\ UNCHANGED <<turn, queue>> /\ client' = [client EXCEPT ![t].pc = "closed"]
    BY <1>1 DEF QueueTitle, QueueTitleFails
  <2>2. client'[t].pc = "closed"
    BY <1>0, <2>1 DEF ClientState
  <2>q. QED BY <2>1, <2>2 DEF Shown
<1>2. CASE StartTitle(t) \/ WriteTitle(t) \/ TitleFails(t) \/ KillTitle(t) \/ GiveUpTitle(t)
  <2>1. UNCHANGED <<turn, queue, client>>
    BY <1>2 DEF StartTitle, WriteTitle, TitleFails, KillTitle, GiveUpTitle
  <2>q. QED BY <2>1 DEF Shown
<1>q. QED BY <1>1, <1>2 DEF TitleStep

\* A step that tells the client nothing and stores nothing of its turn.
LEMMA AgreedFrame ==
  ASSUME NEW t \in Turn, Agreed(t),
         client'[t].sent = client[t].sent, client'[t].exc = client[t].exc,
         client'[t].shown = client[t].shown,
         client'[t].pc \in {"titling", "closed"} => client[t].pc \in {"titling", "closed"},
         turn'[t].conv = turn[t].conv,
         conv[turn[t].conv] = "deleted" => conv'[turn[t].conv] = "deleted",
         \/ StoredOf(t)' = StoredOf(t)
         \/ conv'[turn[t].conv] = "deleted" /\ StoredOf(t)' \subseteq StoredOf(t)
  PROVE  Agreed(t)'
<1>1. CASE StoredOf(t)' = StoredOf(t)
  BY <1>1 DEF Agreed
<1>2. CASE conv'[turn[t].conv] = "deleted" /\ StoredOf(t)' \subseteq StoredOf(t)
  BY <1>2 DEF Agreed
<1>q. QED BY <1>1, <1>2

\* Only a commit touches what is stored, and only with rows of its own turn.
LEMMA RowsMove ==
  ASSUME NEW t \in Turn,
         AskStep(t) \/ LoopStep(t) \/ SaveStep(t) \/ StreamStep(t) \/ TitleStep(t)
  PROVE  UNCHANGED <<conv, messages>> \/ Commit(t)
BY DEF AskStep, Send, ReadHistory, NumberQuestion, InsertQuestion, AskFails,
       LoopStep, StreamText, CallTools, ToolsReturn, Finish, ProviderFails, Bug, Stray,
       SaveStep, Save, SaveFails, SaveDeadlocks, Tell, PutDone, PutCrash,
       StreamStep, SendStart, Deliver, Disconnect, Unread, StopPump, CommitFails, Rollback,
       CloseDead, Crash,
       TitleStep, QueueTitle, QueueTitleFails, StartTitle, WriteTitle, TitleFails,
       KillTitle, GiveUpTitle

LEMMA OthersAgreed ==
  ASSUME StoredInv, NEW t \in Turn, NEW u \in Turn \ {t}, Agreed(u),
         AskStep(t) \/ LoopStep(t) \/ SaveStep(t) \/ StreamStep(t) \/ TitleStep(t)
  PROVE  Agreed(u)'
<1>0. TypeOK /\ Local(u)
  BY DEF StoredInv, LocalInv
<1>1. turn'[u] = turn[u] /\ client'[u] = client[u]
  BY <1>0, OthersStay
<1>2. CASE UNCHANGED <<conv, messages>>
  BY <1>1, <1>2 DEF Agreed, StoredOf
<1>3. CASE Commit(t)
  <2> SUFFICES ASSUME client[u].pc \in {"titling", "closed"} PROVE Agreed(u)'
    BY <1>1 DEF Agreed
  <2>1. turn[u].conv \in Conversation
    BY <1>0 DEF Local, TypeOK
  <2>2. conv[turn[u].conv] = "deleted" => conv'[turn[u].conv] = "deleted"
    BY <1>3, <2>1, CommitFrame
  <2>3. messages' = messages \union Rows(t) /\ \A m \in Rows(t) : m.turn = t
    BY <1>3 DEF Commit, Rows, Question, Answer
  <2>4. StoredOf(u)' = StoredOf(u)
    BY <2>3 DEF StoredOf
  <2>q. QED BY <1>1, <2>2, <2>4, AgreedFrame
<1>q. QED BY <1>2, <1>3, RowsMove

\* The end of a transaction: what the client was told is what it commits.
LEMMA CommitAgreed ==
  ASSUME StoredInv, NEW t \in Turn, Shown(t), Commit(t)
  PROVE  Agreed(t)'
<1>0. /\ TypeOK /\ Local(t) /\ turn[t] \in TurnState /\ client[t] \in ClientState
      /\ client \in [Turn -> ClientState] /\ LocalInv
  BY DEF StoredInv, LocalInv, TypeOK
<1>1. /\ client[t].pc = "exiting" /\ ~client[t].exc /\ ~turn[t].dead
      /\ client'[t].sent = client[t].sent /\ client'[t].exc = client[t].exc
      /\ client'[t].shown = client[t].shown /\ messages' = messages \union Rows(t)
  BY <1>0 DEF Commit, ClientState
<1> SUFFICES ASSUME client[t].sent # "none"
             PROVE  \E m \in StoredOf(t)' :
                      /\ client[t].sent # "internal"
                      /\ m.role = IF client[t].sent = "error" THEN "partial" ELSE "answered"
                      /\ m.text = client[t].shown
  BY <1>1 DEF Agreed
<1>2. /\ Honest(turn[t]) /\ client[t].sent = turn[t].ending
      /\ client[t].shown = turn[t].text
  BY <1>1 DEF Shown
<1>3. /\ turn[t].ending # "internal"
      /\ turn[t].answer = (IF turn[t].ending = "error" THEN "partial" ELSE "answered")
  BY <1>1, <1>2 DEF Honest
<1>4. Answer(t) \in Rows(t)
  BY <1>3 DEF Rows
<1>5. Answer(t).turn = t /\ Answer(t).role = turn[t].answer /\ Answer(t).text = turn[t].text
  BY DEF Answer
<1>6. Answer(t) \in StoredOf(t)'
  BY <1>1, <1>4, <1>5 DEF StoredOf
<1>q. QED BY <1>2, <1>3, <1>5, <1>6

LEMMA StreamAgreed ==
  ASSUME StoredInv, NEW t \in Turn, Shown(t), StreamStep(t)
  PROVE  Agreed(t)'
<1>0. /\ TypeOK /\ Local(t) /\ turn[t] \in TurnState /\ client[t] \in ClientState
      /\ client \in [Turn -> ClientState] /\ turn \in [Turn -> TurnState]
  BY DEF StoredInv, LocalInv, TypeOK
<1>1. ASSUME client'[t].pc \notin {"titling", "closed"} PROVE Agreed(t)'
  BY <1>1 DEF Agreed
<1>2. CASE \/ SendStart(t) \/ Disconnect(t) \/ Unread(t) \/ StopPump(t)
           \/ CommitFails(t) \/ Crash(t)
  <2>1. \/ \E pc \in {"loop", "closing", "exiting", "lost", "unread"} :
             client' = [client EXCEPT ![t].pc = pc]
        \/ client' = [client EXCEPT ![t] = [@ EXCEPT !.pc = "closing", !.exc = TRUE]]
    BY <1>2 DEF SendStart, Disconnect, Unread, StopPump, CommitFails, Crash
  <2>2. ASSUME NEW pc \in {"loop", "closing", "exiting", "lost", "unread"},
               client' = [client EXCEPT ![t].pc = pc]
        PROVE  client'[t].pc \notin {"titling", "closed"}
    BY <1>0, <2>2 DEF ClientState
  <2>3. CASE client' = [client EXCEPT ![t] = [@ EXCEPT !.pc = "closing", !.exc = TRUE]]
    BY <1>0, <1>1, <2>3 DEF ClientState
  <2>q. QED BY <1>1, <2>1, <2>2, <2>3
<1>3. CASE Deliver(t)
  <2>1. client'[t].pc \in {"loop", "closing"}
    BY <1>0, <1>3 DEF Deliver, ClientState
  <2>q. QED BY <1>1, <2>1
<1>4. CASE Rollback(t) \/ CloseDead(t)
  <2>1. /\ client[t].pc = "exiting" /\ UNCHANGED <<conv, messages>>
        /\ client[t].exc \/ turn[t].dead
        /\ \E pc \in {"titling", "closed"} : client' = [client EXCEPT ![t].pc = pc]
    BY <1>4 DEF Rollback, CloseDead
  <2>2. /\ client'[t].sent = client[t].sent /\ client'[t].exc = client[t].exc
    BY <1>0, <2>1 DEF ClientState
  <2>3. StoredOf(t)' = {}
    BY <2>1 DEF StoredInv, RowsAreOfEnded, Ended, Over, StoredOf
  <2>4. ~client[t].exc /\ client[t].sent # "none" => client[t].sent = "internal"
    BY <2>1 DEF Shown, Honest
  <2>q. QED BY <2>2, <2>3, <2>4 DEF Agreed
<1>q. QED BY <1>2, <1>3, <1>4, CommitAgreed DEF StreamStep

LEMMA OwnAgreed ==
  ASSUME StoredInv, NEW t \in Turn, Shown(t), Agreed(t),
         AskStep(t) \/ LoopStep(t) \/ SaveStep(t) \/ StreamStep(t) \/ TitleStep(t)
  PROVE  Agreed(t)'
<1>0. /\ TypeOK /\ Local(t) /\ client[t] \in ClientState
      /\ client \in [Turn -> ClientState]
  BY DEF StoredInv, LocalInv, TypeOK
<1>1. CASE AskStep(t) \/ LoopStep(t) \/ SaveStep(t)
  <2>1. \/ turn[t].pc \in Running /\ UNCHANGED client
        \/ client' = [client EXCEPT ![t].pc = "first"]
    BY <1>1 DEF Running, AskStep, Send, ReadHistory, NumberQuestion, InsertQuestion, AskFails,
       LoopStep, StreamText, CallTools, ToolsReturn, Finish, ProviderFails, Bug, Stray, Working,
       SaveStep, Save, SaveFails, SaveDeadlocks, Tell, PutDone, PutCrash
  <2>2. client'[t].pc \in Open
    BY <1>0, <2>1 DEF Local, ClientState, Open
  <2>q. QED BY <2>2 DEF Agreed, Open
<1>2. CASE TitleStep(t)
  <2>1. /\ UNCHANGED <<turn, conv, messages>>
        /\ \/ UNCHANGED client
           \/ client[t].pc = "titling" /\ client' = [client EXCEPT ![t].pc = "closed"]
    BY <1>2 DEF TitleStep, QueueTitle, QueueTitleFails, StartTitle, WriteTitle,
                TitleFails, KillTitle, GiveUpTitle
  <2>2. /\ client'[t].sent = client[t].sent /\ client'[t].exc = client[t].exc
        /\ client'[t].shown = client[t].shown
        /\ client'[t].pc \in {"titling", "closed"} => client[t].pc \in {"titling", "closed"}
    BY <1>0, <2>1 DEF ClientState
  <2>3. StoredOf(t)' = StoredOf(t)
    BY <2>1 DEF StoredOf
  <2>q. QED BY <2>1, <2>2, <2>3, AgreedFrame
<1>q. QED BY <1>1, <1>2, StreamAgreed

LEMMA DeleteAgreed ==
  ASSUME StoredInv, NEW t \in Turn, Agreed(t), DeleteStep
  PROVE  Agreed(t)'
<1>0. TypeOK /\ Local(t) /\ UNCHANGED <<turn, client>>
  BY DEF StoredInv, LocalInv, DeleteStep, DeleteAgent, DeleteCascades
<1>1. ASSUME NEW c \in Conversation, DeleteAgent(c) PROVE Agreed(t)'
  BY <1>0, <1>1 DEF DeleteAgent, Agreed, StoredOf
<1>2. ASSUME NEW c \in Conversation, DeleteCascades(c) PROVE Agreed(t)'
  <2>1. /\ conv' = [conv EXCEPT ![c] = "deleted"]
        /\ messages' = {m \in messages : m.conv # c}
    BY <1>2 DEF DeleteCascades, Committed
  <2>2. /\ conv \in [Conversation -> {"absent", "live", "deleted"}]
        /\ \A m \in StoredOf(t) : m.conv = turn[t].conv
    BY <1>0 DEF StoredInv, RowsAreOfEnded, StoredOf, TypeOK
  <2> SUFFICES ASSUME client[t].pc \in {"titling", "closed"} PROVE Agreed(t)'
    BY <1>0 DEF Agreed
  <2>3. turn[t].conv \in Conversation
    BY <1>0 DEF Local, TypeOK
  <2>4. conv[turn[t].conv] = "deleted" => conv'[turn[t].conv] = "deleted"
    BY <2>1, <2>2, <2>3
  <2>5. CASE turn[t].conv = c
    <3>1. conv'[turn[t].conv] = "deleted" /\ StoredOf(t)' \subseteq StoredOf(t)
      BY <2>1, <2>2, <2>3, <2>5 DEF StoredOf
    <3>q. QED BY <1>0, <2>4, <3>1, AgreedFrame
  <2>6. CASE turn[t].conv # c
    <3>1. StoredOf(t)' = StoredOf(t)
      BY <2>1, <2>2, <2>6 DEF StoredOf
    <3>q. QED BY <1>0, <2>4, <3>1, AgreedFrame
  <2>q. QED BY <2>5, <2>6
<1>q. QED BY <1>1, <1>2 DEF DeleteStep

LEMMA ScreenInit == Init => ScreenInv
<1> SUFFICES ASSUME Init, NEW t \in Turn PROVE Shown(t) /\ Agreed(t)
  BY StoredInit DEF ScreenInv
<1>1. turn[t] = IdleTurn /\ client[t] = IdleClient /\ queue[t] = <<>>
  BY DEF Init
<1>2. Counts(<<>>, 0, 0)
  <2>1. <<>> \in Seq(Item) /\ 0 \in Nat
    OBVIOUS
  <2>q. QED BY <2>1, CountsForms
<1>3. Len(queue[t]) = 0 /\ 1..0 = {}
  BY <1>1
<1>q. QED BY <1>1, <1>2, <1>3 DEF Shown, Agreed, IdleTurn, IdleClient, DoneIsLast

LEMMA ScreenStep == ASSUME ScreenInv, [Next]_vars PROVE ScreenInv'
<1>0. StoredInv /\ LocalInv /\ StoredInv' /\ \A t \in Turn : Shown(t) /\ Agreed(t)
  BY StoredStep DEF ScreenInv, StoredInv
<1> SUFFICES ASSUME NEW u \in Turn PROVE Shown(u)' /\ Agreed(u)'
  BY <1>0 DEF ScreenInv
<1>1. CASE UNCHANGED vars
  BY <1>0, <1>1 DEF vars, Shown, Agreed, StoredOf
<1>2. ASSUME NEW t \in Turn,
             AskStep(t) \/ LoopStep(t) \/ SaveStep(t) \/ StreamStep(t) \/ TitleStep(t)
      PROVE  Shown(u)' /\ Agreed(u)'
  <2>1. CASE u = t
    <3>1. Shown(t)'
      BY <1>0, <1>2, AskShown, LoopShown, SaveShown, StreamShown, TitleShown
    <3>2. Agreed(t)'
      BY <1>0, <1>2, OwnAgreed
    <3>q. QED BY <2>1, <3>1, <3>2
  <2>2. CASE u # t
    <3>1. turn'[u] = turn[u] /\ client'[u] = client[u] /\ queue'[u] = queue[u]
      BY <1>0, <1>2, <2>2, OthersStay DEF LocalInv
    <3>2. Shown(u)'
      BY <1>0, <3>1 DEF Shown
    <3>3. Agreed(u)'
      BY <1>0, <1>2, <2>2, OthersAgreed
    <3>q. QED BY <3>2, <3>3
  <2>q. QED BY <2>1, <2>2
<1>3. CASE DeleteStep
  <2>1. UNCHANGED <<turn, client, queue>>
    BY <1>3 DEF DeleteStep, DeleteAgent, DeleteCascades
  <2>2. Shown(u)'
    BY <1>0, <2>1 DEF Shown
  <2>q. QED BY <1>0, <1>3, <2>2, DeleteAgreed
<1>q. QED BY <1>1, <1>2, <1>3 DEF Next

\* A client that stayed to the end was told what is stored: nothing of a turn
\* that ended in internal_error, otherwise the answer with exactly the text it
\* saw, whatever fails and however slow the queue is.
THEOREM ScreensAgree == Spec => []ScreenAgreesWithHistory
<1>1. ScreenInv => ScreenAgreesWithHistory
  BY DEF ScreenInv, Agreed, StoredOf, ScreenAgreesWithHistory
<1>q. QED BY ScreenInit, ScreenStep, <1>1, PTL DEF Spec
=============================================================================
