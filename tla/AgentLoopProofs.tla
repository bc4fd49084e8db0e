--------------------------- MODULE AgentLoopProofs ---------------------------
(***************************************************************************)
(* What AgentLoop's runs check on a small instance, for every number of    *)
(* calls, steps and ticks: the types of the state, one call at a time on   *)
(* the session, the statement budget, and the truth of a lead's answer.    *)
(***************************************************************************)
EXTENDS AgentLoop, TLAPS

USE DEF Place, Outer, Inner, LeadStatements

LEMMA NoCallTyped == NoCall \in CallState
BY DEF NoCall, CallState, Tool

LEMMA AnswerTyped ==
    ASSUME TypeOK, NEW k \in Place, NEW ok \in BOOLEAN, Answer(k, ok)
    PROVE  /\ call' \in [Place -> CallState]
           /\ \A j \in Place : call'[j].own <= call'[j].age /\ call'[j].age <= Outer
<1>0. Wait \in Nat /\ Own \in Nat
  BY ClocksAssumption
<1>1. call[k] \in CallState
  BY DEF TypeOK
<1> DEFINE r == [NoCall EXCEPT !.at = "answered", !.tool = call[k].tool,
                               !.id = call[k].id, !.ok = ok]
<1>2. r \in CallState /\ r.own = 0 /\ r.age = 0
  BY <1>1, NoCallTyped DEF NoCall, CallState
<1> HIDE DEF r
<1>3. call' = [call EXCEPT ![k] = r]
  BY DEF Answer, r
<1> QED
  BY <1>0, <1>2, <1>3 DEF TypeOK

LEMMA ReplyPlaces ==
    ASSUME NEW reply \in Reply
    PROVE  /\ DOMAIN reply \subseteq Place
           /\ \A k \in DOMAIN reply : reply[k].id \in Id /\ reply[k].tool \in Tool
BY SizesAssumption DEF Reply

LEMMA MessageTyped ==
    ASSUME NEW role \in {"assistant", "user"}, NEW P \in SUBSET Place, NEW f \in [P -> Id]
    PROVE  [role |-> role, ids |-> f] \in Message
<1>1. [P -> Id] \in {[Q -> Id] : Q \in SUBSET Place}
  OBVIOUS
<1>2. f \in UNION {[Q -> Id] : Q \in SUBSET Place}
  BY <1>1
<1> QED
  BY <1>2 DEF Message

\* The calls of a round carry ids the provider minted.
Named == \A k \in Calls : call[k].id \in Id

\* Between two rounds no call is left.
Idle == pc # "calling" => call = [k \in Place |-> NoCall]

LEMMA DispatchedTyped ==
    ASSUME NEW reply \in Reply, NEW places \in SUBSET DOMAIN reply, TypeOK
    PROVE  /\ Dispatched(reply, places) \in [Place -> CallState]
           /\ \A k \in Place : Dispatched(reply, places)[k].own = 0
                               /\ Dispatched(reply, places)[k].age = 0
           /\ \A k \in Place \ places : Dispatched(reply, places)[k] = NoCall
           /\ \A k \in places :
                /\ Dispatched(reply, places)[k].id = reply[k].id
                /\ Dispatched(reply, places)[k].tool = reply[k].tool
                /\ Dispatched(reply, places)[k].at \in {"queued", "answered"}
                /\ Dispatched(reply, places)[k].at = "answered" => reply[k].tool = "none"
                /\ ~Dispatched(reply, places)[k].ok
                /\ ~Dispatched(reply, places)[k].busy
<1> DEFINE d(k) ==
      [NoCall EXCEPT !.at = IF reply[k].tool = "none" THEN "answered" ELSE "queued",
                     !.tool = reply[k].tool, !.id = reply[k].id]
<1>1. \A k \in places :
        /\ d(k) \in CallState /\ d(k).own = 0 /\ d(k).age = 0
        /\ d(k).id = reply[k].id /\ d(k).tool = reply[k].tool
        /\ d(k).at \in {"queued", "answered"}
        /\ d(k).at = "answered" => reply[k].tool = "none"
        /\ ~d(k).ok /\ ~d(k).busy
  BY ReplyPlaces DEF NoCall, CallState
<1>2. NoCall.own = 0 /\ NoCall.age = 0
  BY DEF NoCall
<1>3. Dispatched(reply, places) = [k \in Place |-> IF k \in places THEN d(k) ELSE NoCall]
  BY DEF Dispatched
<1>4. places \subseteq Place
  BY ReplyPlaces
<1> HIDE DEF d
<1> QED
  BY <1>1, <1>2, <1>3, <1>4, NoCallTyped

\* What an action of a call leaves as it was.
LEMMA UseFrame ==
    ASSUME TypeOK, NEW k \in Place, Use(k)
    PROVE  UNCHANGED <<pc, step, seen, history>>
BY DEF Use, Acquire, AcquireLost, PassLimit, StartStatement, EndStatement, Return, Raise,
       StatementFails, Clear, InnerTimeout, OuterTimeout, RolledBack, Lose

\* A call keeps its place, its id and its tool, and touches no other call.
LEMMA UseKeeps ==
    ASSUME TypeOK, NEW k \in Place, Use(k)
    PROVE  /\ \A j \in Place : j # k => call'[j] = call[j]
           /\ call[k].at # "none" /\ call'[k].at # "none"
           /\ call'[k].id = call[k].id /\ call'[k].tool = call[k].tool
<1>1. call[k] \in CallState /\ call \in [Place -> CallState]
  BY DEF TypeOK
<1> DEFINE Kept == /\ \A j \in Place : j # k => call'[j] = call[j]
                   /\ call[k].at # "none" /\ call'[k].at # "none"
                   /\ call'[k].id = call[k].id /\ call'[k].tool = call[k].tool
<1>a. ASSUME NEW ok \in BOOLEAN, Answer(k, ok), call[k].at # "none" PROVE Kept
  BY <1>1, <1>a DEF Answer, NoCall
<1>r. ASSUME RolledBack(k), call[k].at # "none" PROVE Kept
  BY <1>1, <1>r DEF RolledBack, CallState
<1>l. ASSUME Lose(k), call[k].at # "none" PROVE Kept
  BY <1>a, <1>l DEF Lose
<1>2. CASE Acquire(k)
  BY <1>1, <1>2 DEF Acquire, Enter, Queued, CallState
<1>3. CASE AcquireLost(k)
  BY <1>a, <1>3 DEF AcquireLost, Queued
<1>4. CASE PassLimit(k)
  <2>1. call' = [call EXCEPT ![k].passed = TRUE] /\ call[k].at = "running"
    BY <1>4 DEF PassLimit, Thinking
  <2> QED
    BY <1>1, <2>1 DEF CallState
<1>5. CASE StartStatement(k)
  <2>1. call' = [call EXCEPT ![k].busy = TRUE] /\ call[k].at = "running"
    BY <1>5 DEF StartStatement, Thinking
  <2> QED
    BY <1>1, <2>1 DEF CallState
<1>6. CASE EndStatement(k)
  <2>1. /\ call' = [call EXCEPT ![k].busy = FALSE, ![k].stmt = 0, ![k].done = call[k].done + 1]
        /\ call[k].at = "running"
    BY <1>6 DEF EndStatement
  <2> QED
    BY <1>1, <2>1 DEF CallState
<1>7. CASE Return(k)
  <2>0. call[k].at = "running"
    BY <1>7 DEF Return, Thinking
  <2>1. CASE call' = [call EXCEPT ![k].at = "closing"]
    BY <1>1, <2>0, <2>1 DEF CallState
  <2>2. CASE \E ok \in BOOLEAN : call' = [call EXCEPT ![k].at = "closing", ![k].ok = ok]
    BY <1>1, <2>0, <2>2 DEF CallState
  <2> QED
    BY <1>7, <2>1, <2>2 DEF Return
<1>8. CASE Raise(k) \/ StatementFails(k)
  BY <1>r, <1>8 DEF Raise, StatementFails, Thinking
<1>9. CASE InnerTimeout(k)
  BY <1>r, <1>l, <1>9 DEF InnerTimeout
<1>10. CASE Clear(k)
  BY <1>a, <1>1, <1>10 DEF Clear, CallState
<1>11. CASE OuterTimeout(k)
  BY <1>a, <1>l, <1>11 DEF OuterTimeout, Thinking
<1> QED
  BY <1>2, <1>3, <1>4, <1>5, <1>6, <1>7, <1>8, <1>9, <1>10, <1>11 DEF Use

LEMMA UseTyped ==
    ASSUME TypeOK, Named, NEW k \in Place, Use(k)
    PROVE  TypeOK'
<1>0. Wait \in Nat /\ Own \in Nat /\ Grace \in Nat /\ LeadLimit \in Nat
  BY ClocksAssumption, SizesAssumption
<1>1. call[k] \in CallState /\ call \in [Place -> CallState]
  BY DEF TypeOK
<1>2. pc' = pc /\ step' = step /\ seen' = seen /\ history' = history
  BY UseFrame
<1>s. SUFFICES /\ call' \in [Place -> CallState]
               /\ \A j \in Place : call'[j].own <= call'[j].age /\ call'[j].age <= Outer
               /\ session' \in {"usable", "lost"} /\ budget' \in BOOLEAN
               /\ leads' \subseteq Id /\ used' \in 0..LeadLimit
  BY <1>2 DEF TypeOK
<1>3. CASE Acquire(k)
  BY <1>0, <1>1, <1>3 DEF Acquire, Enter, TypeOK, CallState
<1>4. CASE AcquireLost(k)
  BY <1>4, AnswerTyped DEF AcquireLost, TypeOK
<1>5. CASE PassLimit(k)
  <2>1. used' \in 0..LeadLimit
    BY <1>0, <1>5 DEF PassLimit, TypeOK
  <2>2. call' = [call EXCEPT ![k].passed = TRUE]
    BY <1>5 DEF PassLimit
  <2>3. /\ call' \in [Place -> CallState]
        /\ \A j \in Place : call'[j].own = call[j].own /\ call'[j].age = call[j].age
    BY <1>1, <2>2 DEF CallState
  <2>4. session' = session /\ budget' = budget /\ leads' = leads
    BY <1>5 DEF PassLimit
  <2> QED
    BY <2>1, <2>3, <2>4 DEF TypeOK
<1>6. CASE StartStatement(k)
  BY <1>0, <1>1, <1>6 DEF StartStatement, TypeOK, CallState
<1>7. CASE EndStatement(k)
  <2>1. call[k].at = "running"
    BY <1>7 DEF EndStatement
  <2>2. call[k].id \in Id
    BY <2>1 DEF Named, Calls
  <2>3. leads' \subseteq Id
    BY <1>7, <2>2 DEF EndStatement, TypeOK
  <2>4. call' = [call EXCEPT ![k].busy = FALSE, ![k].stmt = 0, ![k].done = call[k].done + 1]
    BY <1>7 DEF EndStatement
  <2>5. /\ call' \in [Place -> CallState]
        /\ \A j \in Place : call'[j].own = call[j].own /\ call'[j].age = call[j].age
    BY <1>1, <2>4 DEF CallState
  <2>6. session' = session /\ budget' = budget /\ used' = used
    BY <1>7 DEF EndStatement
  <2> QED
    BY <2>3, <2>5, <2>6 DEF TypeOK
<1>8. CASE Return(k)
  <2>1. /\ call' \in [Place -> CallState]
        /\ \A j \in Place : call'[j].own = call[j].own /\ call'[j].age = call[j].age
    <3>1. CASE call' = [call EXCEPT ![k].at = "closing"]
      BY <1>1, <3>1 DEF CallState
    <3>2. ASSUME NEW ok \in BOOLEAN, call' = [call EXCEPT ![k].at = "closing", ![k].ok = ok]
          PROVE  /\ call' \in [Place -> CallState]
                 /\ \A j \in Place : call'[j].own = call[j].own /\ call'[j].age = call[j].age
      BY <1>1, <3>2 DEF CallState
    <3> QED
      BY <1>8, <3>1, <3>2 DEF Return
  <2>2. session' = session /\ budget' = budget /\ leads' = leads /\ used' = used
    BY <1>8 DEF Return
  <2> QED
    BY <2>1, <2>2 DEF TypeOK
<1>r. ASSUME RolledBack(k)
      PROVE  /\ call' \in [Place -> CallState]
             /\ \A j \in Place : call'[j].own <= call'[j].age /\ call'[j].age <= Outer
             /\ session' \in {"usable", "lost"} /\ budget' \in BOOLEAN
             /\ leads' \subseteq Id /\ used' \in 0..LeadLimit
  BY <1>0, <1>1, <1>r DEF RolledBack, TypeOK, CallState
<1>l. ASSUME Lose(k)
      PROVE  /\ call' \in [Place -> CallState]
             /\ \A j \in Place : call'[j].own <= call'[j].age /\ call'[j].age <= Outer
             /\ session' \in {"usable", "lost"} /\ budget' \in BOOLEAN
             /\ leads' \subseteq Id /\ used' \in 0..LeadLimit
  BY <1>l, AnswerTyped DEF Lose, TypeOK
<1>9. CASE Raise(k) \/ StatementFails(k) \/ InnerTimeout(k)
  BY <1>9, <1>r, <1>l DEF Raise, StatementFails, InnerTimeout
<1>10. CASE Clear(k)
  <2>1. call[k].ok \in BOOLEAN
    BY <1>1 DEF CallState
  <2> QED
    BY <1>10, <2>1, AnswerTyped DEF Clear, TypeOK
<1>11. CASE OuterTimeout(k)
  BY <1>11, <1>l, AnswerTyped DEF OuterTimeout, TypeOK
<1> QED
  BY <1>3, <1>4, <1>5, <1>6, <1>7, <1>8, <1>9, <1>10, <1>11 DEF Use

LEMMA InitTyped == Init => TypeOK /\ Named /\ Idle
<1> SUFFICES ASSUME Init PROVE TypeOK /\ Named /\ Idle
  OBVIOUS
<1>1. Wait \in Nat /\ Own \in Nat /\ LeadLimit \in Nat /\ MaxSteps \in Nat \ {0}
  BY ClocksAssumption, SizesAssumption, StepsAssumption
<1>2. NoCall.own = 0 /\ NoCall.age = 0 /\ NoCall.at = "none"
  BY DEF NoCall
<1>3. call = [k \in Place |-> NoCall]
  BY DEF Init
<1>4. call \in [Place -> CallState] /\ \A k \in Place : call[k] = NoCall
  BY <1>3, NoCallTyped
<1>5. \A k \in Place : call[k].own <= call[k].age /\ call[k].age <= Outer
  BY <1>1, <1>2, <1>4
<1>6. Named /\ Idle
  BY <1>2, <1>3, <1>4 DEF Named, Idle, Calls
<1>7. history \in Seq(Message)
  BY DEF Init
<1>8. /\ pc \in {"asking", "calling", "finished", "limit", "failed"} /\ step \in 1..MaxSteps
      /\ seen \subseteq Id /\ session \in {"usable", "lost"} /\ budget \in BOOLEAN
      /\ leads \subseteq Id /\ used \in 0..LeadLimit
  <2>1. step = 1 /\ used = 0 /\ pc = "asking" /\ session = "usable" /\ seen = {} /\ leads = {}
    BY DEF Init
  <2>2. step \in 1..MaxSteps /\ used \in 0..LeadLimit
    BY <1>1, <2>1
  <2>3. budget \in BOOLEAN
    BY DEF Init
  <2> QED
    BY <2>1, <2>2, <2>3
<1> QED
  BY <1>4, <1>5, <1>6, <1>7, <1>8 DEF TypeOK

LEMMA TickTyped == TypeOK /\ Named /\ Idle /\ Tick => TypeOK' /\ Named' /\ Idle'
<1> SUFFICES ASSUME TypeOK, Named, Idle, Tick PROVE TypeOK' /\ Named' /\ Idle'
  OBVIOUS
<1>0. Wait \in Nat /\ Own \in Nat /\ Grace \in Nat
  BY ClocksAssumption
<1> DEFINE q(k) == [call[k] EXCEPT !.age = call[k].age + 1]
           u(k) == [call[k] EXCEPT !.age = call[k].age + 1, !.own = call[k].own + 1,
                                   !.stmt = call[k].stmt + (IF call[k].busy THEN 1 ELSE 0)]
<1>1. \A k \in Place :
        /\ q(k) \in CallState /\ q(k).own = call[k].own /\ q(k).age = call[k].age + 1
        /\ u(k) \in CallState /\ u(k).own = call[k].own + 1 /\ u(k).age = call[k].age + 1
        /\ q(k).id = call[k].id /\ u(k).id = call[k].id
        /\ q(k).at = call[k].at /\ u(k).at = call[k].at
        /\ call[k] \in CallState /\ call[k].own \in Nat /\ call[k].age \in Nat
  <2> SUFFICES ASSUME NEW k \in Place PROVE <1>1!(k)
    OBVIOUS
  <2>1. call[k] \in CallState
    BY DEF TypeOK
  <2> DEFINE st == call[k].stmt + (IF call[k].busy THEN 1 ELSE 0)
  <2>2. st \in Nat
    BY <2>1 DEF CallState
  <2>3. u(k) = [call[k] EXCEPT !.age = call[k].age + 1, !.own = call[k].own + 1, !.stmt = st]
    OBVIOUS
  <2> HIDE DEF st, u
  <2>a. call[k].age + 1 \in Nat /\ call[k].own + 1 \in Nat
    BY <2>1 DEF CallState
  <2> DEFINE a == call[k].age + 1
             o == call[k].own + 1
  <2>b. u(k) = [call[k] EXCEPT !.age = a, !.own = o, !.stmt = st] /\ a \in Nat /\ o \in Nat
    BY <2>3, <2>a
  <2> HIDE DEF a, o
  <2>c. u(k) \in CallState /\ u(k).own = o /\ u(k).age = a
    BY <2>1, <2>2, <2>b DEF CallState
  <2>d. u(k).id = call[k].id /\ u(k).at = call[k].at
    BY <2>1, <2>b DEF CallState
  <2>4. /\ u(k) \in CallState /\ u(k).own = call[k].own + 1 /\ u(k).age = call[k].age + 1
        /\ u(k).id = call[k].id /\ u(k).at = call[k].at
    BY <2>c, <2>d DEF a, o
  <2>5. /\ q(k) \in CallState /\ q(k).own = call[k].own /\ q(k).age = call[k].age + 1
        /\ q(k).id = call[k].id /\ q(k).at = call[k].at
    BY <2>1 DEF CallState
  <2>6. call[k].own \in Nat /\ call[k].age \in Nat
    BY <2>1 DEF CallState
  <2> QED
    BY <2>1, <2>4, <2>5, <2>6
<1>2. call' = [k \in Place |-> IF k \in Queued THEN q(k) ELSE IF k \in InUse THEN u(k) ELSE call[k]]
  BY DEF Tick
<1>3. \A k \in InUse \union Queued : call[k].age < Outer
  BY DEF Tick
<1> HIDE DEF q, u
<1>4. \A k \in Place :
        /\ call'[k] \in CallState /\ call'[k].own <= call'[k].age /\ call'[k].age <= Outer
        /\ call'[k].id = call[k].id /\ call'[k].at = call[k].at
  <2> SUFFICES ASSUME NEW k \in Place PROVE <1>4!(k)
    OBVIOUS
  <2>1. call[k].own <= call[k].age /\ call[k].age <= Outer
    BY DEF TypeOK
  <2>2. CASE k \in Queued
    BY <1>0, <1>1, <1>2, <1>3, <2>1, <2>2
  <2>3. CASE k \notin Queued /\ k \in InUse
    BY <1>0, <1>1, <1>2, <1>3, <2>1, <2>3
  <2>4. CASE k \notin Queued /\ k \notin InUse
    BY <1>1, <1>2, <2>1, <2>4
  <2> QED
    BY <2>2, <2>3, <2>4
<1>5. call' \in [Place -> CallState]
  BY <1>2, <1>4
<1> QED
  BY <1>4, <1>5 DEF Tick, TypeOK, Named, Idle, Calls

LEMMA LoopTyped ==
    ASSUME TypeOK, Named, Idle, ModelTalks \/ ModelCalls \/ ModelFails \/ Collect
    PROVE  TypeOK' /\ Named' /\ Idle'
<1>0. /\ Wait \in Nat /\ Own \in Nat /\ LeadLimit \in Nat /\ MaxSteps \in Nat \ {0}
      /\ NoCall.own = 0 /\ NoCall.age = 0 /\ NoCall.at = "none"
  BY ClocksAssumption, SizesAssumption, StepsAssumption DEF NoCall
<1>1. CASE ModelFails
  BY <1>1 DEF ModelFails, TypeOK, Named, Idle, Calls
<1>2. CASE ModelTalks
  <2>1. PICK reply \in Reply, text \in BOOLEAN :
          history' = IF text
                     THEN Append(history, [role |-> "assistant", ids |-> Ids(reply, {})])
                     ELSE history
    BY <1>2 DEF ModelTalks
  <2>2. Ids(reply, {}) \in [{} -> Id]
    BY DEF Ids
  <2>3. [role |-> "assistant", ids |-> Ids(reply, {})] \in Message
    BY <2>2, MessageTyped
  <2>4. history' \in Seq(Message)
    BY <2>1, <2>3 DEF TypeOK
  <2> QED
    BY <1>2, <2>4 DEF ModelTalks, TypeOK, Named, Idle, Calls
<1>3. CASE ModelCalls
  <2>1. PICK reply \in Reply :
          /\ seen' = seen \union {reply[k].id : k \in Unique(reply)}
          /\ history' = Append(history,
                         [role |-> "assistant", ids |-> Ids(reply, Unique(reply))])
          /\ call' = Dispatched(reply, Unique(reply))
    BY <1>3 DEF ModelCalls
  <2>2. Unique(reply) \subseteq DOMAIN reply /\ Unique(reply) \subseteq Place
    BY ReplyPlaces DEF Unique
  <2>3. Ids(reply, Unique(reply)) \in [Unique(reply) -> Id]
    BY <2>2, ReplyPlaces DEF Ids
  <2>4. [role |-> "assistant", ids |-> Ids(reply, Unique(reply))] \in Message
    BY <2>2, <2>3, MessageTyped
  <2>5. history' \in Seq(Message)
    BY <2>1, <2>4 DEF TypeOK
  <2>6. seen' \subseteq Id
    BY <2>1, <2>2, ReplyPlaces DEF TypeOK
  <2>7. /\ call' \in [Place -> CallState]
        /\ \A k \in Place : call'[k].own <= call'[k].age /\ call'[k].age <= Outer
    BY <1>0, <2>1, <2>2, DispatchedTyped
  <2>8. Named'
    BY <1>0, <2>1, <2>2, DispatchedTyped, ReplyPlaces DEF Named, Calls
  <2>9. /\ pc' = "calling" /\ step' = step /\ session' = session /\ budget' = budget
        /\ leads' = leads /\ used' = used
    BY <1>3 DEF ModelCalls
  <2> QED
    BY <2>5, <2>6, <2>7, <2>8, <2>9 DEF TypeOK, Idle
<1>4. CASE Collect
  <2>1. Asked \in [Calls -> Id] /\ Calls \subseteq Place
    BY DEF Asked, Named, Calls
  <2>2. [role |-> "user", ids |-> Asked] \in Message
    BY <2>1, MessageTyped
  <2>3. history' \in Seq(Message)
    BY <1>4, <2>2 DEF Collect, TypeOK
  <2>4. call' = [k \in Place |-> NoCall]
    BY <1>4 DEF Collect
  <2>5. step' \in 1..MaxSteps /\ pc' \in {"limit", "asking"}
    BY <1>0, <1>4 DEF Collect, TypeOK
  <2>6. /\ seen' = seen /\ session' = session /\ budget' = budget
        /\ leads' = leads /\ used' = used
    BY <1>4 DEF Collect
  <2> QED
    BY <1>0, <2>3, <2>4, <2>5, <2>6, NoCallTyped DEF TypeOK, Named, Idle, Calls
<1> QED
  BY <1>1, <1>2, <1>3, <1>4

THEOREM LoopTypes == Spec => [](TypeOK /\ Named /\ Idle)
<1>1. Init => TypeOK /\ Named /\ Idle
  BY InitTyped
<1>2. TypeOK /\ Named /\ Idle /\ [Next]_vars => (TypeOK /\ Named /\ Idle)'
  <2> SUFFICES ASSUME TypeOK, Named, Idle, [Next]_vars
               PROVE  TypeOK' /\ Named' /\ Idle'
    OBVIOUS
  <2>1. CASE ModelTalks \/ ModelCalls \/ ModelFails \/ Collect
    BY <2>1, LoopTyped
  <2>2. CASE Tick
    BY <2>2, TickTyped
  <2>3. CASE \E k \in Place : Use(k)
    <3>1. PICK k \in Place : Use(k)
      BY <2>3
    <3>2. /\ call[k].at # "none" /\ call'[k].id = call[k].id /\ pc' = pc
          /\ \A j \in Place : j # k => call'[j] = call[j]
      BY <3>1, UseKeeps, UseFrame
    <3>3. pc = "calling"
      <4>1. NoCall.at = "none"
        BY DEF NoCall
      <4>2. call = [j \in Place |-> NoCall] => call[k] = NoCall
        OBVIOUS
      <4> QED
        BY <3>2, <4>1, <4>2 DEF Idle
    <3> QED
      BY <3>1, <3>2, <3>3, UseTyped DEF Named, Idle, Calls
  <2>4. CASE UNCHANGED vars
    BY <2>4 DEF vars, TypeOK, Named, Idle, Calls
  <2> QED
    BY <2>1, <2>2, <2>3, <2>4 DEF Next
<1> QED
  BY <1>1, <1>2, PTL DEF Spec

\* The types of AgentLoop's state hold for every number of calls, steps and
\* ticks: the clocks of a call never pass the registry's timeout.
THEOREM LoopTyping == Spec => []TypeOK
BY LoopTypes, PTL

-----------------------------------------------------------------------------
(* One call at a time *)

OneAtATime == \A j, k \in InUse : j = k

Solo == OneAtATime /\ BudgetIsTheCalls

LEMMA UseSolo ==
    ASSUME TypeOK, Solo, NEW k \in Place, Use(k)
    PROVE  Solo'
<1>1. call \in [Place -> CallState] /\ call[k] \in CallState
  BY DEF TypeOK
<1>2. \A j \in Place : j # k => call'[j] = call[j]
  BY UseKeeps
\* The call stays on the session, or stays off it.
<1>s. ASSUME call'[k].at = call[k].at, budget' = budget PROVE Solo'
  BY <1>2, <1>s DEF Solo, OneAtATime, BudgetIsTheCalls, InUse
\* The call has the session and leaves it, or only its savepoint.
<1>c. ASSUME k \in InUse, call'[k].at = "closing" PROVE Solo'
  BY <1>2, <1>c DEF Solo, OneAtATime, BudgetIsTheCalls, InUse
<1>d. ASSUME k \in InUse, call'[k].at = "answered", ~budget' PROVE Solo'
  BY <1>2, <1>d DEF Solo, OneAtATime, BudgetIsTheCalls, InUse
\* The call never had it.
<1>q. ASSUME k \notin InUse, call'[k].at = "answered", budget' = budget PROVE Solo'
  BY <1>2, <1>q DEF Solo, OneAtATime, BudgetIsTheCalls, InUse
<1>a. ASSUME NEW ok \in BOOLEAN, Answer(k, ok) PROVE call'[k].at = "answered"
  BY <1>1, <1>a DEF Answer, NoCall
<1>r. ASSUME RolledBack(k), k \in InUse PROVE Solo'
  <2>1. call'[k].at = "closing"
    BY <1>1, <1>r DEF RolledBack, CallState
  <2> QED
    BY <1>c, <1>r, <2>1
<1>l. ASSUME Lose(k), k \in InUse PROVE Solo'
  BY <1>a, <1>d, <1>l DEF Lose
<1>3. CASE Acquire(k)
  <2>1. call'[k].at = "running" /\ budget' /\ InUse = {}
    BY <1>1, <1>3 DEF Acquire, Enter, CallState
  <2> QED
    BY <1>2, <2>1 DEF Solo, OneAtATime, BudgetIsTheCalls, InUse
<1>4. CASE AcquireLost(k)
  BY <1>a, <1>q, <1>4 DEF AcquireLost
<1>5. CASE PassLimit(k) \/ StartStatement(k) \/ EndStatement(k)
  <2>1. budget' = budget
    BY <1>5 DEF PassLimit, StartStatement, EndStatement
  <2>2. CASE call' = [call EXCEPT ![k].passed = TRUE]
    BY <1>1, <1>s, <2>1, <2>2 DEF CallState
  <2>3. CASE call' = [call EXCEPT ![k].busy = TRUE]
    BY <1>1, <1>s, <2>1, <2>3 DEF CallState
  <2>4. CASE call' = [call EXCEPT ![k].busy = FALSE, ![k].stmt = 0, ![k].done = call[k].done + 1]
    BY <1>1, <1>s, <2>1, <2>4 DEF CallState
  <2> QED
    BY <1>5, <2>2, <2>3, <2>4 DEF PassLimit, StartStatement, EndStatement
<1>6. CASE Return(k)
  <2>0. k \in InUse
    BY <1>6 DEF Return, Thinking, InUse
  <2>1. CASE call' = [call EXCEPT ![k].at = "closing"]
    BY <1>1, <1>c, <2>0, <2>1 DEF CallState
  <2>2. CASE \E ok \in BOOLEAN : call' = [call EXCEPT ![k].at = "closing", ![k].ok = ok]
    BY <1>1, <1>c, <2>0, <2>2 DEF CallState
  <2> QED
    BY <1>6, <2>1, <2>2 DEF Return
<1>7. CASE Raise(k) \/ StatementFails(k)
  BY <1>r, <1>7 DEF Raise, StatementFails, Thinking, InUse
<1>8. CASE InnerTimeout(k)
  BY <1>r, <1>l, <1>8 DEF InnerTimeout, InUse
<1>9. CASE Clear(k)
  <2>1. call[k].ok \in BOOLEAN /\ k \in InUse /\ ~budget'
    BY <1>1, <1>9 DEF Clear, CallState, InUse
  <2> QED
    BY <1>a, <1>d, <1>9, <2>1 DEF Clear
<1>10. CASE OuterTimeout(k)
  <2>1. CASE call[k].at = "queued" /\ Answer(k, FALSE) /\ budget' = budget
    BY <1>a, <1>q, <2>1 DEF InUse
  <2>2. CASE k \in InUse /\ Lose(k)
    BY <1>l, <2>2
  <2>3. CASE Thinking(k) /\ Answer(k, FALSE) /\ budget' = FALSE
    BY <1>a, <1>d, <2>3 DEF Thinking, InUse
  <2> QED
    BY <1>10, <2>1, <2>2, <2>3 DEF OuterTimeout, InUse
<1> QED
  BY <1>3, <1>4, <1>5, <1>6, <1>7, <1>8, <1>9, <1>10 DEF Use

\* A tick leaves every call where it is.
LEMMA TickKeeps ==
    ASSUME TypeOK, Tick
    PROVE  /\ \A k \in Place :
                /\ call'[k].at = call[k].at /\ call'[k].id = call[k].id
                /\ call'[k].tool = call[k].tool /\ call'[k].busy = call[k].busy
                /\ call'[k].done = call[k].done /\ call'[k].passed = call[k].passed
                /\ call'[k].ok = call[k].ok
           /\ UNCHANGED <<pc, step, seen, history, session, budget, leads, used>>
<1> SUFFICES ASSUME NEW k \in Place
             PROVE  /\ call'[k].at = call[k].at /\ call'[k].id = call[k].id
                    /\ call'[k].tool = call[k].tool /\ call'[k].busy = call[k].busy
                    /\ call'[k].done = call[k].done /\ call'[k].passed = call[k].passed
                    /\ call'[k].ok = call[k].ok
  BY DEF Tick
<1>1. call[k] \in CallState
  BY DEF TypeOK
<1> DEFINE a == call[k].age + 1
           o == call[k].own + 1
           st == call[k].stmt + (IF call[k].busy THEN 1 ELSE 0)
<1>2. call'[k] = IF k \in Queued THEN [call[k] EXCEPT !.age = a]
                 ELSE IF k \in InUse
                 THEN [call[k] EXCEPT !.age = a, !.own = o, !.stmt = st]
                 ELSE call[k]
  BY DEF Tick
<1> HIDE DEF a, o, st
<1> QED
  BY <1>1, <1>2 DEF CallState

\* Between two rounds, and as one begins, no call is on the session.
LEMMA LoopSolo ==
    ASSUME TypeOK, Idle, Solo, ModelTalks \/ ModelCalls \/ ModelFails \/ Collect
    PROVE  Solo'
<1>1. CASE ModelTalks \/ ModelFails
  BY <1>1 DEF ModelTalks, ModelFails, Solo, OneAtATime, BudgetIsTheCalls, InUse
<1>2. CASE ModelCalls
  <2>1. PICK reply \in Reply : call' = Dispatched(reply, Unique(reply))
    BY <1>2 DEF ModelCalls
  <2>2. Unique(reply) \subseteq DOMAIN reply
    BY DEF Unique
  <2>3. NoCall.at = "none"
    BY DEF NoCall
  <2>4. InUse' = {}
    BY <2>1, <2>2, <2>3, DispatchedTyped DEF InUse
  <2>5. InUse = {} /\ budget' = budget
    BY <1>2, <2>3 DEF ModelCalls, Idle, InUse
  <2> QED
    BY <2>4, <2>5 DEF Solo, OneAtATime, BudgetIsTheCalls, InUse
<1>3. CASE Collect
  <2>1. call' = [k \in Place |-> NoCall] /\ budget' = budget
    BY <1>3 DEF Collect
  <2>2. InUse = {}
    BY <1>3 DEF Collect, InUse, Calls
  <2>3. NoCall.at = "none"
    BY DEF NoCall
  <2>4. InUse' = {}
    BY <2>1, <2>3 DEF InUse
  <2> QED
    BY <2>1, <2>2, <2>4 DEF Solo, OneAtATime, BudgetIsTheCalls, InUse
<1> QED
  BY <1>1, <1>2, <1>3

\* No tool runs without its statement budget, none of the turn's own writes
\* runs under one, and no two calls share the session, whatever the clocks do.
THEOREM LoopBudget == Spec => []BudgetIsTheCalls
<1>1. Init => Solo
  BY DEF Init, Solo, OneAtATime, BudgetIsTheCalls, InUse, NoCall
<1>2. TypeOK /\ Idle /\ Solo /\ [Next]_vars => Solo'
  <2> SUFFICES ASSUME TypeOK, Idle, Solo, [Next]_vars PROVE Solo'
    OBVIOUS
  <2>1. CASE ModelTalks \/ ModelCalls \/ ModelFails \/ Collect
    BY <2>1, LoopSolo
  <2>2. CASE Tick
    BY <2>2, TickKeeps DEF Solo, OneAtATime, BudgetIsTheCalls, InUse
  <2>3. CASE \E k \in Place : Use(k)
    BY <2>3, UseSolo
  <2>4. CASE UNCHANGED vars
    BY <2>4 DEF vars, Solo, OneAtATime, BudgetIsTheCalls, InUse
  <2> QED
    BY <2>1, <2>2, <2>3, <2>4 DEF Next
<1>3. Solo => BudgetIsTheCalls
  BY DEF Solo
<1> QED
  BY <1>1, <1>2, <1>3, LoopTypes, PTL DEF Spec

-----------------------------------------------------------------------------
(* A lead's answer *)

\* How far a call has come and what of it the transaction holds.
Ledger(k) ==
    /\ call[k].at = "queued" => ~call[k].busy /\ call[k].done = 0 /\ ~call[k].passed
    /\ call[k].at \in {"queued", "running"} => ~call[k].ok
    /\ call[k].at = "running" /\ call[k].tool = "lead" =>
         /\ call[k].done <= LeadStatements
         /\ call[k].busy => call[k].done < LeadStatements
         /\ ~call[k].passed => call[k].done = 0 /\ ~call[k].busy
    /\ call[k].tool = "lead" /\ session = "usable" =>
         /\ call[k].at = "queued" => call[k].id \notin leads
         /\ call[k].at = "running" =>
              (call[k].id \in leads <=> call[k].done = LeadStatements)
         /\ call[k].at \in {"closing", "answered"} => (call[k].ok <=> call[k].id \in leads)

Ledgers == \A k \in Place : Ledger(k)

\* An id names one call of the round, and the turn has seen it.
Distinct == \A j, k \in Calls : call[j].id = call[k].id => j = k
Known == leads \subseteq seen /\ \A k \in Calls : call[k].id \in seen

LEMMA SinceOwn ==
    ASSUME OneAtATime, TypeOK, NEW k \in InUse
    PROVE  Since(k) = {call[k].id}
<1>1. \A j \in InUse : j = k
  BY DEF OneAtATime
<1>2. call[k].own \in Nat
  BY DEF TypeOK, CallState, InUse
<1> QED
  BY <1>1, <1>2 DEF Since

\* A call whose id the step neither adds to leads nor takes from them.
LEMMA OthersLedger ==
    ASSUME NEW j \in Place, Ledger(j), call'[j] = call[j],
           session' = "usable" => session = "usable",
           session' = "usable" => (call[j].id \in leads' <=> call[j].id \in leads)
    PROVE  Ledger(j)'
BY DEF Ledger

LEMMA UseLedgers ==
    ASSUME TypeOK, Solo, Ledgers, Distinct, Known, NEW k \in Place, Use(k)
    PROVE  Ledgers' /\ Distinct' /\ Known'
<1>1. call \in [Place -> CallState] /\ call[k] \in CallState
  BY DEF TypeOK
<1>2. /\ \A j \in Place : j # k => call'[j] = call[j]
      /\ call[k].at # "none" /\ call'[k].at # "none"
      /\ call'[k].id = call[k].id /\ call'[k].tool = call[k].tool
  BY UseKeeps
<1>3. Distinct'
  BY <1>2 DEF Distinct, Calls
<1>s. SUFFICES Ledgers' /\ Known'
  BY <1>3
<1>4. Ledger(k) /\ call[k].id \in seen
  BY <1>2 DEF Ledgers, Known, Calls
<1>5. seen' = seen
  BY UseFrame
<1>f. \A j \in Place : j # k /\ call[j].at # "none" => call[j].id # call[k].id
  BY <1>2 DEF Distinct, Calls
\* It is enough to follow k's own ledger, when only k's id comes or goes.
<1>g. ASSUME leads' \ {call[k].id} = leads \ {call[k].id},
             session' = "usable" => session = "usable", Ledger(k)'
      PROVE  Ledgers' /\ Known'
  <2>1. ASSUME NEW j \in Place, j # k, call[j].at # "none" PROVE Ledger(j)'
    BY <1>2, <1>f, <1>g, <2>1, OthersLedger DEF Ledgers
  <2>2. ASSUME NEW j \in Place, j # k, call[j].at = "none" PROVE Ledger(j)'
    BY <1>2, <2>2 DEF Ledger
  <2>3. leads' \subseteq seen'
    BY <1>4, <1>5, <1>g DEF Known
  <2> QED
    BY <1>2, <1>4, <1>5, <1>g, <2>1, <2>2, <2>3 DEF Ledgers, Known, Calls
<1>h. ASSUME leads' = {}, session' = "lost", Ledger(k)'
      PROVE  Ledgers' /\ Known'
  <2>1. ASSUME NEW j \in Place, j # k PROVE Ledger(j)'
    BY <1>2, <1>h, <2>1 DEF Ledgers, Ledger
  <2> QED
    BY <1>2, <1>4, <1>5, <1>h, <2>1 DEF Ledgers, Known, Calls
<1>a. ASSUME NEW ok \in BOOLEAN, Answer(k, ok)
      PROVE  call'[k].at = "answered" /\ call'[k].ok = ok
  BY <1>1, <1>a DEF Answer, NoCall
<1>r. ASSUME RolledBack(k), call[k].at = "running" PROVE Ledgers' /\ Known'
  <2>1. leads' = leads \ {call[k].id}
    BY <1>r, SinceOwn DEF RolledBack, Solo, InUse
  <2>2. call'[k].at = "closing" /\ call'[k].ok = call[k].ok
    BY <1>1, <1>r DEF RolledBack, CallState
  <2>3. Ledger(k)'
    BY <1>2, <1>4, <1>r, <2>1, <2>2 DEF Ledger
  <2> QED
    BY <1>g, <1>r, <2>1, <2>3 DEF RolledBack
<1>l. ASSUME Lose(k) PROVE Ledgers' /\ Known'
  <2>1. Ledger(k)'
    BY <1>a, <1>l DEF Lose, Ledger
  <2> QED
    BY <1>h, <1>l, <2>1 DEF Lose
<1>6. CASE Acquire(k)
  <2>1. /\ call'[k].at = "running" /\ call'[k].ok = call[k].ok /\ call'[k].done = call[k].done
        /\ call'[k].busy = call[k].busy /\ call'[k].passed = call[k].passed
    BY <1>1, <1>6 DEF Acquire, Enter, CallState
  <2>2. call[k].at = "queued" /\ leads' = leads /\ session' = session
    BY <1>6 DEF Acquire, Queued
  <2>3. Ledger(k)'
    BY <1>2, <1>4, <2>1, <2>2 DEF Ledger
  <2> QED
    BY <1>g, <2>2, <2>3
<1>7. CASE AcquireLost(k)
  <2>1. Ledger(k)'
    BY <1>a, <1>7 DEF AcquireLost, Ledger
  <2> QED
    BY <1>g, <1>7, <2>1 DEF AcquireLost
<1>8. CASE PassLimit(k)
  <2>1. call' = [call EXCEPT ![k].passed = TRUE] /\ leads' = leads /\ session' = session
    BY <1>8 DEF PassLimit
  <2>2. /\ call'[k].at = call[k].at /\ call'[k].ok = call[k].ok /\ call'[k].done = call[k].done
        /\ call'[k].busy = call[k].busy /\ call'[k].passed /\ call[k].at = "running"
    BY <1>1, <1>8, <2>1 DEF CallState, PassLimit, Thinking
  <2>3. Ledger(k)'
    BY <1>2, <1>4, <2>1, <2>2 DEF Ledger
  <2> QED
    BY <1>g, <2>1, <2>3
<1>9. CASE StartStatement(k)
  <2>1. call' = [call EXCEPT ![k].busy = TRUE] /\ leads' = leads /\ session' = session
    BY <1>9 DEF StartStatement
  <2>2. /\ call'[k].at = call[k].at /\ call'[k].ok = call[k].ok /\ call'[k].done = call[k].done
        /\ call'[k].passed = call[k].passed /\ call[k].at = "running"
        /\ call[k].tool = "lead" => call[k].passed /\ call[k].done < LeadStatements
    BY <1>1, <1>9, <2>1 DEF CallState, StartStatement, Statements, Thinking
  <2>3. Ledger(k)'
    BY <1>2, <1>4, <2>1, <2>2 DEF Ledger
  <2> QED
    BY <1>g, <2>1, <2>3
<1>10. CASE EndStatement(k)
  <2>1. /\ call' = [call EXCEPT ![k].busy = FALSE, ![k].stmt = 0, ![k].done = call[k].done + 1]
        /\ call[k].at = "running" /\ call[k].busy /\ session' = session
        /\ leads' = IF call[k].tool = "lead" /\ call[k].done + 1 = LeadStatements
                    THEN leads \union {call[k].id} ELSE leads
    BY <1>10 DEF EndStatement
  <2>2. /\ call'[k].at = call[k].at /\ call'[k].ok = call[k].ok
        /\ call'[k].done = call[k].done + 1 /\ ~call'[k].busy
        /\ call'[k].passed = call[k].passed /\ call[k].done \in Nat
    BY <1>1, <2>1 DEF CallState
  <2>3. Ledger(k)'
    BY <1>2, <1>4, <2>1, <2>2 DEF Ledger
  <2> QED
    BY <1>g, <2>1, <2>3
<1>11. CASE Return(k)
  <2>1. call[k].at = "running" /\ ~call[k].busy /\ leads' = leads /\ session' = session
    BY <1>11 DEF Return, Thinking
  <2>t. \/ call'[k].at = "closing" /\ call[k].tool # "lead"
        \/ /\ call'[k].at = "closing" /\ call'[k].ok
           /\ call[k].done = LeadStatements
        \/ /\ call'[k].at = "closing" /\ call'[k].ok = call[k].ok
           /\ call[k].tool = "lead" /\ ~call[k].passed
    <3>1. CASE call[k].tool = "lookup"
      BY <1>1, <1>11, <3>1 DEF Return, CallState
    <3>2. CASE call[k].tool = "lead" /\ call[k].done = LeadStatements
      <4>1. CASE call' = [call EXCEPT ![k].at = "closing", ![k].ok = TRUE]
        BY <1>1, <3>2, <4>1 DEF CallState
      <4>2. CASE call' = [call EXCEPT ![k].at = "closing"] /\ ~call[k].passed
        BY <1>1, <3>2, <4>2 DEF CallState
      <4> QED
        BY <1>11, <3>2, <4>1, <4>2 DEF Return
    <3>3. CASE call[k].tool # "lookup" /\ ~(call[k].tool = "lead" /\ call[k].done = LeadStatements)
      <4>1. /\ call' = [call EXCEPT ![k].at = "closing"]
            /\ call[k].tool = "lead" /\ ~call[k].passed
        BY <1>11, <3>3 DEF Return
      <4> QED
        BY <1>1, <4>1 DEF CallState
    <3> QED
      BY <3>1, <3>2, <3>3
  <2>2. call'[k].at = "closing"
    BY <2>t
  <2>3. call[k].tool = "lead" => (call'[k].ok <=> call[k].done = LeadStatements)
    BY <1>4, <2>1, <2>t DEF Ledger
  <2>4. Ledger(k)'
    BY <1>2, <1>4, <2>1, <2>2, <2>3 DEF Ledger
  <2> QED
    BY <1>g, <2>1, <2>4
<1>12. CASE Raise(k) \/ StatementFails(k)
  BY <1>r, <1>12 DEF Raise, StatementFails, Thinking
<1>13. CASE InnerTimeout(k)
  BY <1>r, <1>l, <1>13 DEF InnerTimeout
<1>14. CASE Clear(k)
  <2>1. call[k].ok \in BOOLEAN /\ call[k].at = "closing"
    BY <1>1, <1>14 DEF Clear, CallState
  <2>2. Ledger(k)'
    BY <1>a, <1>2, <1>4, <1>14, <2>1 DEF Clear, Ledger
  <2> QED
    BY <1>g, <1>14, <2>2 DEF Clear
<1>15. CASE OuterTimeout(k)
  <2>1. CASE call[k].at = "queued" /\ Answer(k, FALSE) /\ leads' = leads /\ session' = session
    <3>1. Ledger(k)'
      BY <1>a, <1>2, <1>4, <2>1 DEF Ledger
    <3> QED
      BY <1>g, <2>1, <3>1
  <2>2. CASE Lose(k)
    BY <1>l, <2>2
  <2>3. CASE /\ Thinking(k) /\ Answer(k, FALSE) /\ session' = session
             /\ leads' = leads \ Since(k)
    <3>1. leads' = leads \ {call[k].id}
      BY <2>3, SinceOwn DEF Solo, Thinking, InUse
    <3>2. Ledger(k)'
      BY <1>a, <1>2, <2>3, <3>1 DEF Ledger
    <3> QED
      BY <1>g, <2>3, <3>1, <3>2
  <2> QED
    BY <1>15, <2>1, <2>2, <2>3 DEF OuterTimeout
<1> QED
  BY <1>6, <1>7, <1>8, <1>9, <1>10, <1>11, <1>12, <1>13, <1>14, <1>15 DEF Use

LEMMA LoopLedgers ==
    ASSUME TypeOK, Idle, Known, Distinct, Ledgers,
           ModelTalks \/ ModelCalls \/ ModelFails \/ Collect
    PROVE  Ledgers' /\ Distinct' /\ Known'
<1>1. CASE ModelTalks \/ ModelFails
  BY <1>1 DEF ModelTalks, ModelFails, Ledgers, Ledger, Distinct, Known, Calls
<1>2. CASE ModelCalls
  <2>1. PICK reply \in Reply :
          /\ seen' = seen \union {reply[k].id : k \in Unique(reply)}
          /\ call' = Dispatched(reply, Unique(reply))
    BY <1>2 DEF ModelCalls
  <2>2. Unique(reply) \subseteq DOMAIN reply /\ leads' = leads
    BY <1>2 DEF Unique, ModelCalls
  <2>3. NoCall.at = "none"
    BY DEF NoCall
  <2>4. \A k \in Place \ Unique(reply) : call'[k] = NoCall
    BY <2>1, <2>2, DispatchedTyped
  <2>5. \A k \in Unique(reply) :
          /\ call'[k].id = reply[k].id /\ call'[k].tool = reply[k].tool
          /\ call'[k].at \in {"queued", "answered"}
          /\ call'[k].at = "answered" => reply[k].tool = "none"
          /\ ~call'[k].ok /\ ~call'[k].busy /\ call'[k].done = 0 /\ ~call'[k].passed
    <3>1. \A k \in Unique(reply) :
            /\ Dispatched(reply, Unique(reply))[k].done = 0
            /\ ~Dispatched(reply, Unique(reply))[k].passed
      BY <2>2, ReplyPlaces DEF Dispatched, NoCall
    <3> QED
      BY <2>1, <2>2, <3>1, DispatchedTyped
  <2>6. Calls' = Unique(reply)
    BY <2>2, <2>3, <2>4, <2>5, ReplyPlaces DEF Calls
  <2>7. \A k \in Unique(reply) : reply[k].id \notin seen
    BY DEF Unique
  <2>8. Known'
    BY <2>1, <2>2, <2>5, <2>6 DEF Known
  <2>9. Distinct'
    <3> SUFFICES ASSUME NEW j \in Unique(reply), NEW k \in Unique(reply),
                        reply[j].id = reply[k].id
                 PROVE  j = k
      BY <2>5, <2>6 DEF Distinct
    <3>1. j \in 1..Width /\ k \in 1..Width
      BY <2>2, ReplyPlaces
    <3>2. ~(j < k) /\ ~(k < j)
      BY DEF Unique
    <3> QED
      BY <3>1, <3>2, SizesAssumption
  <2>10. ASSUME NEW k \in Place PROVE Ledger(k)'
    <3>1. CASE k \in Unique(reply)
      <4>1. reply[k].id \notin leads'
        BY <2>2, <2>7, <3>1 DEF Known
      <4> QED
        BY <2>5, <3>1, <4>1 DEF Ledger
    <3>2. CASE k \notin Unique(reply)
      BY <2>3, <2>4, <3>2 DEF Ledger
    <3> QED
      BY <3>1, <3>2
  <2> QED
    BY <2>8, <2>9, <2>10 DEF Ledgers
<1>3. CASE Collect
  <2>1. call' = [k \in Place |-> NoCall] /\ leads' = leads /\ seen' = seen
    BY <1>3 DEF Collect
  <2>2. \A k \in Place : call'[k].at = "none"
    BY <2>1 DEF NoCall
  <2> QED
    BY <2>1, <2>2 DEF Ledgers, Ledger, Distinct, Known, Calls
<1> QED
  BY <1>1, <1>2, <1>3

LEMMA TickLedgers ==
    ASSUME TypeOK, Ledgers, Distinct, Known, Tick
    PROVE  Ledgers' /\ Distinct' /\ Known'
<1>1. /\ \A k \in Place :
           /\ call'[k].at = call[k].at /\ call'[k].id = call[k].id
           /\ call'[k].tool = call[k].tool /\ call'[k].busy = call[k].busy
           /\ call'[k].done = call[k].done /\ call'[k].passed = call[k].passed
           /\ call'[k].ok = call[k].ok
      /\ UNCHANGED <<seen, session, leads>>
  BY TickKeeps
<1>2. ASSUME NEW k \in Place PROVE Ledger(k)'
  BY <1>1 DEF Ledgers, Ledger
<1> QED
  BY <1>1, <1>2 DEF Ledgers, Distinct, Known, Calls

\* A lead that was reported as recorded is in the turn's transaction and one
\* that was reported as failed is not, whatever clocks fired and whatever the
\* calls beside it did, as long as the session is usable.
THEOREM LoopAnswersTruly == Spec => []AnswersAreTrue
<1>1. Init => Ledgers /\ Distinct /\ Known
  BY DEF Init, Ledgers, Ledger, Distinct, Known, Calls, NoCall
<1>2. Init => Solo
  BY DEF Init, Solo, OneAtATime, BudgetIsTheCalls, InUse, NoCall
<1>3. /\ TypeOK /\ Idle /\ Solo /\ Ledgers /\ Distinct /\ Known /\ [Next]_vars
      => (Solo /\ Ledgers /\ Distinct /\ Known)'
  <2> SUFFICES ASSUME TypeOK, Idle, Solo, Ledgers, Distinct, Known, [Next]_vars
               PROVE  Solo' /\ Ledgers' /\ Distinct' /\ Known'
    OBVIOUS
  <2>1. CASE ModelTalks \/ ModelCalls \/ ModelFails \/ Collect
    BY <2>1, LoopSolo, LoopLedgers
  <2>2. CASE Tick
    <3>1. Solo'
      BY <2>2, TickKeeps DEF Solo, OneAtATime, BudgetIsTheCalls, InUse
    <3> QED
      BY <2>2, <3>1, TickLedgers
  <2>3. CASE \E k \in Place : Use(k)
    BY <2>3, UseSolo, UseLedgers
  <2>4. CASE UNCHANGED vars
    BY <2>4 DEF vars, Solo, OneAtATime, BudgetIsTheCalls, InUse, Ledgers, Ledger,
                Distinct, Known, Calls
  <2> QED
    BY <2>1, <2>2, <2>3, <2>4 DEF Next
<1>4. Ledgers => AnswersAreTrue
  BY DEF Ledgers, Ledger, AnswersAreTrue
<1> QED
  BY <1>1, <1>2, <1>3, <1>4, LoopTypes, PTL DEF Spec

-----------------------------------------------------------------------------
(* The messages of the turn *)

\* The ids of the turn so far, and the round that is still open.
Recorded ==
    /\ \A n \in DOMAIN history :
         history[n].role = "assistant" =>
           \A k \in DOMAIN history[n].ids : history[n].ids[k] \in seen
    /\ pc = "calling" =>
         Len(history) > 0 /\ history[Len(history)] = [role |-> "assistant", ids |-> Asked]

Paired == PairsUp /\ Recorded

\* The pairing only depends on the calls' ids.
LEMMA SamePaired ==
    ASSUME Paired, pc' = pc, history' = history, seen' = seen, Asked' = Asked
    PROVE  Paired'
BY DEF Paired, PairsUp, Recorded

LEMMA SameAsked ==
    ASSUME \A k \in Place : (call'[k].at = "none" <=> call[k].at = "none")
                             /\ (call[k].at # "none" => call'[k].id = call[k].id)
    PROVE  Asked' = Asked
<1>1. Calls' = Calls
  BY DEF Calls
<1>2. \A k \in Calls : call'[k].id = call[k].id
  BY DEF Calls
<1> QED
  BY <1>1, <1>2 DEF Asked

\* A message after a history whose round is closed.
LEMMA AppendPaired ==
    ASSUME TypeOK, Paired, pc # "calling", NEW m \in Message,
           history' = Append(history, m), m.role = "assistant",
           seen \subseteq seen',
           \A k \in DOMAIN m.ids : m.ids[k] \in seen' /\ m.ids[k] \notin seen,
           \A k, l \in DOMAIN m.ids : m.ids[k] = m.ids[l] => k = l,
           \/ DOMAIN m.ids = {} /\ pc' # "calling"
           \/ pc' = "calling" /\ m = [role |-> "assistant", ids |-> Asked']
    PROVE  Paired'
<1>0. history \in Seq(Message)
  BY DEF TypeOK
<1>1. /\ Len(history) \in Nat /\ Len(history') = Len(history) + 1
      /\ DOMAIN history = 1..Len(history) /\ DOMAIN history' = 1..(Len(history) + 1)
      /\ history'[Len(history) + 1] = m
      /\ \A n \in 1..Len(history) : history'[n] = history[n]
  BY <1>0
<1>2. \A n \in 1..Len(history) :
        history[n].role = "assistant" /\ DOMAIN history[n].ids # {} =>
          /\ n # Len(history)
          /\ history[n + 1] = [role |-> "user", ids |-> history[n].ids]
  BY <1>1 DEF Paired, PairsUp
<1>3. \A n \in DOMAIN history' :
        history'[n].role = "assistant" /\ DOMAIN history'[n].ids # {} =>
          IF n = Len(history')
          THEN pc' = "calling" /\ history'[n].ids = Asked'
          ELSE history'[n + 1] = [role |-> "user", ids |-> history'[n].ids]
  <2> SUFFICES ASSUME NEW n \in DOMAIN history',
                      history'[n].role = "assistant", DOMAIN history'[n].ids # {}
               PROVE  IF n = Len(history')
                      THEN pc' = "calling" /\ history'[n].ids = Asked'
                      ELSE history'[n + 1] = [role |-> "user", ids |-> history'[n].ids]
    OBVIOUS
  <2>1. CASE n = Len(history) + 1
    BY <1>1, <2>1
  <2>2. CASE n \in 1..Len(history)
    <3>1. history'[n] = history[n]
      BY <1>1, <2>2
    <3>2. /\ n # Len(history)
          /\ history[n + 1] = [role |-> "user", ids |-> history[n].ids]
      BY <1>2, <2>2, <3>1
    <3>3. n + 1 \in 1..Len(history) /\ n # Len(history')
      BY <1>1, <2>2, <3>2
    <3>4. history'[n + 1] = history[n + 1]
      BY <1>1, <3>3
    <3> QED
      BY <3>1, <3>2, <3>3, <3>4
  <2> QED
    BY <1>1, <2>1, <2>2
<1>4. \A n \in DOMAIN history' :
        history'[n].role = "assistant" =>
          \A k \in DOMAIN history'[n].ids : history'[n].ids[k] \in seen'
  BY <1>1 DEF Paired, Recorded
<1>5. \A n, l \in DOMAIN history' :
        history'[n].role = "assistant" /\ history'[l].role = "assistant" =>
          \A j \in DOMAIN history'[n].ids, k \in DOMAIN history'[l].ids :
            history'[n].ids[j] = history'[l].ids[k] => n = l /\ j = k
  <2> SUFFICES ASSUME NEW n \in DOMAIN history', NEW l \in DOMAIN history',
                      history'[n].role = "assistant", history'[l].role = "assistant",
                      NEW j \in DOMAIN history'[n].ids, NEW k \in DOMAIN history'[l].ids,
                      history'[n].ids[j] = history'[l].ids[k]
               PROVE  n = l /\ j = k
    OBVIOUS
  <2>1. CASE n \in 1..Len(history) /\ l \in 1..Len(history)
    BY <1>1, <2>1 DEF Paired, PairsUp
  <2>2. CASE n = Len(history) + 1 /\ l = Len(history) + 1
    BY <1>1, <2>2
  <2>3. CASE n = Len(history) + 1 /\ l \in 1..Len(history)
    BY <1>1, <2>3 DEF Paired, Recorded
  <2>4. CASE l = Len(history) + 1 /\ n \in 1..Len(history)
    BY <1>1, <2>4 DEF Paired, Recorded
  <2> QED
    BY <1>1, <2>1, <2>2, <2>3, <2>4
<1>6. pc' = "calling" =>
        Len(history') > 0 /\ history'[Len(history')] = [role |-> "assistant", ids |-> Asked']
  BY <1>1
<1> QED
  BY <1>3, <1>4, <1>5, <1>6 DEF Paired, PairsUp, Recorded

\* The message that answers the open round.
LEMMA CollectPaired ==
    ASSUME TypeOK, Paired, Collect
    PROVE  Paired'
<1>0. history \in Seq(Message) /\ pc = "calling" /\ pc' # "calling" /\ seen' = seen
  BY DEF TypeOK, Collect
<1> DEFINE m == [role |-> "user", ids |-> Asked]
<1>1. /\ Len(history) \in Nat /\ Len(history') = Len(history) + 1
      /\ DOMAIN history = 1..Len(history) /\ DOMAIN history' = 1..(Len(history) + 1)
      /\ history'[Len(history) + 1] = m
      /\ \A n \in 1..Len(history) : history'[n] = history[n]
  BY <1>0 DEF Collect
<1>2. Len(history) > 0 /\ history[Len(history)] = [role |-> "assistant", ids |-> Asked]
  BY <1>0 DEF Paired, Recorded
<1>3. ASSUME NEW n \in DOMAIN history',
             history'[n].role = "assistant", DOMAIN history'[n].ids # {}
      PROVE  /\ n # Len(history')
             /\ history'[n + 1] = [role |-> "user", ids |-> history'[n].ids]
  <2>1. n \in 1..Len(history)
    BY <1>1, <1>3
  <2>a. history'[n] = history[n] /\ n # Len(history')
    BY <1>1, <2>1
  <2>2. CASE n = Len(history)
    <3>1. history'[n].ids = Asked
      BY <1>2, <2>2, <2>a
    <3>2. history'[n + 1] = [role |-> "user", ids |-> Asked]
      BY <1>1, <2>2
    <3> QED
      BY <2>a, <3>1, <3>2
  <2>3. CASE n # Len(history)
    <3>1. history[n + 1] = [role |-> "user", ids |-> history[n].ids]
      BY <1>1, <1>3, <2>1, <2>a, <2>3 DEF Paired, PairsUp
    <3>2. n + 1 \in 1..Len(history)
      BY <1>1, <2>1, <2>3
    <3>3. history'[n + 1] = history[n + 1]
      BY <1>1, <3>2
    <3> QED
      BY <2>a, <3>1, <3>3
  <2> QED
    BY <2>2, <2>3
<1>4. \A n \in DOMAIN history' :
        history'[n].role = "assistant" => n \in DOMAIN history /\ history'[n] = history[n]
  BY <1>1
<1>5. \A n, l \in DOMAIN history' :
        history'[n].role = "assistant" /\ history'[l].role = "assistant" =>
          \A j \in DOMAIN history'[n].ids, k \in DOMAIN history'[l].ids :
            history'[n].ids[j] = history'[l].ids[k] => n = l /\ j = k
  <2> SUFFICES ASSUME NEW n \in DOMAIN history', NEW l \in DOMAIN history',
                      history'[n].role = "assistant", history'[l].role = "assistant",
                      NEW j \in DOMAIN history'[n].ids, NEW k \in DOMAIN history'[l].ids,
                      history'[n].ids[j] = history'[l].ids[k]
               PROVE  n = l /\ j = k
    OBVIOUS
  <2>1. /\ n \in DOMAIN history /\ history'[n] = history[n]
        /\ l \in DOMAIN history /\ history'[l] = history[l]
    BY <1>4
  <2> QED
    BY <2>1 DEF Paired, PairsUp
<1>6. \A n \in DOMAIN history' :
        history'[n].role = "assistant" =>
          \A k \in DOMAIN history'[n].ids : history'[n].ids[k] \in seen'
  BY <1>0, <1>4 DEF Paired, Recorded
<1>7. \A n \in DOMAIN history' :
        history'[n].role = "assistant" /\ DOMAIN history'[n].ids # {} =>
          IF n = Len(history')
          THEN pc' = "calling" /\ history'[n].ids = Asked'
          ELSE history'[n + 1] = [role |-> "user", ids |-> history'[n].ids]
  BY <1>3
<1> QED
  BY <1>0, <1>5, <1>6, <1>7 DEF Paired, PairsUp, Recorded

LEMMA CallsPaired ==
    ASSUME TypeOK, Paired, ModelCalls
    PROVE  Paired'
<1>1. PICK reply \in Reply :
        /\ seen' = seen \union {reply[k].id : k \in Unique(reply)}
        /\ history' = Append(history,
                       [role |-> "assistant", ids |-> Ids(reply, Unique(reply))])
        /\ call' = Dispatched(reply, Unique(reply))
  BY DEF ModelCalls
<1>2. Unique(reply) \subseteq DOMAIN reply /\ Unique(reply) \subseteq Place
  BY ReplyPlaces DEF Unique
<1>3. NoCall.at = "none"
  BY DEF NoCall
<1>4. Calls' = Unique(reply)
  BY <1>1, <1>2, <1>3, DispatchedTyped DEF Calls
<1>5. Asked' = Ids(reply, Unique(reply))
  BY <1>1, <1>2, <1>4, DispatchedTyped DEF Asked, Ids
<1> DEFINE m == [role |-> "assistant", ids |-> Ids(reply, Unique(reply))]
<1>6. m \in Message
  <2>1. Ids(reply, Unique(reply)) \in [Unique(reply) -> Id]
    BY <1>2, ReplyPlaces DEF Ids
  <2> QED
    BY <1>2, <2>1, MessageTyped
<1>7. \A k \in Unique(reply) : m.ids[k] = reply[k].id /\ reply[k].id \notin seen
  BY DEF Ids, Unique
<1>8. DOMAIN m.ids = Unique(reply)
  BY DEF Ids
<1>9. \A k, l \in DOMAIN m.ids : m.ids[k] = m.ids[l] => k = l
  <2> SUFFICES ASSUME NEW j \in Unique(reply), NEW k \in Unique(reply),
                      reply[j].id = reply[k].id
               PROVE  j = k
    BY <1>7, <1>8
  <2>1. j \in 1..Width /\ k \in 1..Width
    BY <1>2
  <2>2. ~(j < k) /\ ~(k < j)
    BY DEF Unique
  <2> QED
    BY <2>1, <2>2, SizesAssumption
<1>10. \A k \in DOMAIN m.ids : m.ids[k] \in seen' /\ m.ids[k] \notin seen
  BY <1>1, <1>7, <1>8
<1>11. pc # "calling" /\ pc' = "calling" /\ seen \subseteq seen'
  BY <1>1 DEF ModelCalls
<1>12. m.role = "assistant" /\ m = [role |-> "assistant", ids |-> Asked'] /\ history' = Append(history, m)
  BY <1>1, <1>5
<1> HIDE DEF m
<1> QED
  BY <1>6, <1>9, <1>10, <1>11, <1>12, AppendPaired

LEMMA TalksPaired ==
    ASSUME TypeOK, Paired, ModelTalks
    PROVE  Paired'
<1>1. PICK reply \in Reply, text \in BOOLEAN :
        history' = IF text
                   THEN Append(history, [role |-> "assistant", ids |-> Ids(reply, {})])
                   ELSE history
  BY DEF ModelTalks
<1>2. pc = "asking" /\ pc' = "finished" /\ seen' = seen
  BY DEF ModelTalks
<1>3. CASE history' = history
  BY <1>2, <1>3 DEF Paired, PairsUp, Recorded
<1>4. CASE history' = Append(history, [role |-> "assistant", ids |-> Ids(reply, {})])
  <2> DEFINE m == [role |-> "assistant", ids |-> Ids(reply, {})]
  <2>1. m \in Message
    <3>1. Ids(reply, {}) \in [{} -> Id]
      BY DEF Ids
    <3> QED
      BY <3>1, MessageTyped
  <2>2. DOMAIN m.ids = {} /\ m.role = "assistant" /\ history' = Append(history, m)
    BY <1>4 DEF Ids
  <2> HIDE DEF m
  <2> QED
    BY <1>2, <2>1, <2>2, AppendPaired
<1> QED
  BY <1>1, <1>3, <1>4

\* Every tool_use in the history is answered by the next message, at its place
\* and once, and its id is used once in the turn, for any width, any number of
\* steps and any ids a provider repeats.
THEOREM LoopPairsUp == Spec => []PairsUp
<1>1. Init => Paired
  BY DEF Init, Paired, PairsUp, Recorded
<1>2. TypeOK /\ Idle /\ Paired /\ [Next]_vars => Paired'
  <2> SUFFICES ASSUME TypeOK, Paired, [Next]_vars PROVE Paired'
    OBVIOUS
  <2>1. CASE ModelTalks \/ ModelCalls \/ Collect
    BY <2>1, TalksPaired, CallsPaired, CollectPaired
  <2>2. CASE ModelFails
    <3>1. pc = "asking" /\ pc' = "failed" /\ history' = history /\ seen' = seen
      BY <2>2 DEF ModelFails
    <3> QED
      BY <3>1 DEF Paired, PairsUp, Recorded
  <2>3. CASE Tick
    <3>1. Asked' = Asked
      BY <2>3, TickKeeps, SameAsked
    <3> QED
      BY <2>3, <3>1, TickKeeps, SamePaired
  <2>4. CASE \E k \in Place : Use(k)
    <3>1. PICK k \in Place : Use(k)
      BY <2>4
    <3>2. Asked' = Asked
      BY <3>1, UseKeeps, SameAsked
    <3> QED
      BY <3>1, <3>2, UseFrame, SamePaired
  <2>5. CASE UNCHANGED vars
    <3>1. Asked' = Asked
      BY <2>5, SameAsked DEF vars
    <3> QED
      BY <2>5, <3>1, SamePaired DEF vars
  <2> QED
    BY <2>1, <2>2, <2>3, <2>4, <2>5 DEF Next
<1>3. Paired => PairsUp
  BY DEF Paired
<1> QED
  BY <1>1, <1>2, <1>3, LoopTypes, PTL DEF Spec
=============================================================================
