-------------------------- MODULE FrontDoorProofs --------------------------
(***************************************************************************)
(* What a caller may rely on at the front door, for any browsers, tabs,    *)
(* agents, tokens, limits, windows and length of time.                     *)
(***************************************************************************)
EXTENDS FrontDoor, FiniteSetTheorems, TLAPS

-----------------------------------------------------------------------------
(* The clock and its days. *)

DayStart(d) == DayLength * d

LEMMA Days ==
    ASSUME NEW n \in Nat
    PROVE  /\ n \div DayLength \in Nat
           /\ DayStart(n \div DayLength) \in Nat
           /\ DayStart(n \div DayLength) <= n
           /\ n < DayStart(n \div DayLength) + DayLength
<1> DEFINE d == n \div DayLength
<1>0. DayLength \in Nat \ {0}
  BY WidgetAssumption
<1>1. d \in Nat
  BY <1>0
<1>2. n = DayLength * d + (n % DayLength) /\ n % DayLength \in 0 .. DayLength - 1
  BY <1>0
<1>3. DayLength * d \in Nat
  BY <1>0, <1>1
<1> QED BY <1>0, <1>1, <1>2, <1>3 DEF DayStart

LEMMA DayStartTyped == ASSUME NEW d \in Nat PROVE DayStart(d) \in Nat
BY WidgetAssumption DEF DayStart

-----------------------------------------------------------------------------
(* The counters.  Every call that is counted is one of these. *)

(* A key and the limit a caller gives with it. *)
Countable(key, limit) ==
    \/ key[1] \in DOMAIN Limit /\ limit = Limit[key[1]]
    \/ /\ key[1] = "day" /\ limit \in Caps
       /\ key[3] \in Nat /\ DayStart(key[3]) <= now

(* A call of a kind with a fixed limit. *)
CountsFixed == \E key : key[1] \in DOMAIN Limit /\ (Allows(key, Limit[key[1]])
                                                   \/ Refuses(key, Limit[key[1]]))

Counts == \E key, limit : Countable(key, limit) /\ (Allows(key, limit) \/ Refuses(key, limit))

CounterTyped ==
    \A key \in DOMAIN counter :
        /\ key[1] \in Kind
        /\ key[1] = "day" => key[3] \in Nat
        /\ counter[key] \in [count : 1 .. MaxCount, until : Nat]
        /\ now + 1 <= counter[key].until /\ counter[key].until <= now + Window[key[1]]

AdmittedTyped ==
    \A x \in DOMAIN admitted :
        /\ x = <<x[1], x[2]>>
        /\ x[1][1] \in DOMAIN Limit
        /\ x[2] \in 0 .. now
        /\ admitted[x] \in Nat \ {0}

LimiterTyped ==
    /\ now \in 0 .. MaxTime /\ faults \in 0 .. MaxFaults
    /\ CounterTyped /\ AdmittedTyped

LEMMA Sizes ==
    /\ MaxTime \in Nat /\ MaxFaults \in Nat /\ MaxCount \in Nat
    /\ \A k \in Kind : Window[k] \in Nat \ {0}
    /\ \A k \in DOMAIN Limit : k \in Kind /\ Limit[k] \in Nat \ {0} /\ Limit[k] < MaxCount
    /\ \A cap \in Caps : cap \in Nat \ {0} /\ cap < MaxCount
    /\ "day" \in Kind /\ "day" \notin DOMAIN Limit /\ Window["day"] = DayLength
BY LimiterAssumption, WidgetAssumption

LEMMA CountableTyped ==
    ASSUME NEW key, NEW limit, Countable(key, limit)
    PROVE  /\ key[1] \in Kind /\ (key[1] = "day" => key[3] \in Nat)
           /\ limit \in Nat \ {0} /\ limit < MaxCount
           /\ Window[key[1]] \in Nat \ {0}
BY Sizes DEF Countable

(* What one INCR makes of the counters. *)
LEMMA Incremented ==
    ASSUME LimiterTyped, NEW key, NEW limit, Countable(key, limit), Incr(key)
    PROVE  /\ DOMAIN counter' = DOMAIN counter \cup {key}
           /\ \A k \in DOMAIN counter \ {key} : counter'[k] = counter[k]
           /\ Count(key) \in 0 .. MaxCount
           /\ counter'[key].count \in 1 .. MaxCount
           /\ Count(key) < MaxCount => counter'[key].count = Count(key) + 1
           /\ Count(key) <= counter'[key].count
           /\ counter'[key] \in [count : 1 .. MaxCount, until : Nat]
           /\ counter'[key].until = Until(key)
           /\ Until(key) \in Nat /\ now + 1 <= Until(key) /\ Until(key) <= now + Window[key[1]]
<1>0. key[1] \in Kind /\ Window[key[1]] \in Nat \ {0} /\ MaxCount \in Nat \ {0}
  BY CountableTyped, Sizes
<1>1. now \in Nat
  BY Sizes DEF LimiterTyped
<1>2. key \in DOMAIN counter =>
          /\ counter[key].count \in 1 .. MaxCount /\ counter[key].until \in Nat
          /\ now + 1 <= counter[key].until /\ counter[key].until <= now + Window[key[1]]
  BY DEF LimiterTyped, CounterTyped
<1>3. Count(key) \in 0 .. MaxCount
  BY <1>0, <1>2 DEF Count
<1>4. Until(key) \in Nat /\ now + 1 <= Until(key) /\ Until(key) <= now + Window[key[1]]
  BY <1>0, <1>1, <1>2 DEF Until
<1> DEFINE c == IF Count(key) < MaxCount THEN Count(key) + 1 ELSE MaxCount
<1>5. c \in 1 .. MaxCount /\ Count(key) <= c /\ (Count(key) < MaxCount => c = Count(key) + 1)
  BY <1>0, <1>3
<1>6. counter' = [x \in DOMAIN counter \cup {key} |->
                    IF x = key THEN [count |-> c, until |-> Until(key)] ELSE counter[x]]
  BY DEF Incr, With
<1> HIDE DEF c
<1> QED BY <1>3, <1>4, <1>5, <1>6

LEMMA IncrTyped ==
    ASSUME LimiterTyped, NEW key, NEW limit, Countable(key, limit), Incr(key), UNCHANGED now
    PROVE  CounterTyped'
<1>1. key[1] \in Kind /\ (key[1] = "day" => key[3] \in Nat)
  BY CountableTyped
<1> SUFFICES ASSUME NEW k \in DOMAIN counter'
             PROVE  /\ k[1] \in Kind
                    /\ k[1] = "day" => k[3] \in Nat
                    /\ counter'[k] \in [count : 1 .. MaxCount, until : Nat]
                    /\ now + 1 <= counter'[k].until
                    /\ counter'[k].until <= now + Window[k[1]]
  BY DEF CounterTyped
<1>2. CASE k = key
  BY <1>1, <1>2, Incremented
<1>3. CASE k # key
  <2>0. /\ DOMAIN counter' = DOMAIN counter \cup {key}
        /\ \A i \in DOMAIN counter \ {key} : counter'[i] = counter[i]
    BY Incremented
  <2>1. k \in DOMAIN counter /\ counter'[k] = counter[k]
    BY <1>3, <2>0
  <2> QED BY <2>1 DEF LimiterTyped, CounterTyped
<1> QED BY <1>2, <1>3

LEMMA Recorded ==
    ASSUME LimiterTyped, NEW key, key[1] \in DOMAIN Limit, Admits(key)
    PROVE  /\ DOMAIN admitted' = DOMAIN admitted \cup {<<key, now>>}
           /\ \A x \in DOMAIN admitted \ {<<key, now>>} : admitted'[x] = admitted[x]
           /\ Admitted(key, now) \in Nat
           /\ admitted'[<<key, now>>] = Admitted(key, now) + 1
BY DEF Admits, With, Admitted, LimiterTyped, AdmittedTyped

LEMMA CountsTyped ==
    ASSUME LimiterTyped, NEW key, NEW limit, Countable(key, limit),
           Allows(key, limit) \/ Refuses(key, limit)
    PROVE  LimiterTyped'
<1>1. key[1] \in Kind /\ (key[1] = "day" => key[3] \in Nat)
  BY CountableTyped
<1>2. now' = now /\ now \in 0 .. MaxTime /\ faults' \in 0 .. MaxFaults
  BY Sizes DEF LimiterTyped, Allows, Refuses
<1>3. CounterTyped'
  <2>1. CASE Incr(key)
    BY <1>2, <2>1, IncrTyped
  <2>2. CASE UNCHANGED counter
    BY <1>2, <2>2 DEF LimiterTyped, CounterTyped
  <2> QED BY <2>1, <2>2 DEF Allows, Refuses
<1>4. AdmittedTyped'
  <2>1. CASE UNCHANGED admitted
    BY <1>2, <2>1 DEF LimiterTyped, AdmittedTyped
  <2>2. CASE key[1] \in DOMAIN Limit /\ Admits(key)
    <3>1. now \in 0 .. now
      BY <1>2, Sizes
    <3>2. ASSUME NEW x \in DOMAIN admitted'
          PROVE  /\ x = <<x[1], x[2]>>
                 /\ x[1][1] \in DOMAIN Limit
                 /\ x[2] \in 0 .. now
                 /\ admitted'[x] \in Nat \ {0}
      <4>1. CASE x = <<key, now>>
        <5>1. x[1] = key /\ x[2] = now
          BY <4>1
        <5>2. admitted'[<<key, now>>] = Admitted(key, now) + 1 /\ Admitted(key, now) \in Nat
          BY <2>2, Recorded
        <5> QED BY <2>2, <3>1, <4>1, <5>1, <5>2
      <4>2. CASE x # <<key, now>>
        BY <2>2, <3>2, <4>2, Recorded DEF LimiterTyped, AdmittedTyped
      <4> QED BY <4>1, <4>2
    <3> QED BY <1>2, <3>2 DEF AdmittedTyped
  <2> QED BY <2>1, <2>2 DEF Allows, Refuses, Admits
<1> QED BY <1>2, <1>3, <1>4 DEF LimiterTyped

LEMMA TickTyped == ASSUME LimiterTyped, Tick PROVE LimiterTyped'
<1>1. now' = now + 1 /\ now \in Nat /\ now' \in 0 .. MaxTime /\ faults' \in 0 .. MaxFaults
  BY Sizes DEF LimiterTyped, Tick
<1>2. CounterTyped'
  <2> SUFFICES ASSUME NEW k \in DOMAIN counter'
               PROVE  /\ k[1] \in Kind
                      /\ k[1] = "day" => k[3] \in Nat
                      /\ counter'[k] \in [count : 1 .. MaxCount, until : Nat]
                      /\ now' + 1 <= counter'[k].until
                      /\ counter'[k].until <= now' + Window[k[1]]
    BY DEF CounterTyped
  <2>1. k \in DOMAIN counter /\ counter[k].until > now' /\ counter'[k] = counter[k]
    BY DEF Tick
  <2>2. /\ k[1] \in Kind /\ (k[1] = "day" => k[3] \in Nat)
        /\ counter[k] \in [count : 1 .. MaxCount, until : Nat]
        /\ counter[k].until <= now + Window[k[1]] /\ Window[k[1]] \in Nat
    BY <2>1, Sizes DEF LimiterTyped, CounterTyped
  <2> QED BY <1>1, <2>1, <2>2
<1>3. AdmittedTyped'
  <2>1. \A x \in DOMAIN admitted' : x \in DOMAIN admitted /\ admitted'[x] = admitted[x]
    BY DEF Tick
  <2> QED BY <1>1, <2>1 DEF LimiterTyped, AdmittedTyped
<1> QED BY <1>1, <1>2, <1>3 DEF LimiterTyped

-----------------------------------------------------------------------------
(* The widget's state. *)

DailyTyped ==
    \A key \in DOMAIN daily :
        /\ key[1] = "day" /\ key[3] \in Nat
        /\ daily[key] \in [through : Nat, lives : Nat, cap : Caps]

WidgetTyped ==
    /\ widget \in [Agent -> [open : BOOLEAN, cap : Caps]]
    /\ token \in [Browser -> Token \cup {None}]
    /\ minted \subseteq Visitor
    /\ conversation \in [Conversation -> Stored \cup {None}]
    /\ call \in [Browser -> Waiting]
    /\ sessions \in [Browser -> Int] /\ orphaned \in [Browser -> 0 .. MaxOrphans]
    /\ DailyTyped

(* What a call carries at each step. *)
CallTyped(b) ==
    /\ call[b].step \in {"idle", "mint"} => call[b].visitor = None /\ call[b].conv = None
    /\ call[b].step \notin {"idle", "mint"} => call[b].visitor \in Visitor
    /\ call[b].step # "idle" => call[b].agent \in Agent
    /\ call[b].step \in {"handed", "stream"} => call[b].conv \in Conversation
    /\ call[b].step = "cap" => call[b].cap \in Caps
    /\ DayStart(call[b].day) <= now

WInv == WidgetTyped /\ \A b \in Browser : CallTyped(b)

LEMMA NoCallTyped == NoCall \in Waiting
BY DEF NoCall, Waiting, CallStep

LEMMA CallGoesTyped ==
    ASSUME WInv, NEW b \in Browser, NEW c \in Waiting, call' = [call EXCEPT ![b] = c],
           UNCHANGED now,
           /\ c.step \in {"idle", "mint"} => c.visitor = None /\ c.conv = None
           /\ c.step \notin {"idle", "mint"} => c.visitor \in Visitor
           /\ c.step # "idle" => c.agent \in Agent
           /\ c.step \in {"handed", "stream"} => c.conv \in Conversation
           /\ c.step = "cap" => c.cap \in Caps
           /\ DayStart(c.day) <= now
    PROVE  /\ call' \in [Browser -> Waiting]
           /\ \A i \in Browser : CallTyped(i)'
<1>1. call \in [Browser -> Waiting] /\ \A i \in Browser : CallTyped(i)
  BY DEF WInv, WidgetTyped
<1>2. call' \in [Browser -> Waiting] /\ call'[b] = c /\ \A i \in Browser \ {b} : call'[i] = call[i]
  BY <1>1
<1>3. CallTyped(b)'
  BY <1>2 DEF CallTyped
<1>4. \A i \in Browser \ {b} : CallTyped(i)'
  BY <1>1, <1>2 DEF CallTyped
<1> QED BY <1>2, <1>3, <1>4

LEMMA OverTyped ==
    ASSUME WInv, NEW b \in Browser, call' = [call EXCEPT ![b] = NoCall], UNCHANGED now, now \in Nat
    PROVE  /\ call' \in [Browser -> Waiting]
           /\ \A i \in Browser : CallTyped(i)'
<1>1. DayStart(NoCall.day) <= now
  BY WidgetAssumption DEF NoCall, DayStart
<1>2. NoCall.step = "idle" /\ NoCall.visitor = None /\ NoCall.conv = None
  BY DEF NoCall
<1> QED BY <1>1, <1>2, NoCallTyped, CallGoesTyped

(* A call that only goes on to another step. *)
LEMMA StepTyped ==
    ASSUME WInv, NEW b \in Browser, NEW step \in {"ip", "load", "first", "handed", "stream"},
           Goes(b, step), UNCHANGED now,
           call[b].step \notin {"idle", "mint"},
           step \in {"handed", "stream"} => call[b].conv \in Conversation
    PROVE  /\ call' \in [Browser -> Waiting]
           /\ \A i \in Browser : CallTyped(i)'
<1> DEFINE c == [call[b] EXCEPT !.step = step]
<1>1. call[b] \in Waiting /\ CallTyped(b)
  BY DEF WInv, WidgetTyped
<1>2. c \in Waiting
  BY <1>1 DEF Waiting, CallStep
<1>3. call' = [call EXCEPT ![b] = c]
  BY DEF Goes
<1>4. /\ c.step = step /\ c.visitor = call[b].visitor /\ c.conv = call[b].conv
      /\ c.agent = call[b].agent /\ c.day = call[b].day
  BY <1>1 DEF Waiting
<1> HIDE DEF c
<1> QED BY <1>1, <1>2, <1>3, <1>4, CallGoesTyped DEF CallTyped

LEMMA AgentStepTyped ==
    ASSUME WInv, NEW a \in Agent, now \in Nat, UNCHANGED now,
           \/ \E open \in BOOLEAN, cap \in Caps : UpdateWidget(a, open, cap)
           \/ FramePolicy(a) \/ LauncherConfig(a)
           \/ \E b \in Browser : CreateSession(b, a)
    PROVE  WInv'
<1>1. ASSUME NEW open \in BOOLEAN, NEW cap \in Caps, UpdateWidget(a, open, cap) PROVE WInv'
  BY <1>1 DEF UpdateWidget, limiterVars, WInv, WidgetTyped, DailyTyped, CallTyped
<1>2. CASE FramePolicy(a) \/ LauncherConfig(a)
  BY <1>2 DEF FramePolicy, LauncherConfig, widgetVars, WInv, WidgetTyped, DailyTyped, CallTyped
<1>3. ASSUME NEW b \in Browser, CreateSession(b, a) PROVE WInv'
  <2>1. CASE Valid(b) /\ Give(b, a, token[b].visitor) /\ UNCHANGED call
    <3>1. token[b] \in Token
      BY <2>1 DEF Valid, WInv, WidgetTyped
    <3>2. [agent |-> a, visitor |-> token[b].visitor, until |-> now + TokenLife] \in Token
      BY <3>1, WidgetAssumption DEF Token
    <3>3. token' \in [Browser -> Token \cup {None}]
      BY <2>1, <3>2 DEF Give, WInv, WidgetTyped
    <3> QED BY <1>3, <2>1, <3>3 DEF CreateSession, WInv, WidgetTyped, DailyTyped, CallTyped
  <2>2. CASE /\ call' = [call EXCEPT ![b] = [NoCall EXCEPT !.step = "mint", !.agent = a]]
             /\ UNCHANGED token
    <3> DEFINE c == [NoCall EXCEPT !.step = "mint", !.agent = a]
    <3>1. c \in Waiting
      BY DEF NoCall, Waiting, CallStep
    <3>2. /\ c.step = "mint" /\ c.visitor = None /\ c.conv = None /\ c.agent = a /\ c.day = 0
          /\ DayStart(0) <= now
      BY WidgetAssumption DEF NoCall, DayStart
    <3> HIDE DEF c
    <3>3. call' \in [Browser -> Waiting] /\ \A i \in Browser : CallTyped(i)'
      <4>1. call' = [call EXCEPT ![b] = c]
        BY <2>2 DEF c
      <4> QED BY <3>1, <3>2, <4>1, CallGoesTyped
    <3> QED BY <1>3, <2>2, <3>3 DEF CreateSession, WInv, WidgetTyped, DailyTyped
  <2> QED BY <1>3, <2>1, <2>2 DEF CreateSession
<1> QED BY <1>1, <1>2, <1>3

LEMMA Minted ==
    ASSUME WidgetTyped, NEW b \in Browser, MintVisitor(b)
    PROVE  \/ UNCHANGED <<token, minted>>
           \/ \E v \in Visitor \ minted :
                /\ Give(b, call[b].agent, v)
                /\ minted' = minted \cup {v}
<1>1. CASE UNCHANGED <<token, minted>>
  BY <1>1
<1>2. CASE /\ Visitor # minted
           /\ LET v == CHOOSE v \in Visitor : v \notin minted IN
              Give(b, call[b].agent, v) /\ minted' = minted \cup {v}
  <2>1. \E v \in Visitor : v \notin minted
    BY <1>2 DEF WidgetTyped
  <2>2. (CHOOSE v \in Visitor : v \notin minted) \in Visitor \ minted
    BY <2>1
  <2> QED BY <1>2, <2>2
<1> QED BY <1>1, <1>2 DEF MintVisitor

(* What one message makes of its day's tally. *)
LEMMA Tallied ==
    ASSUME DailyTyped, NEW key, NEW cap \in Caps, NEW through \in {0, 1}, Tallies(key, cap, through)
    PROVE  /\ DOMAIN daily' = DOMAIN daily \cup {key}
           /\ \A k \in DOMAIN daily \ {key} : daily'[k] = daily[k]
           /\ daily'[key] \in [through : Nat, lives : Nat, cap : Caps]
           /\ daily'[key].through = Tally(key).through + through
           /\ daily'[key].lives = Tally(key).lives +
                 (IF key \notin DOMAIN counter /\ key \in DOMAIN counter' THEN 1 ELSE 0)
           /\ cap <= daily'[key].cap /\ Tally(key).cap <= daily'[key].cap
           /\ Tally(key).through \in Nat /\ Tally(key).lives \in Nat /\ Tally(key).cap \in Nat
<1>0. \A c \in Caps : c \in Nat \ {0}
  BY Sizes
<1>1. /\ Tally(key).through \in Nat /\ Tally(key).lives \in Nat
      /\ Tally(key).cap = 0 \/ Tally(key).cap \in Caps
  BY DEF Tally, DailyTyped
<1> DEFINE n == Tally(key).lives + (IF key \notin DOMAIN counter /\ key \in DOMAIN counter' THEN 1 ELSE 0)
           m == IF Tally(key).cap < cap THEN cap ELSE Tally(key).cap
           r == [through |-> Tally(key).through + through, lives |-> n, cap |-> m]
<1>2. n \in Nat /\ m \in Caps /\ cap <= m /\ Tally(key).cap <= m /\ Tally(key).through + through \in Nat
  BY <1>0, <1>1
<1>3. daily' = [x \in DOMAIN daily \cup {key} |-> IF x = key THEN r ELSE daily[x]]
  BY DEF Tallies, With
<1>4. r.through = Tally(key).through + through /\ r.lives = n /\ r.cap = m
  OBVIOUS
<1>5. r \in [through : Nat, lives : Nat, cap : Caps]
  BY <1>2
<1>6. Tally(key).cap \in Nat
  BY <1>0, <1>1
<1>7. /\ DOMAIN daily' = DOMAIN daily \cup {key} /\ daily'[key] = r
      /\ \A k \in DOMAIN daily \ {key} : daily'[k] = daily[k]
  BY <1>3
<1> HIDE DEF r, m
<1> QED BY <1>1, <1>2, <1>4, <1>5, <1>6, <1>7

(* A message that is counted under the day it read. *)
CountsDay ==
    \E key : \E cap \in Caps :
        /\ key[1] = "day" /\ key[3] \in Nat /\ DayStart(key[3]) <= now
        /\ \/ Allows(key, cap) /\ Tallies(key, cap, 1)
           \/ Refuses(key, cap) /\ Tallies(key, cap, 0)

LEMMA DailyCapCounts == ASSUME WInv, NEW b \in Browser, DailyCap(b) PROVE CountsDay
<1> DEFINE key == <<"day", call[b].agent, call[b].day>>
<1>1. key[1] = "day" /\ key[3] = call[b].day
  OBVIOUS
<1>2. call[b].cap \in Caps /\ call[b].day \in Nat /\ DayStart(call[b].day) <= now
  BY DEF DailyCap, At, WInv, CallTyped, WidgetTyped, Waiting
<1>3. \/ Allows(key, call[b].cap) /\ Tallies(key, call[b].cap, 1)
      \/ Refuses(key, call[b].cap) /\ Tallies(key, call[b].cap, 0)
  BY DEF DailyCap
<1> HIDE DEF key
<1> QED BY <1>1, <1>2, <1>3 DEF CountsDay

LEMMA DailyCapTyped == ASSUME WInv, NEW b \in Browser, DailyCap(b) PROVE DailyTyped'
<1>0. CountsDay /\ DailyTyped
  BY DailyCapCounts DEF WInv, WidgetTyped
<1>1. PICK key : \E cap \in Caps :
             /\ key[1] = "day" /\ key[3] \in Nat
             /\ Tallies(key, cap, 1) \/ Tallies(key, cap, 0)
  BY <1>0 DEF CountsDay
<1>2. PICK cap \in Caps : Tallies(key, cap, 1) \/ Tallies(key, cap, 0)
  BY <1>1
<1>3. /\ DOMAIN daily' = DOMAIN daily \cup {key}
      /\ \A k \in DOMAIN daily \ {key} : daily'[k] = daily[k]
      /\ daily'[key] \in [through : Nat, lives : Nat, cap : Caps]
  BY <1>0, <1>2, Tallied
<1> QED BY <1>0, <1>1, <1>3 DEF DailyTyped

LEMMA BrowserStepTyped ==
    ASSUME WInv, NEW b \in Browser, now \in Nat, UNCHANGED now,
           \/ MintVisitor(b)
           \/ \E k \in Conversation \cup {None} : Send(b, k)
           \/ VisitorLimit(b) \/ IpLimit(b) \/ LoadAvailable(b) \/ DailyCap(b)
           \/ FirstEvent(b) \/ Begin(b) \/ EndStream(b) \/ Abandon(b) \/ DropUnread(b)
    PROVE  WInv'
<1>0. /\ call[b] \in Waiting /\ CallTyped(b) /\ WidgetTyped
      /\ None \notin Agent \cup Visitor \cup Conversation
  BY WidgetAssumption DEF WInv, WidgetTyped
<1>1. CASE MintVisitor(b)
  <2>1. token' \in [Browser -> Token \cup {None}] /\ minted' \subseteq Visitor
    <3>1. CASE UNCHANGED <<token, minted>>
      BY <1>0, <3>1 DEF WidgetTyped
    <3>2. ASSUME NEW v \in Visitor \ minted, Give(b, call[b].agent, v), minted' = minted \cup {v}
          PROVE  token' \in [Browser -> Token \cup {None}] /\ minted' \subseteq Visitor
      <4>1. [agent |-> call[b].agent, visitor |-> v, until |-> now + TokenLife] \in Token
        BY <1>0, <1>1, WidgetAssumption DEF Token, CallTyped, MintVisitor, At
      <4> QED BY <1>0, <3>2, <4>1 DEF Give, WidgetTyped
    <3> QED BY <1>0, <1>1, <3>1, <3>2, Minted
  <2> QED BY <1>0, <1>1, <2>1, OverTyped DEF MintVisitor, Over, WInv, WidgetTyped, DailyTyped
<1>2. ASSUME NEW k \in Conversation \cup {None}, Send(b, k) PROVE WInv'
  <2> DEFINE c == [NoCall EXCEPT !.step = "visitor", !.agent = token[b].agent,
                                 !.visitor = token[b].visitor, !.conv = k]
  <2>1. token[b] \in Token
    BY <1>0, <1>2 DEF Send, Valid, WidgetTyped
  <2>2. c \in Waiting
    BY <2>1 DEF NoCall, Waiting, CallStep, Token
  <2>3. /\ c.step = "visitor" /\ c.visitor \in Visitor /\ c.agent \in Agent /\ c.day = 0
        /\ DayStart(0) <= now
    BY <2>1, WidgetAssumption DEF NoCall, DayStart, Token
  <2> HIDE DEF c
  <2>4. call' = [call EXCEPT ![b] = c]
    BY <1>2 DEF c, Send
  <2>5. call' \in [Browser -> Waiting] /\ \A i \in Browser : CallTyped(i)'
    BY <2>2, <2>3, <2>4, CallGoesTyped
  <2> QED BY <1>0, <1>2, <2>5 DEF Send, WInv, WidgetTyped, DailyTyped
<1>3. CASE VisitorLimit(b) \/ IpLimit(b) \/ DailyCap(b)
  <2>1. call[b].step \notin {"idle", "mint"}
    BY <1>3 DEF VisitorLimit, IpLimit, DailyCap, At
  <2>2. call' \in [Browser -> Waiting] /\ \A i \in Browser : CallTyped(i)'
    <3>1. CASE Over(b)
      BY <3>1, OverTyped DEF Over
    <3>2. CASE Goes(b, "ip") \/ Goes(b, "load") \/ Goes(b, "first")
      BY <2>1, <3>2, StepTyped
    <3> QED BY <1>3, <3>1, <3>2 DEF VisitorLimit, IpLimit, DailyCap, Ends
  <2>3. sessions' \in [Browser -> Int] /\ UNCHANGED orphaned
    BY <1>0, <1>3 DEF VisitorLimit, IpLimit, DailyCap, Ends, CloseSession, WidgetTyped
  <2>4. DailyTyped'
    <3>1. CASE UNCHANGED daily
      BY <1>0, <3>1 DEF WidgetTyped, DailyTyped
    <3>2. CASE DailyCap(b)
      BY <1>0, <3>2, DailyCapTyped
    <3> QED BY <1>3, <3>1, <3>2 DEF VisitorLimit, IpLimit
  <2> QED BY <1>0, <1>3, <2>2, <2>3, <2>4 DEF VisitorLimit, IpLimit, DailyCap, WInv, WidgetTyped
<1>4. CASE LoadAvailable(b)
  <2>1. call[b].agent \in Agent /\ call[b].visitor \in Visitor
    BY <1>0, <1>4 DEF LoadAvailable, At, CallTyped
  <2>2. call' \in [Browser -> Waiting] /\ \A i \in Browser : CallTyped(i)'
    <3>1. CASE Over(b)
      BY <3>1, OverTyped DEF Over
    <3>2. CASE Loads(b)
      <4> DEFINE d == now \div DayLength
                 p == widget[call[b].agent].cap
                 c == [call[b] EXCEPT !.step = "cap", !.day = d, !.cap = p]
      <4>1. d \in Nat /\ DayStart(d) <= now
        BY Days
      <4>2. p \in Caps /\ p \in Nat
        BY <1>0, <2>1, Sizes DEF WidgetTyped
      <4>3. call' = [call EXCEPT ![b] = c]
        BY <1>0, <3>2 DEF Loads, WidgetTyped
      <4> HIDE DEF d, p
      <4>4. c \in Waiting
        BY <1>0, <4>1, <4>2 DEF Waiting, CallStep
      <4>5. c.step = "cap" /\ c.visitor \in Visitor /\ c.agent \in Agent /\ c.cap = p /\ c.day = d
        BY <1>0, <2>1 DEF Waiting
      <4> HIDE DEF c
      <4> QED BY <4>1, <4>2, <4>3, <4>4, <4>5, CallGoesTyped
    <3> QED BY <1>4, <3>1, <3>2 DEF LoadAvailable
  <2>3. sessions' \in [Browser -> Int]
    BY <1>0, <1>4 DEF LoadAvailable, OpenSession, WidgetTyped
  <2> QED BY <1>0, <1>4, <2>2, <2>3 DEF LoadAvailable, WInv, WidgetTyped, DailyTyped
<1>5. CASE FirstEvent(b)
  <2>1. call[b].agent \in Agent /\ call[b].visitor \in Visitor /\ call[b].step = "first"
    BY <1>0, <1>5 DEF FirstEvent, At, CallTyped
  <2>2. call' \in [Browser -> Waiting] /\ \A i \in Browser : CallTyped(i)'
    <3>1. CASE Over(b)
      BY <3>1, OverTyped DEF Over
    <3>2. CASE call[b].conv # None /\ Goes(b, "handed")
      <4>1. call[b].conv \in Conversation
        BY <1>0, <3>2 DEF Waiting
      <4> QED BY <2>1, <3>2, <4>1, StepTyped
    <3>3. ASSUME NEW k \in Conversation,
                 call' = [call EXCEPT ![b].step = "handed", ![b].conv = k]
          PROVE  call' \in [Browser -> Waiting] /\ \A i \in Browser : CallTyped(i)'
      <4> DEFINE c == [call[b] EXCEPT !.step = "handed", !.conv = k]
      <4>1. call' = [call EXCEPT ![b] = c]
        BY <1>0, <3>3 DEF WidgetTyped
      <4>2. c \in Waiting
        BY <1>0 DEF Waiting, CallStep
      <4>3. /\ c.step = "handed" /\ c.visitor \in Visitor /\ c.agent \in Agent /\ c.conv = k
            /\ c.day = call[b].day
        BY <1>0, <2>1 DEF Waiting
      <4>4. DayStart(c.day) <= now
        BY <1>0, <4>3 DEF CallTyped
      <4> HIDE DEF c
      <4> QED BY <4>1, <4>2, <4>3, <4>4, CallGoesTyped
    <3> QED BY <1>5, <3>1, <3>2, <3>3 DEF FirstEvent, Ends
  <2>3. sessions' \in [Browser -> Int]
    BY <1>0, <1>5 DEF FirstEvent, Ends, CloseSession, WidgetTyped
  <2> QED BY <1>0, <1>5, <2>2, <2>3 DEF FirstEvent, WInv, WidgetTyped, DailyTyped
<1>6. CASE Begin(b)
  <2>1. call' \in [Browser -> Waiting] /\ \A i \in Browser : CallTyped(i)'
    BY <1>0, <1>6, StepTyped DEF Begin, At, CallTyped
  <2> QED BY <1>0, <1>6, <2>1 DEF Begin, WInv, WidgetTyped, DailyTyped
<1>7. CASE EndStream(b)
  <2> DEFINE k == call[b].conv
             c == [agent |-> call[b].agent, visitor |-> call[b].visitor, at |-> now,
                   browser |-> IF conversation[k] = None THEN b ELSE conversation[k].browser]
  <2>1. /\ call[b].agent \in Agent /\ call[b].visitor \in Visitor /\ k \in Conversation
    BY <1>0, <1>7 DEF EndStream, At, CallTyped
  <2>2. c \in Stored
    BY <1>0, <2>1 DEF WidgetTyped, Stored
  <2>3. conversation' \in [Conversation -> Stored \cup {None}]
    BY <1>0, <1>7, <2>2 DEF EndStream, WidgetTyped
  <2>4. sessions' \in [Browser -> Int]
    BY <1>0, <1>7 DEF EndStream, Ends, CloseSession, WidgetTyped
  <2> QED BY <1>0, <1>7, <2>3, <2>4, OverTyped
          DEF EndStream, Ends, Over, WInv, WidgetTyped, DailyTyped
<1>8. CASE Abandon(b)
  <2>1. sessions' \in [Browser -> Int]
    BY <1>0, <1>8 DEF Abandon, CloseSession, WidgetTyped
  <2> QED BY <1>0, <1>8, <2>1, OverTyped DEF Abandon, Over, WInv, WidgetTyped, DailyTyped
<1>9. CASE DropUnread(b)
  <2>1. orphaned' \in [Browser -> 0 .. MaxOrphans]
    <3>1. orphaned[b] + 1 \in 0 .. MaxOrphans
      BY <1>0, <1>9, WidgetAssumption DEF DropUnread, WidgetTyped
    <3> QED BY <1>0, <1>9, <3>1 DEF DropUnread, WidgetTyped
  <2> QED BY <1>0, <1>9, <2>1, OverTyped DEF DropUnread, Over, WInv, WidgetTyped, DailyTyped
<1> QED BY <1>1, <1>2, <1>3, <1>4, <1>5, <1>6, <1>7, <1>8, <1>9

-----------------------------------------------------------------------------
(* The state of the sign-in. *)

SignInTyped ==
    /\ account \subseteq Account
    /\ refresh \in [Jti -> Nat]
    /\ cookie \in Jti \cup {NoToken}
    /\ DOMAIN denied \subseteq Jti /\ \A j \in DOMAIN denied : denied[j] \in Nat
    /\ tab \in [Tab -> [step : TabStep, account : SUBSET Account, jti : Jti \cup {NoToken}]]
    /\ burned \subseteq Jti /\ raced \subseteq Jti
    /\ heirs \in [Jti -> SUBSET Jti]

Trading == {"checking", "burning", "issuing"}

(* A tab holds a token exactly while it trades it. *)
SInv ==
    /\ SignInTyped
    /\ \A t \in Tab : tab[t].jti \in Jti <=> tab[t].step \in Trading

LEMMA TabGoesTyped ==
    ASSUME SInv, NEW t \in Tab,
           NEW c \in [step : TabStep, account : SUBSET Account, jti : Jti \cup {NoToken}],
           tab' = [tab EXCEPT ![t] = c],
           c.jti \in Jti <=> c.step \in Trading
    PROVE  /\ tab' \in [Tab -> [step : TabStep, account : SUBSET Account, jti : Jti \cup {NoToken}]]
           /\ \A s \in Tab : tab'[s].jti \in Jti <=> tab'[s].step \in Trading
BY DEF SInv, SignInTyped

LEMMA TabDoneTyped ==
    ASSUME SInv, NEW t \in Tab, TabDone(t)
    PROVE  /\ tab' \in [Tab -> [step : TabStep, account : SUBSET Account, jti : Jti \cup {NoToken}]]
           /\ \A s \in Tab : tab'[s].jti \in Jti <=> tab'[s].step \in Trading
<1>1. NoTab \in [step : TabStep, account : SUBSET Account, jti : Jti \cup {NoToken}]
  BY DEF NoTab, TabStep
<1>2. NoTab.jti \notin Jti /\ NoTab.step \notin Trading
  BY SignInAssumption DEF NoTab, Trading
<1> QED BY <1>1, <1>2, TabGoesTyped DEF TabDone

LEMMA IssueTyped ==
    ASSUME SInv, NEW j \in Jti, IssueTokens(j), now \in Nat
    PROVE  refresh' \in [Jti -> Nat] /\ cookie' \in Jti \cup {NoToken}
BY SignInAssumption DEF IssueTokens, SInv, SignInTyped

LEMMA BurnTyped ==
    ASSUME SInv, NEW j \in Jti, NEW t \in Tab, Burns(j, t), now \in Nat
    PROVE  /\ DOMAIN denied' = DOMAIN denied \cup {j} /\ DOMAIN denied' \subseteq Jti
           /\ denied'[j] = now + RefreshLife
           /\ \A i \in DOMAIN denied \ {j} : denied'[i] = denied[i]
           /\ \A i \in DOMAIN denied' : denied'[i] \in Nat
           /\ burned' \subseteq Jti /\ raced' \subseteq Jti
<1>1. denied' = [x \in DOMAIN denied \cup {j} |-> IF x = j THEN now + RefreshLife ELSE denied[x]]
  BY DEF Burns, Revoke, With
<1>2. DOMAIN denied \subseteq Jti /\ \A i \in DOMAIN denied : denied[i] \in Nat
  BY DEF SInv, SignInTyped
<1>3. burned' \subseteq Jti /\ raced' \subseteq Jti
  BY DEF Burns, SInv, SignInTyped
<1>4. RefreshLife \in Nat
  BY SignInAssumption
<1> QED BY <1>1, <1>2, <1>3, <1>4

LEMMA SignInStepTyped ==
    ASSUME SInv, NEW t \in Tab, now \in Nat,
           \/ \E u \in Account : Register(t, u) \/ Login(t, u)
           \/ CreateAccount(t) \/ Authenticate(t)
           \/ StartRefresh(t) \/ CheckDenylist(t) \/ BurnToken(t) \/ IssuePair(t)
           \/ RefreshFails(t) \/ Logout(t)
    PROVE  SInv'
<1> DEFINE TabState == [step : TabStep, account : SUBSET Account, jti : Jti \cup {NoToken}]
<1>0. /\ SignInTyped /\ tab[t] \in TabState
      /\ tab[t].jti \in Jti <=> tab[t].step \in Trading
      /\ NoToken \notin Jti
  BY SignInAssumption DEF SInv, SignInTyped
<1>1. ASSUME NEW u \in Account, Register(t, u) \/ Login(t, u) PROVE SInv'
  <2>1. CASE UNCHANGED tab
    BY <1>0, <1>1, <2>1 DEF Register, Login, SInv, SignInTyped
  <2>2. ASSUME NEW step \in {"registering", "authenticating"},
               tab' = [tab EXCEPT ![t] = [NoTab EXCEPT !.step = step, !.account = {u}]]
        PROVE  SInv'
    <3> DEFINE c == [NoTab EXCEPT !.step = step, !.account = {u}]
    <3>1. c \in TabState /\ c.jti = NoToken /\ c.step = step
      BY DEF NoTab, TabStep
    <3>2. tab' = [tab EXCEPT ![t] = c]
      BY <2>2
    <3>3. c.jti \in Jti <=> c.step \in Trading
      BY <1>0, <3>1 DEF Trading
    <3> HIDE DEF c
    <3>4. tab' \in [Tab -> TabState] /\ \A s \in Tab : tab'[s].jti \in Jti <=> tab'[s].step \in Trading
      BY <3>1, <3>2, <3>3, TabGoesTyped
    <3> QED BY <1>0, <1>1, <3>4 DEF Register, Login, SInv, SignInTyped
  <2> QED BY <1>1, <2>1, <2>2 DEF Register, Login
<1>2. CASE CreateAccount(t) \/ Authenticate(t)
  <2>1. tab' \in [Tab -> TabState] /\ \A s \in Tab : tab'[s].jti \in Jti <=> tab'[s].step \in Trading
    BY <1>2, TabDoneTyped DEF CreateAccount, Authenticate
  <2>2. refresh' \in [Jti -> Nat] /\ cookie' \in Jti \cup {NoToken}
    <3>1. CASE UNCHANGED <<refresh, cookie>>
      BY <1>0, <3>1 DEF SignInTyped
    <3>2. ASSUME NEW j \in Jti, IssueTokens(j)
          PROVE  refresh' \in [Jti -> Nat] /\ cookie' \in Jti \cup {NoToken}
      BY <3>2, IssueTyped
    <3> QED BY <1>2, <3>1, <3>2 DEF CreateAccount, Authenticate
  <2>3. account' \subseteq Account
    BY <1>0, <1>2 DEF CreateAccount, Authenticate, SignInTyped
  <2> QED BY <1>0, <1>2, <2>1, <2>2, <2>3 DEF CreateAccount, Authenticate, SInv, SignInTyped
<1>3. CASE StartRefresh(t)
  <2> DEFINE c == [NoTab EXCEPT !.step = "checking", !.jti = cookie]
  <2>1. cookie \in Jti
    BY <1>0, <1>3 DEF StartRefresh, Unexpired, SignInTyped
  <2>2. c \in TabState /\ c.jti = cookie /\ c.step = "checking"
    BY <2>1 DEF NoTab, TabStep
  <2>3. tab' = [tab EXCEPT ![t] = c]
    BY <1>3 DEF StartRefresh
  <2>4. c.jti \in Jti <=> c.step \in Trading
    BY <2>1, <2>2 DEF Trading
  <2> HIDE DEF c
  <2>5. tab' \in [Tab -> TabState] /\ \A s \in Tab : tab'[s].jti \in Jti <=> tab'[s].step \in Trading
    BY <2>2, <2>3, <2>4, TabGoesTyped
  <2> QED BY <1>0, <1>3, <2>5 DEF StartRefresh, SInv, SignInTyped
<1>4. ASSUME NEW step \in {"burning", "issuing"}, TabGoes(t, step), tab[t].step \in Trading
      PROVE  /\ tab' \in [Tab -> TabState]
             /\ \A s \in Tab : tab'[s].jti \in Jti <=> tab'[s].step \in Trading
  <2> DEFINE c == [tab[t] EXCEPT !.step = step]
  <2>1. c \in TabState /\ c.jti = tab[t].jti /\ c.step = step
    BY <1>0 DEF TabStep
  <2>2. tab' = [tab EXCEPT ![t] = c]
    BY <1>4 DEF TabGoes
  <2>3. c.jti \in Jti <=> c.step \in Trading
    BY <1>0, <1>4, <2>1 DEF Trading
  <2> HIDE DEF c
  <2> QED BY <2>1, <2>2, <2>3, TabGoesTyped
<1>5. CASE CheckDenylist(t) \/ RefreshFails(t)
  <2>1. tab' \in [Tab -> TabState] /\ \A s \in Tab : tab'[s].jti \in Jti <=> tab'[s].step \in Trading
    BY <1>4, <1>5, TabDoneTyped DEF CheckDenylist, RefreshFails, TabAt, Trading
  <2> QED BY <1>0, <1>5, <2>1 DEF CheckDenylist, RefreshFails, SInv, SignInTyped
<1>6. CASE BurnToken(t)
  <2>1. tab' \in [Tab -> TabState] /\ \A s \in Tab : tab'[s].jti \in Jti <=> tab'[s].step \in Trading
    BY <1>4, <1>6 DEF BurnToken, TabAt, Trading
  <2>2. tab[t].jti \in Jti
    BY <1>0, <1>6 DEF BurnToken, TabAt, Trading
  <2>3. /\ DOMAIN denied' \subseteq Jti /\ \A i \in DOMAIN denied' : denied'[i] \in Nat
        /\ burned' \subseteq Jti /\ raced' \subseteq Jti
    BY <1>6, <2>2, BurnTyped DEF BurnToken
  <2> QED BY <1>0, <1>6, <2>1, <2>3 DEF BurnToken, SInv, SignInTyped
<1>7. CASE IssuePair(t)
  <2>1. tab' \in [Tab -> TabState] /\ \A s \in Tab : tab'[s].jti \in Jti <=> tab'[s].step \in Trading
    BY <1>7, TabDoneTyped DEF IssuePair
  <2>2. PICK j \in Jti : /\ IssueTokens(j)
                         /\ heirs' = [heirs EXCEPT ![tab[t].jti] = heirs[tab[t].jti] \cup {j}]
    BY <1>7 DEF IssuePair
  <2>3. refresh' \in [Jti -> Nat] /\ cookie' \in Jti \cup {NoToken}
    BY <2>2, IssueTyped
  <2>4. tab[t].jti \in Jti
    BY <1>0, <1>7 DEF IssuePair, TabAt, Trading
  <2>5. heirs' \in [Jti -> SUBSET Jti]
    BY <1>0, <2>2, <2>4 DEF SignInTyped
  <2> QED BY <1>0, <1>7, <2>1, <2>3, <2>5 DEF IssuePair, SInv, SignInTyped
<1>8. CASE Logout(t)
  <2>1. /\ DOMAIN denied' \subseteq Jti /\ \A i \in DOMAIN denied' : denied'[i] \in Nat
        /\ burned' \subseteq Jti /\ raced' \subseteq Jti
    <3>1. CASE UNCHANGED <<denied, burned, raced>>
      BY <1>0, <3>1 DEF SignInTyped
    <3>2. CASE Burns(cookie, t)
      <4>1. cookie \in Jti
        BY <1>0, <1>8 DEF Logout, SignInTyped
      <4> QED BY <3>2, <4>1, BurnTyped
    <3> QED BY <1>8, <3>1, <3>2 DEF Logout
  <2> QED BY <1>0, <1>8, <2>1 DEF Logout, SInv, SignInTyped
<1> QED BY <1>1, <1>2, <1>3, <1>5, <1>6, <1>7, <1>8

-----------------------------------------------------------------------------
(* Every step counts one call, or none, or is the clock's. *)

Typed == LimiterTyped /\ WInv /\ SInv

LEMMA WidgetCounts ==
    ASSUME WInv, WidgetStep
    PROVE  \/ CountsFixed /\ UNCHANGED daily
           \/ CountsDay
           \/ UNCHANGED <<limiterVars, daily>>
<1>0. {"frame", "config", "session", "visitor", "ip"} \subseteq DOMAIN Limit
  BY WidgetAssumption
<1>1. ASSUME NEW key, key[1] \in DOMAIN Limit,
             Allows(key, Limit[key[1]]) \/ Refuses(key, Limit[key[1]])
      PROVE  CountsFixed
  BY <1>1 DEF CountsFixed
<1>2. ASSUME NEW a \in Agent, FramePolicy(a) PROVE CountsFixed /\ UNCHANGED daily
  <2>1. <<"frame", a>>[1] = "frame"
    OBVIOUS
  <2> QED BY <1>0, <1>1, <1>2, <2>1 DEF FramePolicy, widgetVars
<1>3. ASSUME NEW a \in Agent, LauncherConfig(a) PROVE CountsFixed /\ UNCHANGED daily
  <2>1. <<"config", a>>[1] = "config"
    OBVIOUS
  <2> QED BY <1>0, <1>1, <1>3, <2>1 DEF LauncherConfig, widgetVars
<1>4. ASSUME NEW b \in Browser, MintVisitor(b) PROVE CountsFixed /\ UNCHANGED daily
  <2>1. <<"session">>[1] = "session"
    OBVIOUS
  <2> QED BY <1>0, <1>1, <1>4, <2>1 DEF MintVisitor
<1>5. ASSUME NEW b \in Browser, VisitorLimit(b) PROVE CountsFixed /\ UNCHANGED daily
  <2>1. <<"visitor", call[b].visitor>>[1] = "visitor"
    OBVIOUS
  <2> QED BY <1>0, <1>1, <1>5, <2>1 DEF VisitorLimit
<1>6. ASSUME NEW b \in Browser, IpLimit(b) PROVE CountsFixed /\ UNCHANGED daily
  <2>1. <<"ip">>[1] = "ip"
    OBVIOUS
  <2> QED BY <1>0, <1>1, <1>6, <2>1 DEF IpLimit
<1>7. ASSUME NEW a \in Agent, NEW open \in BOOLEAN, NEW cap \in Caps, UpdateWidget(a, open, cap)
      PROVE  UNCHANGED <<limiterVars, daily>>
  BY <1>7 DEF UpdateWidget
<1>8. ASSUME NEW b \in Browser,
             \/ \E a \in Agent : CreateSession(b, a)
             \/ \E k \in Conversation \cup {None} : Send(b, k)
             \/ LoadAvailable(b) \/ FirstEvent(b) \/ Begin(b) \/ EndStream(b)
             \/ Abandon(b) \/ DropUnread(b)
      PROVE  UNCHANGED <<limiterVars, daily>>
  BY <1>8 DEF CreateSession, Send, LoadAvailable, FirstEvent, Begin, EndStream, Abandon, DropUnread
<1> QED BY <1>2, <1>3, <1>4, <1>5, <1>6, <1>7, <1>8, DailyCapCounts DEF WidgetStep

LEMMA SignInCounts ==
    ASSUME SignInStep
    PROVE  CountsFixed \/ UNCHANGED limiterVars
<1>0. {"register", "login"} \subseteq DOMAIN Limit
  BY SignInAssumption
<1>1. ASSUME NEW kind \in {"register", "login"},
             Allows(<<kind>>, Limit[kind]) \/ Refuses(<<kind>>, Limit[kind])
      PROVE  CountsFixed
  <2>1. <<kind>>[1] = kind
    OBVIOUS
  <2> QED BY <1>0, <1>1, <2>1 DEF CountsFixed
<1>2. ASSUME NEW t \in Tab, NEW u \in Account, Register(t, u) \/ Login(t, u)
      PROVE  CountsFixed
  BY <1>1, <1>2 DEF Register, Login
<1>3. ASSUME NEW t \in Tab,
             \/ CreateAccount(t) \/ Authenticate(t)
             \/ StartRefresh(t) \/ CheckDenylist(t) \/ BurnToken(t) \/ IssuePair(t)
             \/ RefreshFails(t) \/ Logout(t)
      PROVE  UNCHANGED limiterVars
  BY <1>3 DEF CreateAccount, Authenticate, StartRefresh, CheckDenylist, BurnToken, IssuePair,
              RefreshFails, Logout
<1> QED BY <1>2, <1>3 DEF SignInStep

LEMMA StepCounts ==
    ASSUME Typed, [Next]_vars
    PROVE  \/ CountsFixed /\ UNCHANGED daily
           \/ CountsDay
           \/ Tick /\ UNCHANGED daily
           \/ UNCHANGED <<limiterVars, daily>>
BY WidgetCounts, SignInCounts DEF Typed, Next, vars, widgetVars

LEMMA AllCount == CountsFixed \/ CountsDay => Counts
BY DEF CountsFixed, CountsDay, Counts, Countable

LEMMA LimiterMoves ==
    ASSUME Typed, [Next]_vars
    PROVE  Counts \/ Tick \/ UNCHANGED limiterVars
BY StepCounts, AllCount

LEMMA CountsKeepTime == Counts => UNCHANGED now
BY DEF Counts, Allows, Refuses

LEMMA TypedInit == Init => Typed
<1> SUFFICES ASSUME Init PROVE Typed
  OBVIOUS
<1>1. DOMAIN counter = {} /\ DOMAIN admitted = {} /\ DOMAIN denied = {} /\ DOMAIN daily = {}
  BY DEF Init, LimiterInit, SignInInit, WidgetInit
<1>2. LimiterTyped
  BY <1>1, Sizes DEF Init, LimiterInit, LimiterTyped, CounterTyped, AdmittedTyped
<1>3. WInv
  <2>1. NoCall \in Waiting /\ NoCall.step = "idle" /\ NoCall.visitor = None /\ NoCall.conv = None
        /\ NoCall.day = 0
    BY NoCallTyped DEF NoCall
  <2>2. DayStart(0) <= now
    BY WidgetAssumption DEF DayStart, Init, LimiterInit
  <2>3. widget \in [Agent -> [open : BOOLEAN, cap : Caps]]
    BY WidgetAssumption DEF Init, WidgetInit
  <2>4. DailyTyped /\ 0 \in 0 .. MaxOrphans
    BY <1>1, WidgetAssumption DEF DailyTyped
  <2> QED BY <2>1, <2>2, <2>3, <2>4 DEF Init, WidgetInit, WInv, WidgetTyped, CallTyped
<1>4. SInv
  <2>1. /\ NoTab \in [step : TabStep, account : SUBSET Account, jti : Jti \cup {NoToken}]
        /\ NoTab.jti \notin Jti /\ NoTab.step \notin Trading
    BY SignInAssumption DEF NoTab, TabStep, Trading
  <2> QED BY <1>1, <2>1 DEF Init, SignInInit, SInv, SignInTyped
<1> QED BY <1>2, <1>3, <1>4 DEF Typed

LEMMA TypedNext == Typed /\ [Next]_vars => Typed'
<1> SUFFICES ASSUME Typed, [Next]_vars PROVE Typed'
  OBVIOUS
<1>0. LimiterTyped /\ WInv /\ SInv /\ now \in Nat
  BY Sizes DEF Typed, LimiterTyped
<1>1. LimiterTyped'
  <2>1. CASE Tick
    BY <1>0, <2>1, TickTyped
  <2>2. CASE Counts
    BY <1>0, <2>2, CountsTyped DEF Counts
  <2>3. CASE UNCHANGED limiterVars
    BY <1>0, <2>3 DEF limiterVars, LimiterTyped, CounterTyped, AdmittedTyped
  <2> QED BY <2>1, <2>2, <2>3, LimiterMoves
<1>2. WInv'
  <2>1. CASE WidgetStep
    <3>1. UNCHANGED now
      BY <1>0, <2>1, WidgetCounts, AllCount, CountsKeepTime DEF limiterVars
    <3> QED BY <1>0, <2>1, <3>1, AgentStepTyped, BrowserStepTyped DEF WidgetStep
  <2>2. CASE UNCHANGED widgetVars /\ now <= now'
    <3>1. WidgetTyped'
      BY <1>0, <2>2 DEF widgetVars, WInv, WidgetTyped, DailyTyped
    <3>2. ASSUME NEW b \in Browser PROVE CallTyped(b)'
      <4>1. call[b].day \in Nat /\ CallTyped(b) /\ call'[b] = call[b]
        BY <1>0, <2>2 DEF widgetVars, WInv, WidgetTyped, Waiting
      <4>2. DayStart(call[b].day) \in Nat /\ now' \in Nat
        BY <1>1, <4>1, DayStartTyped, Sizes DEF LimiterTyped
      <4> QED BY <1>0, <2>2, <4>1, <4>2 DEF CallTyped
    <3> QED BY <3>1, <3>2 DEF WInv
  <2>3. now' \in Nat /\ (Tick \/ UNCHANGED now => now <= now')
    BY <1>0, <1>1, Sizes DEF Tick, LimiterTyped
  <2>4. SignInStep => UNCHANGED now
    BY SignInCounts, AllCount, CountsKeepTime DEF limiterVars
  <2> QED BY <2>1, <2>2, <2>3, <2>4 DEF Next, vars, limiterVars
<1>3. SInv'
  <2>1. CASE SignInStep
    BY <1>0, <2>1, SignInStepTyped DEF SignInStep
  <2>2. CASE UNCHANGED signInVars
    BY <1>0, <2>2 DEF signInVars, SInv, SignInTyped
  <2> QED BY <2>1, <2>2 DEF Next, vars
<1> QED BY <1>1, <1>2, <1>3 DEF Typed

LEMMA TypedAlways == Spec => []Typed
BY TypedInit, TypedNext, PTL DEF Spec

-----------------------------------------------------------------------------
(* Database sessions.  A step moves one browser's call. *)

Lent(b) == IF call[b].step \in Holding THEN 1 ELSE 0

LEMMA OthersReturn ==
    ASSUME SessionsAreReturned, NEW b \in Browser,
           \A c \in Browser \ {b} :
              call'[c] = call[c] /\ sessions'[c] = sessions[c] /\ orphaned'[c] = orphaned[c],
           sessions'[b] = orphaned'[b] + Lent(b)'
    PROVE  SessionsAreReturned'
BY DEF SessionsAreReturned, Lent

(* The call goes on without a session it did not have, and keeps the one it had. *)
LEMMA KeepsSession ==
    ASSUME WidgetTyped, SessionsAreReturned, NEW b \in Browser, NEW c,
           call' = [call EXCEPT ![b] = c], UNCHANGED <<sessions, orphaned>>,
           c.step \in Holding <=> call[b].step \in Holding
    PROVE  SessionsAreReturned'
<1>1. call'[b] = c /\ \A d \in Browser \ {b} : call'[d] = call[d]
  BY DEF WidgetTyped
<1>2. sessions'[b] = orphaned'[b] + Lent(b)'
  BY <1>1 DEF SessionsAreReturned, Lent
<1> QED BY <1>1, <1>2, OthersReturn

LEMMA OverReturns ==
    ASSUME WidgetTyped, SessionsAreReturned, NEW b \in Browser, Over(b), UNCHANGED orphaned,
           IF call[b].step \in Holding THEN CloseSession(b) ELSE UNCHANGED sessions
    PROVE  SessionsAreReturned'
<1>1. call'[b] = NoCall /\ \A c \in Browser \ {b} : call'[c] = call[c]
  BY DEF Over, WidgetTyped
<1>2. Lent(b)' = 0 /\ sessions[b] = orphaned[b] + Lent(b) /\ orphaned[b] \in Int
  BY <1>1 DEF Lent, NoCall, Holding, SessionsAreReturned, WidgetTyped
<1>3. /\ \A c \in Browser \ {b} : sessions'[c] = sessions[c]
      /\ sessions'[b] = sessions[b] - Lent(b)
  BY DEF CloseSession, Lent, WidgetTyped
<1>4. Lent(b) \in Int
  BY DEF Lent
<1>5. sessions'[b] = orphaned'[b] + Lent(b)'
  BY <1>2, <1>3, <1>4
<1> QED BY <1>1, <1>3, <1>5, OthersReturn

LEMMA SessionsStep ==
    ASSUME Typed, SessionsAreReturned, WidgetStep
    PROVE  SessionsAreReturned'
<1>0. WidgetTyped
  BY DEF Typed, WInv
<1>1. ASSUME NEW a \in Agent,
             \/ \E open \in BOOLEAN, cap \in Caps : UpdateWidget(a, open, cap)
             \/ FramePolicy(a) \/ LauncherConfig(a)
      PROVE  SessionsAreReturned'
  BY <1>1 DEF UpdateWidget, FramePolicy, LauncherConfig, widgetVars, SessionsAreReturned
<1>2. ASSUME NEW b \in Browser, NEW a \in Agent, CreateSession(b, a)
      PROVE  SessionsAreReturned'
  <2> DEFINE c == [NoCall EXCEPT !.step = "mint", !.agent = a]
  <2>1. c.step = "mint" /\ call[b].step = "idle"
    BY <1>2 DEF NoCall, CreateSession, At
  <2>2. CASE UNCHANGED call
    BY <1>2, <2>2 DEF CreateSession, SessionsAreReturned
  <2>3. CASE call' = [call EXCEPT ![b] = c]
    <3> HIDE DEF c
    <3> QED BY <1>0, <1>2, <2>1, <2>3, KeepsSession DEF CreateSession, Holding
  <2> QED BY <1>2, <2>2, <2>3 DEF CreateSession
<1>3. ASSUME NEW b \in Browser, NEW k \in Conversation \cup {None}, Send(b, k)
      PROVE  SessionsAreReturned'
  <2> DEFINE c == [NoCall EXCEPT !.step = "visitor", !.agent = token[b].agent,
                                 !.visitor = token[b].visitor, !.conv = k]
  <2>1. c.step = "visitor" /\ call[b].step = "idle"
    BY <1>3 DEF NoCall, Send, At
  <2>2. call' = [call EXCEPT ![b] = c]
    BY <1>3 DEF Send
  <2> HIDE DEF c
  <2> QED BY <1>0, <1>3, <2>1, <2>2, KeepsSession DEF Send, Holding
<1>4. ASSUME NEW b \in Browser, NEW step, Goes(b, step), UNCHANGED <<sessions, orphaned>>,
             step \in Holding <=> call[b].step \in Holding
      PROVE  SessionsAreReturned'
  <2> DEFINE c == [call[b] EXCEPT !.step = step]
  <2>1. c.step = step /\ call' = [call EXCEPT ![b] = c]
    BY <1>0, <1>4 DEF Goes, WidgetTyped, Waiting
  <2> HIDE DEF c
  <2> QED BY <1>0, <1>4, <2>1, KeepsSession
<1>5. ASSUME NEW b \in Browser, MintVisitor(b) \/ VisitorLimit(b) \/ IpLimit(b)
      PROVE  SessionsAreReturned'
  <2>1. call[b].step \notin Holding /\ UNCHANGED <<sessions, orphaned>>
    BY <1>5 DEF MintVisitor, VisitorLimit, IpLimit, At, Holding
  <2>2. CASE Over(b)
    BY <1>0, <2>1, <2>2, OverReturns
  <2>3. CASE Goes(b, "ip") \/ Goes(b, "load")
    BY <1>4, <2>1, <2>3 DEF Holding
  <2> QED BY <1>5, <2>2, <2>3 DEF MintVisitor, VisitorLimit, IpLimit
<1>6. ASSUME NEW b \in Browser, LoadAvailable(b) PROVE SessionsAreReturned'
  <2>1. call[b].step = "load" /\ UNCHANGED orphaned
    BY <1>6 DEF LoadAvailable, At
  <2>2. CASE Over(b) /\ UNCHANGED sessions
    BY <1>0, <2>1, <2>2, OverReturns DEF Holding
  <2>3. CASE Loads(b) /\ OpenSession(b)
    <3>1. call'[b].step = "cap" /\ \A c \in Browser \ {b} : call'[c] = call[c]
      BY <1>0, <2>3 DEF Loads, WidgetTyped, Waiting
    <3>2. /\ \A c \in Browser \ {b} : sessions'[c] = sessions[c]
          /\ sessions'[b] = sessions[b] + 1
      BY <1>0, <2>3 DEF OpenSession, WidgetTyped
    <3>3. Lent(b)' = 1 /\ sessions[b] = orphaned[b] + 0 /\ orphaned[b] \in Int
      BY <1>0, <2>1, <3>1 DEF Lent, Holding, SessionsAreReturned, WidgetTyped
    <3>4. sessions'[b] = orphaned'[b] + Lent(b)'
      BY <2>1, <3>2, <3>3
    <3> QED BY <2>1, <3>1, <3>2, <3>4, OthersReturn
  <2> QED BY <1>6, <2>2, <2>3 DEF LoadAvailable
<1>7. ASSUME NEW b \in Browser, DailyCap(b) \/ FirstEvent(b) \/ Begin(b) \/ EndStream(b)
      PROVE  SessionsAreReturned'
  <2>1. call[b].step \in Holding /\ UNCHANGED orphaned
    BY <1>7 DEF DailyCap, FirstEvent, Begin, EndStream, At, Holding
  <2>2. CASE Ends(b)
    BY <1>0, <2>1, <2>2, OverReturns DEF Ends
  <2>3. CASE (Goes(b, "first") \/ Goes(b, "handed") \/ Goes(b, "stream")) /\ UNCHANGED sessions
    BY <1>4, <2>1, <2>3 DEF Holding
  <2>4. ASSUME NEW k \in Conversation,
               call' = [call EXCEPT ![b].step = "handed", ![b].conv = k], UNCHANGED sessions
        PROVE  SessionsAreReturned'
    <3> DEFINE c == [call[b] EXCEPT !.step = "handed", !.conv = k]
    <3>1. c.step = "handed" /\ call' = [call EXCEPT ![b] = c]
      BY <1>0, <2>4 DEF WidgetTyped, Waiting
    <3> HIDE DEF c
    <3> QED BY <1>0, <2>1, <2>4, <3>1, KeepsSession DEF Holding
  <2> QED BY <1>7, <2>2, <2>3, <2>4 DEF DailyCap, FirstEvent, Begin, EndStream
<1>8. ASSUME NEW b \in Browser, Abandon(b) PROVE SessionsAreReturned'
  <2>1. call[b].step \in Holding <=> call[b].step \in {"cap", "first", "stream"}
    BY <1>8 DEF Abandon, At, Holding
  <2> QED BY <1>0, <1>8, <2>1, OverReturns DEF Abandon
<1>9. ASSUME NEW b \in Browser, DropUnread(b) PROVE SessionsAreReturned'
  <2>1. call'[b] = NoCall /\ \A c \in Browser \ {b} : call'[c] = call[c]
    BY <1>0, <1>9 DEF DropUnread, Over, WidgetTyped
  <2>2. /\ \A c \in Browser \ {b} : orphaned'[c] = orphaned[c]
        /\ orphaned'[b] = orphaned[b] + 1 /\ UNCHANGED sessions
    BY <1>0, <1>9 DEF DropUnread, WidgetTyped
  <2>3. Lent(b)' = 0 /\ sessions[b] = orphaned[b] + 1 /\ orphaned[b] \in Int
    BY <1>0, <1>9, <2>1
       DEF DropUnread, At, Lent, NoCall, Holding, SessionsAreReturned, WidgetTyped
  <2>4. sessions'[b] = orphaned'[b] + Lent(b)'
    BY <2>2, <2>3
  <2> QED BY <2>1, <2>2, <2>4, OthersReturn
<1> QED BY <1>1, <1>2, <1>3, <1>5, <1>6, <1>7, <1>8, <1>9 DEF WidgetStep

LEMMA SessionsAlways == Spec => []SessionsAreReturned
<1>1. Init => SessionsAreReturned
  BY DEF Init, WidgetInit, NoCall, Holding, SessionsAreReturned
<1>2. Typed /\ SessionsAreReturned /\ [Next]_vars => SessionsAreReturned'
  <2>1. UNCHANGED widgetVars /\ SessionsAreReturned => SessionsAreReturned'
    BY DEF widgetVars, SessionsAreReturned
  <2> QED BY <2>1, SessionsStep DEF Next, vars
<1> QED BY <1>1, <1>2, TypedAlways, PTL DEF Spec

(* A session opened by hand is closed exactly once by every refusal, failure  *)
(* and departure but one: what is still open belongs to a call between its    *)
(* load and the end of its stream, or to a response that was handed over and  *)
(* dropped before its body began.                                             *)
THEOREM SessionsComeBack == Spec => []SessionsAreReturned
BY SessionsAlways

(* Every variable keeps its shape, and no counter outlives its window, however *)
(* calls, failures of Redis and ticks of the clock follow each other.          *)
THEOREM FrontDoorTyped == Spec => []TypeOK
<1>1. Typed /\ SessionsAreReturned => TypeOK
  <2> SUFFICES ASSUME Typed, SessionsAreReturned PROVE TypeOK
    OBVIOUS
  <2>1. ASSUME NEW key \in DOMAIN counter
        PROVE  /\ counter[key] \in [count : 1 .. MaxCount, until : Nat]
               /\ counter[key].until \in now + 1 .. now + Window[key[1]]
    BY Sizes DEF Typed, LimiterTyped, CounterTyped
  <2>2. sessions \in [Browser -> Nat]
    <3>1. sessions \in [Browser -> Int] /\ orphaned \in [Browser -> 0 .. MaxOrphans]
      BY DEF Typed, WInv, WidgetTyped
    <3>2. \A b \in Browser : sessions[b] \in Nat
      BY <3>1 DEF SessionsAreReturned
    <3> QED BY <3>1, <3>2
  <2> QED BY <2>1, <2>2
          DEF Typed, LimiterTyped, AdmittedTyped, WInv, WidgetTyped, DailyTyped, SInv, SignInTyped,
              TypeOK
<1> QED BY <1>1, TypedAlways, SessionsAlways, PTL

-----------------------------------------------------------------------------
(* Revocation.  A token that anything refers to has been signed. *)

SignedOnly ==
    /\ \A j \in Jti : refresh[j] <= now + RefreshLife
    /\ \A t \in Tab : tab[t].jti \in Jti => refresh[tab[t].jti] > 0
    /\ \A j \in burned : refresh[j] > 0

DenyHolds == \A j \in burned : j \in DOMAIN denied /\ refresh[j] <= denied[j]

RInv == SignedOnly /\ DenyHolds

(* Only an issue changes what is signed, and it signs a token that was not.  *)
LEMMA Issues ==
    ASSUME Typed, SignInStep
    PROVE  \/ UNCHANGED refresh
           \/ \E j \in Jti : refresh[j] = 0 /\ refresh' = [refresh EXCEPT ![j] = now + RefreshLife]
BY DEF SignInStep, Register, Login, CreateAccount, Authenticate, StartRefresh, CheckDenylist,
       BurnToken, IssuePair, RefreshFails, Logout, IssueTokens

(* Only a trade or a logout revokes, one token at a time. *)
LEMMA Revokes ==
    ASSUME Typed, SignInStep
    PROVE  \/ UNCHANGED <<denied, burned, raced>>
           \/ \E t \in Tab, j \in Jti :
                /\ Burns(j, t) /\ UNCHANGED <<refresh, heirs>>
                /\ \/ tab[t].step = "burning" /\ tab[t].jti = j /\ TabGoes(t, "issuing")
                   \/ tab[t].step = "idle" /\ Unexpired(j) /\ UNCHANGED tab
<1>1. ASSUME NEW t \in Tab, BurnToken(t)
      PROVE  /\ tab[t].jti \in Jti /\ Burns(tab[t].jti, t) /\ UNCHANGED <<refresh, heirs>>
             /\ tab[t].step = "burning" /\ TabGoes(t, "issuing")
  BY <1>1 DEF BurnToken, TabAt, Typed, SInv, Trading
<1>2. ASSUME NEW t \in Tab, Logout(t)
      PROVE  \/ UNCHANGED <<denied, burned, raced>>
             \/ /\ cookie \in Jti /\ Burns(cookie, t) /\ UNCHANGED <<refresh, heirs>>
                /\ tab[t].step = "idle" /\ Unexpired(cookie) /\ UNCHANGED tab
  BY <1>2 DEF Logout, TabAt, Typed, SInv, SignInTyped
<1>3. ASSUME NEW t \in Tab,
             \/ \E u \in Account : Register(t, u) \/ Login(t, u)
             \/ CreateAccount(t) \/ Authenticate(t)
             \/ StartRefresh(t) \/ CheckDenylist(t) \/ IssuePair(t) \/ RefreshFails(t)
      PROVE  UNCHANGED <<denied, burned, raced>>
  BY <1>3 DEF Register, Login, CreateAccount, Authenticate, StartRefresh, CheckDenylist,
              IssuePair, RefreshFails
<1> QED BY <1>1, <1>2, <1>3 DEF SignInStep

(* A tab begins to trade only a token that is valid, and keeps it to the end. *)
LEMMA Trades ==
    ASSUME Typed, SignInStep, NEW s \in Tab, tab'[s].jti \in Jti
    PROVE  \/ tab[s].jti = tab'[s].jti
           \/ /\ tab'[s].jti = cookie /\ Unexpired(cookie) /\ tab'[s].step = "checking"
              /\ UNCHANGED <<refresh, denied, burned, raced, heirs>>
<1>0. /\ tab \in [Tab -> [step : TabStep, account : SUBSET Account, jti : Jti \cup {NoToken}]]
      /\ NoToken \notin Jti
  BY SignInAssumption DEF Typed, SInv, SignInTyped
<1>1. ASSUME NEW t \in Tab, TabDone(t) PROVE tab[s].jti = tab'[s].jti
  BY <1>0, <1>1 DEF TabDone, NoTab
<1>2. ASSUME NEW t \in Tab, NEW step, TabGoes(t, step) PROVE tab[s].jti = tab'[s].jti
  BY <1>0, <1>2 DEF TabGoes
<1>3. ASSUME NEW t \in Tab, NEW u \in Account, Register(t, u) \/ Login(t, u)
      PROVE  tab[s].jti = tab'[s].jti
  BY <1>0, <1>3 DEF Register, Login, NoTab
<1>4. ASSUME NEW t \in Tab, StartRefresh(t)
      PROVE  \/ tab[s].jti = tab'[s].jti
             \/ /\ tab'[s].jti = cookie /\ Unexpired(cookie) /\ tab'[s].step = "checking"
                /\ UNCHANGED <<refresh, denied, burned, raced, heirs>>
  BY <1>0, <1>4 DEF StartRefresh, NoTab
<1>5. ASSUME NEW t \in Tab, Logout(t) PROVE tab[s].jti = tab'[s].jti
  BY <1>5 DEF Logout
<1> QED BY <1>1, <1>2, <1>3, <1>4, <1>5
        DEF SignInStep, CreateAccount, Authenticate, CheckDenylist, BurnToken, IssuePair, RefreshFails

LEMMA SignedStep ==
    ASSUME Typed, SignedOnly, SignInStep, UNCHANGED now
    PROVE  SignedOnly'
<1>0. now \in Nat /\ RefreshLife \in Nat /\ refresh \in [Jti -> Nat] /\ burned \subseteq Jti
  BY Sizes, SignInAssumption DEF Typed, LimiterTyped, SInv, SignInTyped
<1>1. \A j \in Jti : refresh'[j] = refresh[j] \/ (refresh[j] = 0 /\ refresh'[j] = now + RefreshLife)
  BY <1>0, Issues
<1>2. \A j \in Jti : refresh'[j] <= now + RefreshLife
  BY <1>0, <1>1 DEF SignedOnly
<1>3. \A j \in Jti : refresh[j] > 0 => refresh'[j] > 0
  BY <1>0, <1>1
<1>4. ASSUME NEW s \in Tab, tab'[s].jti \in Jti PROVE refresh'[tab'[s].jti] > 0
  <2>1. refresh[tab'[s].jti] > 0
    BY <1>0, <1>4, Trades DEF SignedOnly, Unexpired
  <2> QED BY <1>3, <1>4, <2>1
<1>5. ASSUME NEW j \in burned' PROVE refresh'[j] > 0
  <2>1. j \in burned \/ (Unexpired(j) /\ j \in Jti) \/ \E t \in Tab : tab[t].jti = j /\ j \in Jti
    BY <1>5, Revokes DEF Burns
  <2>2. refresh[j] > 0 /\ j \in Jti
    BY <1>0, <2>1 DEF SignedOnly, Unexpired
  <2> QED BY <1>3, <2>2
<1> QED BY <1>2, <1>4, <1>5 DEF SignedOnly

LEMMA DenyStep ==
    ASSUME Typed, SignedOnly, DenyHolds, SignInStep
    PROVE  DenyHolds'
<1>0. /\ now \in Nat /\ RefreshLife \in Nat /\ refresh \in [Jti -> Nat] /\ burned \subseteq Jti
      /\ SInv
  BY Sizes, SignInAssumption DEF Typed, LimiterTyped, SInv, SignInTyped
<1>1. \A j \in burned : refresh'[j] = refresh[j]
  BY <1>0, Issues DEF SignedOnly
<1>2. CASE UNCHANGED <<denied, burned, raced>>
  BY <1>1, <1>2 DEF DenyHolds
<1>3. ASSUME NEW t \in Tab, NEW j \in Jti, Burns(j, t), UNCHANGED refresh
      PROVE  DenyHolds'
  <2>1. /\ DOMAIN denied' = DOMAIN denied \cup {j}
        /\ denied'[j] = now + RefreshLife
        /\ \A i \in DOMAIN denied \ {j} : denied'[i] = denied[i]
    BY <1>0, <1>3, BurnTyped
  <2>2. burned' = burned \cup {j}
    BY <1>3 DEF Burns
  <2>3. ASSUME NEW i \in burned' PROVE i \in DOMAIN denied' /\ refresh[i] <= denied'[i]
    <3>1. CASE i = j
      BY <2>1, <3>1 DEF SignedOnly
    <3>2. CASE i # j
      <4>1. i \in burned
        BY <2>2, <2>3, <3>2
      <4> QED BY <2>1, <3>2, <4>1 DEF DenyHolds
    <3> QED BY <3>1, <3>2
  <2> QED BY <1>3, <2>3 DEF DenyHolds
<1> QED BY <1>2, <1>3, Revokes

LEMMA RevocationNext == Typed /\ RInv /\ [Next]_vars => RInv'
<1> SUFFICES ASSUME Typed, RInv, [Next]_vars PROVE RInv'
  OBVIOUS
<1>0. SignedOnly /\ DenyHolds /\ now \in Nat /\ RefreshLife \in Nat /\ refresh \in [Jti -> Nat]
  BY Sizes, SignInAssumption DEF RInv, Typed, LimiterTyped, SInv, SignInTyped
<1>1. CASE SignInStep
  <2>1. UNCHANGED now
    BY <1>1, SignInCounts, AllCount, CountsKeepTime DEF limiterVars
  <2> QED BY <1>0, <1>1, <2>1, SignedStep, DenyStep DEF RInv
<1>2. CASE UNCHANGED signInVars
  <2>1. now' \in Nat /\ now <= now'
    BY <1>0, LimiterMoves, CountsKeepTime DEF Tick, limiterVars
  <2> QED BY <1>0, <1>2, <2>1 DEF signInVars, RInv, SignedOnly, DenyHolds
<1> QED BY <1>1, <1>2 DEF Next, vars

LEMMA RevocationInit == Init => RInv
<1> SUFFICES ASSUME Init PROVE RInv
  OBVIOUS
<1>1. \A t \in Tab : tab[t].jti \notin Jti
  BY SignInAssumption DEF Init, SignInInit, NoTab
<1>2. now + RefreshLife \in Nat /\ \A j \in Jti : refresh[j] = 0
  BY SignInAssumption DEF Init, LimiterInit, SignInInit
<1> QED BY <1>1, <1>2 DEF Init, SignInInit, RInv, SignedOnly, DenyHolds

LEMMA RevocationAlways == Spec => [](Typed /\ RInv)
<1>1. Spec => []RInv
  BY RevocationInit, RevocationNext, TypedAlways, PTL DEF Spec
<1> QED BY <1>1, TypedAlways, PTL

LEMMA RevokedStays == ASSUME Typed, RInv PROVE RevokedStaysRevoked
<1> SUFFICES ASSUME NEW j \in burned, Unexpired(j) PROVE Denied(j)
  BY DEF RevokedStaysRevoked
<1>1. j \in Jti /\ refresh[j] \in Nat /\ now \in Nat
  BY Sizes DEF Typed, LimiterTyped, SInv, SignInTyped
<1>2. j \in DOMAIN denied /\ refresh[j] <= denied[j] /\ denied[j] \in Nat
  BY DEF RInv, DenyHolds, Typed, SInv, SignInTyped
<1> QED BY <1>1, <1>2 DEF Denied, Unexpired

(* The denylist forgets a revoked refresh token only when the token is no longer *)
(* valid by itself, however its revocation, other trades and time interleave.   *)
THEOREM RevokedIsRefused == Spec => []RevokedStaysRevoked
BY RevocationAlways, RevokedStays, PTL

-----------------------------------------------------------------------------
(* The heirs of a token.  Of a valid token that no two tabs traded at once,  *)
(* at most one tab holds the right to issue, and it has not yet issued.      *)

Issuing(t, j) == tab[t].jti = j /\ tab[t].step = "issuing"

Lineage(j) ==
    /\ \A t \in Tab : Issuing(t, j) => j \in burned /\ heirs[j] = {}
    /\ \A s, t \in Tab : Issuing(s, j) /\ Issuing(t, j) => s = t
    /\ j \in burned => \A t \in Tab : tab[t].jti = j => tab[t].step # "burning"
    /\ j \notin burned => heirs[j] = {}
    /\ \A x, y \in heirs[j] : x = y

HInv ==
    /\ \A j \in Jti : heirs[j] # {} => refresh[j] > 0
    /\ \A j \in Jti \ raced : Unexpired(j) => Lineage(j)

(* Who will burn or issue is who was going to, except by the three steps below. *)
Unmoved == \A s \in Tab : tab'[s].step \in {"burning", "issuing"} => tab'[s] = tab[s]

LEMMA Quiet ==
    ASSUME Typed, RInv, HInv, SignInStep, UNCHANGED <<now, burned, raced, heirs>>, Unmoved
    PROVE  HInv'
<1>0. /\ now \in Nat /\ RefreshLife \in Nat /\ refresh \in [Jti -> Nat] /\ SignedOnly
  BY Sizes, SignInAssumption DEF RInv, Typed, LimiterTyped, SInv, SignInTyped
<1>1. \A j \in Jti : refresh'[j] = refresh[j] \/ refresh[j] = 0
  BY <1>0, Issues
<1>2. \A j \in Jti : heirs'[j] # {} => refresh'[j] > 0
  BY <1>0, <1>1 DEF HInv
<1>3. ASSUME NEW j \in Jti \ raced, Unexpired(j)' PROVE Lineage(j)'
  <2>1. CASE refresh'[j] = refresh[j]
    <3>1. Lineage(j)
      BY <1>3, <2>1 DEF HInv, Unexpired
    <3> QED BY <3>1 DEF Lineage, Issuing, Unmoved
  <2>2. CASE refresh[j] = 0
    <3>1. j \notin burned /\ heirs[j] = {} /\ \A t \in Tab : tab[t].jti # j
      BY <1>0, <2>2 DEF SignedOnly, HInv
    <3> QED BY <3>1 DEF Lineage, Issuing, Unmoved
  <2> QED BY <1>1, <2>1, <2>2
<1> QED BY <1>2, <1>3 DEF HInv

LEMMA UnmovedSteps ==
    ASSUME Typed, NEW t \in Tab,
           \/ \E u \in Account : Register(t, u) \/ Login(t, u)
           \/ CreateAccount(t) \/ Authenticate(t) \/ StartRefresh(t) \/ RefreshFails(t)
           \/ CheckDenylist(t) /\ TabDone(t)
    PROVE  Unmoved /\ UNCHANGED <<burned, raced, heirs>>
<1>0. tab \in [Tab -> [step : TabStep, account : SUBSET Account, jti : Jti \cup {NoToken}]]
  BY DEF Typed, SInv, SignInTyped
<1>1. TabDone(t) => Unmoved
  BY <1>0 DEF TabDone, NoTab, Unmoved
<1>2. ASSUME NEW u \in Account, Register(t, u) \/ Login(t, u) PROVE Unmoved
  BY <1>0, <1>2 DEF Register, Login, NoTab, Unmoved
<1>3. StartRefresh(t) => Unmoved
  BY <1>0 DEF StartRefresh, NoTab, Unmoved
<1> QED BY <1>1, <1>2, <1>3
        DEF Register, Login, CreateAccount, Authenticate, StartRefresh, RefreshFails, CheckDenylist

(* The look into the denylist: who goes on to burn found the token unburned. *)
LEMMA ChecksOut ==
    ASSUME Typed, RInv, HInv, NEW t \in Tab, CheckDenylist(t), ~ Denied(tab[t].jti), TabGoes(t, "burning"),
           UNCHANGED now
    PROVE  HInv'
<1>0. tab \in [Tab -> [step : TabStep, account : SUBSET Account, jti : Jti \cup {NoToken}]]
  BY DEF Typed, SInv, SignInTyped
<1>1. /\ tab'[t].step = "burning" /\ tab'[t].jti = tab[t].jti
      /\ \A s \in Tab \ {t} : tab'[s] = tab[s]
  BY <1>0 DEF TabGoes
<1>2. UNCHANGED <<refresh, burned, raced, heirs>>
  BY DEF CheckDenylist
<1>3. ASSUME NEW j \in Jti \ raced, Unexpired(j) PROVE Lineage(j)'
  <2>1. Lineage(j)
    BY <1>3 DEF HInv
  <2>2. tab[t].jti = j => j \notin burned
    BY <1>3, RevokedStays DEF RevokedStaysRevoked
  <2> QED BY <1>1, <1>2, <2>1, <2>2 DEF Lineage, Issuing
<1> QED BY <1>2, <1>3 DEF HInv, Unexpired

(* A token is revoked by a trade or a logout: it was not burned, or another  *)
(* tab still held it.                                                        *)
LEMMA BurnsOnce ==
    ASSUME Typed, RInv, HInv, NEW t \in Tab, NEW j \in Jti, Burns(j, t), UNCHANGED <<now, refresh, heirs>>,
           \/ tab[t].step = "burning" /\ tab[t].jti = j /\ TabGoes(t, "issuing")
           \/ tab[t].step = "idle" /\ Unexpired(j) /\ UNCHANGED tab
    PROVE  HInv'
<1>0. /\ tab \in [Tab -> [step : TabStep, account : SUBSET Account, jti : Jti \cup {NoToken}]]
      /\ tab[t].step = "idle" => tab[t].jti \notin Jti
  BY DEF Typed, SInv, SignInTyped, Trading
<1>1. /\ burned' = burned \cup {j} /\ raced \subseteq raced'
      /\ j \notin raced' => \A s \in Tab \ {t} : tab[s].jti # j
  BY DEF Burns
<1>2. \A s \in Tab \ {t} : tab'[s] = tab[s]
  BY <1>0 DEF TabGoes
<1>3. ASSUME NEW i \in Jti \ raced', Unexpired(i) PROVE Lineage(i)'
  <2>1. Lineage(i)
    BY <1>1, <1>3 DEF HInv
  <2>2. CASE i # j
    <3>1. tab'[t].jti = tab[t].jti
      BY <1>0 DEF TabGoes
    <3>2. tab'[t].jti # i \/ UNCHANGED tab
      BY <2>2, <3>1
    <3> QED BY <1>1, <1>2, <2>1, <2>2, <3>1, <3>2 DEF Lineage, Issuing
  <2>3. CASE i = j
    <3>1. \A s \in Tab \ {t} : tab'[s].jti # i
      BY <1>1, <1>2, <1>3, <2>3
    <3>2. CASE UNCHANGED tab /\ tab[t].step = "idle"
      <4>1. tab'[t].jti # i
        BY <1>0, <3>2
      <4> QED BY <1>1, <2>1, <2>3, <3>1, <4>1 DEF Lineage, Issuing
    <3>3. CASE tab[t].step = "burning" /\ tab[t].jti = j /\ TabGoes(t, "issuing")
      <4>1. tab'[t].step = "issuing"
        BY <1>0, <3>3 DEF TabGoes
      <4>2. heirs[i] = {}
        BY <2>1, <2>3, <3>3 DEF Lineage
      <4> QED BY <1>1, <2>3, <3>1, <4>1, <4>2 DEF Lineage, Issuing
    <3> QED BY <3>2, <3>3
  <2> QED BY <2>2, <2>3
<1> QED BY <1>3 DEF HInv, Unexpired

LEMMA IssuesOnce ==
    ASSUME Typed, RInv, HInv, NEW t \in Tab, IssuePair(t), UNCHANGED now
    PROVE  HInv'
<1>0. /\ tab \in [Tab -> [step : TabStep, account : SUBSET Account, jti : Jti \cup {NoToken}]]
      /\ now \in Nat /\ RefreshLife \in Nat /\ refresh \in [Jti -> Nat]
      /\ heirs \in [Jti -> SUBSET Jti] /\ SignedOnly
  BY Sizes, SignInAssumption DEF RInv, Typed, LimiterTyped, SInv, SignInTyped
<1>1. PICK n \in Jti : /\ IssueTokens(n)
                       /\ heirs' = [heirs EXCEPT ![tab[t].jti] = heirs[tab[t].jti] \cup {n}]
  BY DEF IssuePair
<1>2. tab[t].jti \in Jti /\ tab[t].step = "issuing" /\ UNCHANGED <<burned, raced>>
  BY DEF IssuePair, TabAt, Typed, SInv, Trading
<1>3. tab'[t].step = "idle" /\ \A s \in Tab \ {t} : tab'[s] = tab[s]
  BY <1>0 DEF IssuePair, TabDone, NoTab
<1>4. refresh[n] = 0 /\ refresh' = [refresh EXCEPT ![n] = now + RefreshLife]
  BY <1>1 DEF IssueTokens
<1>5. refresh[tab[t].jti] > 0
  BY <1>0, <1>2 DEF SignedOnly
<1>6. n \notin burned /\ heirs[n] = {} /\ \A s \in Tab : tab[s].jti # n
  BY <1>0, <1>4 DEF SignedOnly, HInv
<1>7. \A j \in Jti : heirs'[j] # {} => refresh'[j] > 0
  <2>1. \A j \in Jti : heirs'[j] # {} => refresh[j] > 0
    BY <1>0, <1>1, <1>5 DEF HInv
  <2>2. \A j \in Jti : refresh[j] > 0 => refresh'[j] = refresh[j]
    BY <1>0, <1>4
  <2> QED BY <2>1, <2>2
<1>8. ASSUME NEW j \in Jti \ raced, Unexpired(j)' PROVE Lineage(j)'
  <2>1. CASE j = n
    <3>1. heirs'[j] = {} /\ \A s \in Tab : ~ Issuing(s, j)'
      BY <1>0, <1>1, <1>2, <1>3, <1>6, <2>1 DEF Issuing
    <3> QED BY <1>2, <1>6, <2>1, <3>1 DEF Lineage
  <2>2. CASE j # n
    <3>1. Lineage(j)
      BY <1>0, <1>4, <1>8, <2>2 DEF HInv, Unexpired
    <3>2. CASE j = tab[t].jti
      <4>1. heirs[j] = {} /\ j \in burned /\ \A s \in Tab \ {t} : ~ Issuing(s, j)
        BY <1>2, <3>1, <3>2 DEF Lineage, Issuing
      <4>2. heirs'[j] = {n} /\ \A s \in Tab : ~ Issuing(s, j)'
        BY <1>0, <1>1, <1>3, <3>2, <4>1 DEF Issuing
      <4> QED BY <1>2, <1>3, <3>1, <4>1, <4>2 DEF Lineage
    <3>3. CASE j # tab[t].jti
      <4>1. heirs'[j] = heirs[j]
        BY <1>0, <1>1, <3>3
      <4> QED BY <1>2, <1>3, <3>1, <4>1 DEF Lineage, Issuing
    <3> QED BY <3>2, <3>3
  <2> QED BY <2>1, <2>2
<1> QED BY <1>2, <1>7, <1>8 DEF HInv

LEMMA HeirsNext == Typed /\ RInv /\ HInv /\ [Next]_vars => HInv'
<1> SUFFICES ASSUME Typed, RInv, HInv, [Next]_vars PROVE HInv'
  OBVIOUS
<1>1. CASE SignInStep
  <2>0. UNCHANGED now
    BY <1>1, SignInCounts, AllCount, CountsKeepTime DEF limiterVars
  <2>1. ASSUME NEW t \in Tab,
               \/ \E u \in Account : Register(t, u) \/ Login(t, u)
               \/ CreateAccount(t) \/ Authenticate(t) \/ StartRefresh(t) \/ RefreshFails(t)
               \/ CheckDenylist(t) /\ TabDone(t)
        PROVE  HInv'
    BY <1>1, <2>0, <2>1, UnmovedSteps, Quiet
  <2>2. ASSUME NEW t \in Tab, CheckDenylist(t), ~ TabDone(t) PROVE HInv'
    BY <2>0, <2>2, ChecksOut DEF CheckDenylist
  <2>3. ASSUME NEW t \in Tab, BurnToken(t) \/ Logout(t) PROVE HInv'
    <3>1. CASE BurnToken(t)
      <4>1. /\ tab[t].jti \in Jti /\ Burns(tab[t].jti, t) /\ UNCHANGED <<refresh, heirs>>
            /\ tab[t].step = "burning" /\ TabGoes(t, "issuing")
        BY <3>1 DEF BurnToken, TabAt, Typed, SInv, Trading
      <4> QED BY <2>0, <4>1, BurnsOnce
    <3>2. CASE Logout(t)
      <4>1. CASE UNCHANGED <<denied, burned, raced>>
        BY <1>1, <2>0, <3>2, <4>1, Quiet DEF Logout, Unmoved
      <4>2. CASE Unexpired(cookie) /\ Burns(cookie, t)
        <5>1. cookie \in Jti /\ tab[t].step = "idle" /\ UNCHANGED <<refresh, heirs, tab>>
          BY <3>2 DEF Logout, TabAt, Typed, SInv, SignInTyped
        <5> QED BY <2>0, <4>2, <5>1, BurnsOnce
      <4> QED BY <3>2, <4>1, <4>2 DEF Logout
    <3> QED BY <2>3, <3>1, <3>2
  <2>4. ASSUME NEW t \in Tab, IssuePair(t) PROVE HInv'
    BY <2>0, <2>4, IssuesOnce
  <2> QED BY <1>1, <2>1, <2>2, <2>3, <2>4 DEF SignInStep
<1>2. CASE UNCHANGED signInVars
  <2>1. now \in Nat /\ now' \in Nat /\ now <= now' /\ refresh \in [Jti -> Nat]
    BY Sizes, LimiterMoves, CountsKeepTime
       DEF Typed, LimiterTyped, SInv, SignInTyped, Tick, limiterVars
  <2>2. \A j \in Jti : Unexpired(j)' => Unexpired(j)
    BY <1>2, <2>1 DEF signInVars, Unexpired
  <2> QED BY <1>2, <2>2 DEF signInVars, HInv, Lineage, Issuing
<1> QED BY <1>1, <1>2 DEF Next, vars

LEMMA HeirsInit == Init => HInv
<1> SUFFICES ASSUME Init PROVE HInv
  OBVIOUS
<1>1. now \in Nat /\ \A j \in Jti : refresh[j] = 0 /\ heirs[j] = {}
  BY DEF Init, LimiterInit, SignInInit
<1> QED BY <1>1 DEF HInv, Unexpired

(* While it is valid a refresh token is traded at most once, unless two tabs   *)
(* held it when it was revoked: the denylist separates every other pair of    *)
(* trades, although it is read long before it is written.                     *)
THEOREM TradedOnce == Spec => []OneHeirUnlessRaced
<1>1. Typed /\ HInv => OneHeirUnlessRaced
  <2> SUFFICES ASSUME Typed, HInv, NEW j \in Jti \ raced, Unexpired(j)
               PROVE  Cardinality(heirs[j]) <= 1
    BY DEF OneHeirUnlessRaced
  <2>1. \A x, y \in heirs[j] : x = y
    BY DEF HInv, Lineage
  <2>2. CASE heirs[j] = {}
    BY <2>2, FS_EmptySet
  <2>3. ASSUME NEW x \in heirs[j] PROVE Cardinality(heirs[j]) <= 1
    <3>1. heirs[j] = {x}
      BY <2>1, <2>3
    <3>2. Cardinality({x}) = 1
      BY FS_Singleton
    <3> QED BY <3>1, <3>2
  <2> QED BY <2>2, <2>3
<1> QED BY <1>1, HeirsInit, HeirsNext, RevocationAlways, PTL DEF Spec

-----------------------------------------------------------------------------
(* Visitors.  An id belongs to the browser that was given it: whatever names *)
(* it, the browser's token, a call it still has under way, a conversation it *)
(* began, names the id of no other browser.                                  *)

Belongs(v, b) ==
    \/ token[b] # None /\ token[b].visitor = v
    \/ call[b].visitor = v
    \/ \E k \in Conversation : conversation[k] # None /\ conversation[k].visitor = v
                               /\ conversation[k].browser = b

OneBrowser == \A v \in Visitor, b, c \in Browser : Belongs(v, b) /\ Belongs(v, c) => b = c

GivenOut == \A v \in Visitor, b \in Browser : Belongs(v, b) => v \in minted

Served == {"handed", "stream"}

(* The conversation of a turn under way is the visitor's own, or one that no *)
(* other turn under way has.                                                 *)
CallsOwn(b) ==
    LET k == call[b].conv IN
    /\ call[b].step \in Served /\ conversation[k] = None =>
          \A c \in Browser \ {b} : call[c].conv = k => call[c].step \notin Served
    /\ call[b].step \in Served /\ conversation[k] # None =>
          conversation[k].browser = b /\ conversation[k].visitor = call[b].visitor

VInv == OneBrowser /\ GivenOut /\ \A b \in Browser : CallsOwn(b)

LEMMA VisitorsApart == ASSUME Typed, VInv PROVE VisitorsAreApart
<1> SUFFICES ASSUME NEW b \in Browser
             PROVE  /\ Valid(b) => \A k \in Latest(b) : conversation[k].browser = b
                    /\ CallsOwn(b)
  BY DEF VisitorsAreApart, CallsOwn, Served
<1>1. ASSUME Valid(b), NEW k \in Latest(b) PROVE conversation[k].browser = b
  <2>1. token[b] \in Token /\ token[b] # None
    BY <1>1, WidgetAssumption DEF Valid, Typed, WInv, WidgetTyped, Token
  <2>2. /\ k \in Conversation /\ conversation[k] # None
        /\ conversation[k].visitor = token[b].visitor
    BY <1>1 DEF Latest, Own
  <2>3. conversation[k] \in Stored
    BY <2>2 DEF Typed, WInv, WidgetTyped
  <2>4. /\ Belongs(token[b].visitor, b) /\ Belongs(token[b].visitor, conversation[k].browser)
        /\ token[b].visitor \in Visitor /\ conversation[k].browser \in Browser
    BY <2>1, <2>2, <2>3 DEF Belongs, Token, Stored
  <2> QED BY <2>4 DEF VInv, OneBrowser
<1> QED BY <1>1 DEF VInv

(* A step that makes an id belong to nobody it did not belong to, and neither *)
(* stores a conversation nor starts a stream.                                *)
Narrows == \A v \in Visitor, b \in Browser : Belongs(v, b)' => Belongs(v, b)

LEMMA NarrowsKeeps ==
    ASSUME OneBrowser, GivenOut, Narrows, minted \subseteq minted'
    PROVE  OneBrowser' /\ GivenOut'
BY DEF OneBrowser, GivenOut, Narrows

(* The call of b is over, or goes on to a step before its turn is served. *)
LEMMA CallMoves ==
    ASSUME Typed, VInv, NEW b \in Browser, UNCHANGED <<token, minted, conversation>>,
           \A c \in Browser \ {b} : call'[c] = call[c],
           call'[b].visitor \in {None, call[b].visitor}
              \/ (token[b] # None /\ call'[b].visitor = token[b].visitor),
           call'[b].step \notin Served
    PROVE  VInv'
<1>0. None \notin Visitor
  BY WidgetAssumption
<1>1. Narrows
  BY <1>0 DEF Narrows, Belongs
<1>2. ASSUME NEW c \in Browser PROVE CallsOwn(c)'
  <2>1. CASE c = b
    BY <2>1 DEF CallsOwn
  <2>2. CASE c # b
    <3>1. CallsOwn(c) /\ call'[c] = call[c]
      BY <2>2 DEF VInv
    <3> QED BY <3>1 DEF CallsOwn
  <2> QED BY <2>1, <2>2
<1> QED BY <1>1, <1>2, NarrowsKeeps DEF VInv

LEMMA OverApart ==
    ASSUME Typed, VInv, NEW b \in Browser, Over(b), UNCHANGED <<token, minted, conversation>>
    PROVE  VInv'
<1>1. /\ call'[b] = NoCall /\ \A c \in Browser \ {b} : call'[c] = call[c]
  BY DEF Over, Typed, WInv, WidgetTyped
<1>2. NoCall.visitor = None /\ NoCall.step \notin Served
  BY DEF NoCall, Served
<1> QED BY <1>1, <1>2, CallMoves

LEMMA StepApart ==
    ASSUME Typed, VInv, NEW b \in Browser, UNCHANGED <<token, minted, conversation>>,
           NEW c, call' = [call EXCEPT ![b] = c],
           c.visitor = call[b].visitor, c.step \notin Served
    PROVE  VInv'
<1>1. call'[b] = c /\ \A d \in Browser \ {b} : call'[d] = call[d]
  BY DEF Typed, WInv, WidgetTyped
<1> QED BY <1>1, CallMoves

(* The body of the response begins. *)
LEMMA BeginApart ==
    ASSUME Typed, VInv, NEW b \in Browser, Begin(b)
    PROVE  VInv'
<1> DEFINE c == [call[b] EXCEPT !.step = "stream"]
<1>1. /\ call[b] \in Waiting /\ call[b].step = "handed" /\ call' = [call EXCEPT ![b] = c]
      /\ UNCHANGED <<token, minted, conversation>>
  BY DEF Begin, Goes, At, Typed, WInv, WidgetTyped
<1>2. c.step = "stream" /\ c.visitor = call[b].visitor /\ c.conv = call[b].conv
  BY <1>1 DEF Waiting
<1> HIDE DEF c
<1>3. call'[b] = c /\ \A d \in Browser \ {b} : call'[d] = call[d]
  BY <1>1 DEF Typed, WInv, WidgetTyped
<1>4. \A d \in Browser : /\ call'[d].visitor = call[d].visitor /\ call'[d].conv = call[d].conv
                         /\ call'[d].step \in Served <=> call[d].step \in Served
  BY <1>1, <1>2, <1>3 DEF Served
<1>5. Narrows
  BY <1>1, <1>4 DEF Narrows, Belongs
<1>6. \A d \in Browser : CallsOwn(d)'
  BY <1>1, <1>4 DEF VInv, CallsOwn
<1> QED BY <1>1, <1>5, <1>6, NarrowsKeeps DEF VInv

(* b is given an id: its own again, or one nobody was given. *)
LEMMA GiveApart ==
    ASSUME Typed, VInv, NEW b \in Browser, NEW a \in Agent, NEW v \in Visitor, Give(b, a, v),
           UNCHANGED conversation,
           \A c \in Browser :
              /\ call'[c].visitor = call[c].visitor /\ call'[c].conv = call[c].conv
              /\ call'[c].step \in Served <=> call[c].step \in Served,
           \/ Valid(b) /\ v = token[b].visitor /\ UNCHANGED minted
           \/ v \notin minted /\ minted' = minted \cup {v}
    PROVE  VInv'
<1>0. token \in [Browser -> Token \cup {None}] /\ None \notin Visitor
  BY WidgetAssumption DEF Typed, WInv, WidgetTyped
<1>1. /\ token'[b].visitor = v /\ \A c \in Browser \ {b} : token'[c] = token[c]
  BY <1>0 DEF Give
<1>2. ASSUME NEW w \in Visitor, NEW c \in Browser, Belongs(w, c)'
      PROVE  Belongs(w, c) \/ (c = b /\ w = v)
  BY <1>1, <1>2 DEF Belongs
<1>3. OneBrowser' /\ GivenOut'
  <2>1. CASE Valid(b) /\ v = token[b].visitor /\ UNCHANGED minted
    <3>1. Belongs(v, b)
      BY <2>1 DEF Belongs, Valid
    <3>2. Narrows
      BY <1>2, <3>1 DEF Narrows
    <3> QED BY <2>1, <3>2, NarrowsKeeps DEF VInv
  <2>2. CASE v \notin minted /\ minted' = minted \cup {v}
    <3>1. \A c \in Browser : ~ Belongs(v, c)
      BY <2>2 DEF VInv, GivenOut
    <3>2. OneBrowser'
      <4> SUFFICES ASSUME NEW w \in Visitor, NEW c \in Browser, NEW d \in Browser,
                          Belongs(w, c)', Belongs(w, d)'
                   PROVE  c = d
        BY DEF OneBrowser
      <4>1. CASE w = v
        BY <1>2, <3>1, <4>1
      <4>2. CASE w # v
        <5>1. Belongs(w, c) /\ Belongs(w, d)
          BY <1>2, <4>2
        <5> QED BY <5>1 DEF VInv, OneBrowser
      <4> QED BY <4>1, <4>2
    <3>3. GivenOut'
      <4> SUFFICES ASSUME NEW w \in Visitor, NEW c \in Browser, Belongs(w, c)' PROVE w \in minted'
        BY DEF GivenOut
      <4>1. Belongs(w, c) => w \in minted
        BY DEF VInv, GivenOut
      <4> QED BY <1>2, <2>2, <4>1
    <3> QED BY <3>2, <3>3
  <2> QED BY <2>1, <2>2
<1>4. \A c \in Browser : CallsOwn(c)'
  BY DEF VInv, CallsOwn
<1> QED BY <1>3, <1>4 DEF VInv

LEMMA CreateSessionApart ==
    ASSUME Typed, VInv, NEW b \in Browser, NEW a \in Agent, CreateSession(b, a)
    PROVE  VInv'
<1>1. CASE Valid(b) /\ Give(b, a, token[b].visitor) /\ UNCHANGED call
  <2>1. token[b].visitor \in Visitor
    BY <1>1 DEF Valid, Typed, WInv, WidgetTyped, Token
  <2>2. UNCHANGED <<conversation, minted>>
    BY DEF CreateSession
  <2> QED BY <1>1, <2>1, <2>2, GiveApart
<1>2. CASE /\ call' = [call EXCEPT ![b] = [NoCall EXCEPT !.step = "mint", !.agent = a]]
           /\ UNCHANGED token
  <2> DEFINE c == [NoCall EXCEPT !.step = "mint", !.agent = a]
  <2>1. call[b].visitor = None
    BY DEF CreateSession, At, Typed, WInv, CallTyped
  <2>2. c.visitor = None /\ c.step \notin Served
    BY DEF NoCall, Served
  <2>3. call' = [call EXCEPT ![b] = c] /\ UNCHANGED <<token, minted, conversation>>
    BY <1>2 DEF CreateSession
  <2> HIDE DEF c
  <2> QED BY <2>1, <2>2, <2>3, StepApart
<1> QED BY <1>1, <1>2 DEF CreateSession

LEMMA MintApart ==
    ASSUME Typed, VInv, NEW b \in Browser, MintVisitor(b)
    PROVE  VInv'
<1>0. WidgetTyped /\ Over(b) /\ UNCHANGED conversation
  BY DEF MintVisitor, Typed, WInv
<1>1. CASE UNCHANGED <<token, minted>>
  BY <1>0, <1>1, OverApart
<1>2. ASSUME NEW v \in Visitor \ minted, Give(b, call[b].agent, v), minted' = minted \cup {v}
      PROVE  VInv'
  <2>1. /\ call[b].visitor = None /\ call[b].conv = None /\ call[b].step = "mint"
        /\ call[b].agent \in Agent
    BY DEF MintVisitor, At, Typed, WInv, CallTyped
  <2>2. call'[b] = NoCall /\ \A c \in Browser \ {b} : call'[c] = call[c]
    BY <1>0 DEF Over, WidgetTyped
  <2>3. \A c \in Browser : /\ call'[c].visitor = call[c].visitor /\ call'[c].conv = call[c].conv
                           /\ call'[c].step \in Served <=> call[c].step \in Served
    BY <2>1, <2>2 DEF NoCall, Served
  <2> QED BY <1>0, <1>2, <2>1, <2>3, GiveApart
<1> QED BY <1>0, <1>1, <1>2, Minted

LEMMA SendApart ==
    ASSUME Typed, VInv, NEW b \in Browser, NEW k \in Conversation \cup {None}, Send(b, k)
    PROVE  VInv'
<1> DEFINE c == [NoCall EXCEPT !.step = "visitor", !.agent = token[b].agent,
                               !.visitor = token[b].visitor, !.conv = k]
<1>1. call' = [call EXCEPT ![b] = c] /\ UNCHANGED <<token, minted, conversation>>
  BY DEF Send
<1>2. c.visitor = token[b].visitor /\ c.step \notin Served
  BY DEF NoCall, Served
<1>3. token[b] # None
  BY DEF Send, Valid
<1> HIDE DEF c
<1>4. call'[b] = c /\ \A d \in Browser \ {b} : call'[d] = call[d]
  BY <1>1 DEF Typed, WInv, WidgetTyped
<1> QED BY <1>1, <1>2, <1>3, <1>4, CallMoves

LEMMA LimitApart ==
    ASSUME Typed, VInv, NEW b \in Browser,
           VisitorLimit(b) \/ IpLimit(b) \/ DailyCap(b) \/ LoadAvailable(b)
    PROVE  VInv'
<1>0. /\ call[b] \in Waiting /\ call \in [Browser -> Waiting]
      /\ UNCHANGED <<token, minted, conversation>>
  BY DEF VisitorLimit, IpLimit, DailyCap, LoadAvailable, Typed, WInv, WidgetTyped
<1>1. CASE Over(b)
  BY <1>0, <1>1, OverApart
<1>2. ASSUME NEW step \in {"ip", "load", "first"}, Goes(b, step) PROVE VInv'
  <2> DEFINE c == [call[b] EXCEPT !.step = step]
  <2>1. call' = [call EXCEPT ![b] = c]
    BY <1>2 DEF Goes
  <2>2. c.visitor = call[b].visitor /\ c.step \notin Served
    BY <1>0 DEF Waiting, Served
  <2> HIDE DEF c
  <2> QED BY <1>0, <2>1, <2>2, StepApart
<1>3. CASE Loads(b)
  <2> DEFINE c == [call[b] EXCEPT !.step = "cap", !.day = now \div DayLength,
                                  !.cap = widget[call[b].agent].cap]
  <2>1. call' = [call EXCEPT ![b] = c]
    BY <1>0, <1>3 DEF Loads
  <2>2. c.visitor = call[b].visitor /\ c.step \notin Served
    BY <1>0 DEF Waiting, Served
  <2> HIDE DEF c
  <2> QED BY <1>0, <2>1, <2>2, StepApart
<1> QED BY <1>1, <1>2, <1>3 DEF VisitorLimit, IpLimit, DailyCap, LoadAvailable, Ends

(* The turn begins: it goes on with a conversation of its own visitor, or    *)
(* begins one that nobody else names.                                        *)
LEMMA FirstEventApart ==
    ASSUME Typed, VInv, NEW b \in Browser, FirstEvent(b)
    PROVE  VInv'
<1>0. /\ call[b] \in Waiting /\ call \in [Browser -> Waiting] /\ call[b].step = "first"
      /\ conversation \in [Conversation -> Stored \cup {None}]
      /\ call[b].visitor \in Visitor /\ None \notin Conversation \cup Visitor
      /\ UNCHANGED <<token, minted, conversation>>
  BY WidgetAssumption DEF FirstEvent, At, Typed, WInv, WidgetTyped, CallTyped
<1>1. CASE Over(b)
  BY <1>0, <1>1, OverApart
<1>2. ASSUME NEW k \in Conversation, call'[b].step = "handed", call'[b].conv = k,
             call'[b].visitor = call[b].visitor, \A c \in Browser \ {b} : call'[c] = call[c],
             \/ MayContinue(b, k)
             \/ conversation[k] = None /\ \A c \in Browser : call[c].conv # k
      PROVE  VInv'
  <2>1. Narrows
    BY <1>0, <1>2 DEF Narrows, Belongs
  <2>2. CallsOwn(b)'
    <3>1. CASE MayContinue(b, k)
      <4>1. conversation[k] \in Stored /\ conversation[k].visitor = call[b].visitor
        BY <1>0, <3>1 DEF MayContinue
      <4>2. Belongs(call[b].visitor, b) /\ Belongs(call[b].visitor, conversation[k].browser)
            /\ conversation[k].browser \in Browser
        BY <3>1, <4>1 DEF Belongs, MayContinue, Stored
      <4>3. conversation[k].browser = b
        BY <1>0, <4>2 DEF VInv, OneBrowser
      <4> QED BY <1>0, <1>2, <3>1, <4>1, <4>3 DEF CallsOwn, MayContinue, Served
    <3>2. CASE conversation[k] = None /\ \A c \in Browser : call[c].conv # k
      BY <1>0, <1>2, <3>2 DEF CallsOwn
    <3> QED BY <1>2, <3>1, <3>2
  <2>3. ASSUME NEW c \in Browser \ {b} PROVE CallsOwn(c)'
    <3>1. CallsOwn(c) /\ call'[c] = call[c]
      BY <1>2 DEF VInv
    <3>2. ASSUME conversation[call[c].conv] = None
          PROVE  call'[b].conv # call[c].conv
      BY <1>0, <1>2, <3>2 DEF MayContinue
    <3> QED BY <1>0, <1>2, <3>1, <3>2 DEF CallsOwn
  <2> QED BY <1>0, <2>1, <2>2, <2>3, NarrowsKeeps DEF VInv
<1>3. CASE call[b].conv # None /\ MayContinue(b, call[b].conv) /\ Goes(b, "handed")
  <2>1. /\ call'[b].step = "handed" /\ call'[b].conv = call[b].conv
        /\ call'[b].visitor = call[b].visitor
        /\ \A c \in Browser \ {b} : call'[c] = call[c]
    BY <1>0, <1>3 DEF Goes, Waiting
  <2>2. call[b].conv \in Conversation
    BY <1>0, <1>3 DEF Waiting
  <2> QED BY <1>2, <1>3, <2>1, <2>2
<1>4. ASSUME NEW k \in Conversation, conversation[k] = None, \A c \in Browser : call[c].conv # k,
             call' = [call EXCEPT ![b].step = "handed", ![b].conv = k]
      PROVE  VInv'
  <2>1. /\ call'[b].step = "handed" /\ call'[b].conv = k
        /\ call'[b].visitor = call[b].visitor
        /\ \A c \in Browser \ {b} : call'[c] = call[c]
    BY <1>0, <1>4 DEF Waiting
  <2> QED BY <1>2, <1>4, <2>1
<1> QED BY <1>1, <1>3, <1>4 DEF FirstEvent, Ends

(* The turn commits: its conversation keeps its visitor and its browser. *)
LEMMA EndStreamApart ==
    ASSUME Typed, VInv, NEW b \in Browser, EndStream(b)
    PROVE  VInv'
<1> DEFINE k == call[b].conv
           v == call[b].visitor
<1>0. /\ call \in [Browser -> Waiting] /\ call[b].step = "stream" /\ k \in Conversation /\ v \in Visitor
      /\ conversation \in [Conversation -> Stored \cup {None}]
      /\ call[b].agent \in Agent
      /\ None \notin Conversation \cup Visitor
      /\ UNCHANGED <<token, minted>>
  BY WidgetAssumption DEF EndStream, At, Typed, WInv, WidgetTyped, CallTyped
<1>1. call'[b] = NoCall /\ \A c \in Browser \ {b} : call'[c] = call[c]
  BY <1>0 DEF EndStream, Ends, Over
<1>2. /\ conversation'[k].visitor = v /\ conversation'[k].browser = b
      /\ conversation'[k] \in Stored /\ conversation'[k] # None
      /\ \A j \in Conversation \ {k} : conversation'[j] = conversation[j]
  <2> DEFINE r == [agent |-> call[b].agent, visitor |-> v, at |-> now,
                   browser |-> IF conversation[k] = None THEN b ELSE conversation[k].browser]
  <2>1. conversation[k] # None => conversation[k].browser = b
    BY <1>0 DEF VInv, CallsOwn, Served
  <2>2. r.visitor = v /\ r.browser = b /\ r \in Stored
    BY <1>0, <2>1, Sizes DEF Stored, Typed, LimiterTyped
  <2>3. r # None
    <3>1. r \in [agent : Agent, visitor : Visitor, at : 0 .. MaxTime, browser : Browser]
      BY <1>0, <2>1 DEF Typed, LimiterTyped
    <3> QED BY <3>1, WidgetAssumption
  <2>4. conversation' = [conversation EXCEPT ![k] = r]
    BY DEF EndStream
  <2> HIDE DEF r
  <2> QED BY <1>0, <2>2, <2>3, <2>4
<1>3. NoCall.visitor = None /\ NoCall.step \notin Served
  BY DEF NoCall, Served
<1>4. conversation'[k] # None
  BY <1>2
<1>5. Narrows
  <2> SUFFICES ASSUME NEW w \in Visitor, NEW c \in Browser, Belongs(w, c)' PROVE Belongs(w, c)
    BY DEF Narrows
  <2>1. CASE token[c] # None /\ token[c].visitor = w
    BY <2>1 DEF Belongs
  <2>2. CASE call'[c].visitor = w
    BY <1>0, <1>1, <1>3, <2>2 DEF Belongs
  <2>3. ASSUME NEW j \in Conversation, conversation'[j] # None, conversation'[j].visitor = w,
               conversation'[j].browser = c
        PROVE  Belongs(w, c)
    <3>1. CASE j = k
      BY <1>2, <2>3, <3>1 DEF Belongs
    <3>2. CASE j # k
      BY <1>2, <2>3, <3>2 DEF Belongs
    <3> QED BY <3>1, <3>2
  <2> QED BY <1>0, <2>1, <2>2, <2>3 DEF Belongs
<1>6. ASSUME NEW c \in Browser PROVE CallsOwn(c)'
  <2>1. CASE c = b
    BY <1>1, <1>3, <2>1 DEF CallsOwn
  <2>2. CASE c # b
    <3>1. CallsOwn(c) /\ call'[c] = call[c]
      BY <1>1, <2>2 DEF VInv
    <3>2. CallsOwn(b) /\ call[b].step \in Served
      BY <1>0 DEF VInv, Served
    <3>3. call[c].step \in Served => call[c].conv \in Conversation
      BY DEF Typed, WInv, CallTyped, Served
    <3>4. CASE call[c].conv = k
      <4>1. call[c].step \notin Served
        BY <2>2, <3>1, <3>2, <3>4 DEF CallsOwn
      <4> QED BY <3>1, <4>1 DEF CallsOwn
    <3>5. CASE call[c].conv # k
      <4>1. call[c].step \in Served => conversation'[call[c].conv] = conversation[call[c].conv]
        BY <1>2, <3>3, <3>5
      <4>2. \A d \in Browser : call'[d].step \in Served => call'[d] = call[d]
        BY <1>1, <1>3
      <4> QED BY <3>1, <4>1, <4>2 DEF CallsOwn
    <3> QED BY <3>4, <3>5
  <2> QED BY <2>1, <2>2
<1> QED BY <1>0, <1>5, <1>6, NarrowsKeeps DEF VInv

LEMMA ApartNext == Typed /\ VInv /\ [Next]_vars => VInv'
<1> SUFFICES ASSUME Typed, VInv, [Next]_vars PROVE VInv'
  OBVIOUS
<1>1. CASE WidgetStep
  <2>1. ASSUME NEW a \in Agent,
               \/ \E open \in BOOLEAN, cap \in Caps : UpdateWidget(a, open, cap)
               \/ FramePolicy(a) \/ LauncherConfig(a)
        PROVE  VInv'
    <3>1. UNCHANGED <<token, minted, conversation, call>>
      BY <2>1 DEF UpdateWidget, FramePolicy, LauncherConfig, widgetVars
    <3> QED BY <3>1 DEF VInv, OneBrowser, GivenOut, Belongs, CallsOwn
  <2>2. ASSUME NEW a \in Agent, NEW b \in Browser, CreateSession(b, a) PROVE VInv'
    BY <2>2, CreateSessionApart
  <2>3. ASSUME NEW b \in Browser, NEW k \in Conversation \cup {None}, Send(b, k) PROVE VInv'
    BY <2>3, SendApart
  <2>4. ASSUME NEW b \in Browser, Abandon(b) \/ DropUnread(b) PROVE VInv'
    BY <2>4, OverApart DEF Abandon, DropUnread
  <2> QED BY <1>1, <2>1, <2>2, <2>3, <2>4, MintApart, LimitApart, FirstEventApart, BeginApart,
             EndStreamApart
          DEF WidgetStep
<1>2. CASE UNCHANGED widgetVars
  BY <1>2 DEF widgetVars, VInv, OneBrowser, GivenOut, Belongs, CallsOwn
<1> QED BY <1>1, <1>2 DEF Next, vars

LEMMA ApartInit == Init => VInv
<1> SUFFICES ASSUME Init PROVE VInv
  OBVIOUS
<1>1. /\ \A b \in Browser : token[b] = None /\ call[b].visitor = None /\ call[b].conv = None
                           /\ call[b].step = "idle"
      /\ \A k \in Conversation : conversation[k] = None
      /\ None \notin Visitor
  BY WidgetAssumption DEF Init, WidgetInit, NoCall
<1>2. \A v \in Visitor, b \in Browser : ~ Belongs(v, b)
  BY <1>1 DEF Belongs
<1> QED BY <1>1, <1>2 DEF VInv, OneBrowser, GivenOut, CallsOwn, Served

(* No browser is shown, or goes on with, a conversation another one began,    *)
(* whatever ids it presents, for any visitors, tokens that expire in the      *)
(* middle of a call, and agents.                                              *)
THEOREM VisitorsStayApart == Spec => []VisitorsAreApart
<1>1. Spec => []VInv
  BY ApartInit, ApartNext, TypedAlways, PTL DEF Spec
<1> QED BY <1>1, VisitorsApart, TypedAlways, PTL
-----------------------------------------------------------------------------
(* The calls that were admitted, as a set: the i-th of time t is <<t, i>>.    *)

Calls(g, lo, hi) == UNION {{t} \X (1 .. g[t]) : t \in lo .. hi}

Sum(g, lo, hi) == Cardinality(Calls(g, lo, hi))

LEMMA SumTyped ==
    ASSUME NEW g \in [Nat -> Nat], NEW lo \in Nat, NEW hi \in Int
    PROVE  IsFiniteSet(Calls(g, lo, hi)) /\ Sum(g, lo, hi) \in Nat
<1> DEFINE f == [t \in lo .. hi |-> {t} \X (1 .. g[t])]
           S == {{t} \X (1 .. g[t]) : t \in lo .. hi}
<1>1. IsFiniteSet(lo .. hi)
  BY FS_Interval
<1>2. f \in Surjection(lo .. hi, S)
  BY DEF Surjection
<1>3. IsFiniteSet(S)
  <2> HIDE DEF f, S
  <2> QED BY <1>1, <1>2, FS_Surjection
<1>4. ASSUME NEW T \in S PROVE IsFiniteSet(T)
  <2>1. PICK t \in lo .. hi : T = {t} \X (1 .. g[t])
    OBVIOUS
  <2>2. IsFiniteSet({t})
    BY FS_Singleton
  <2>3. IsFiniteSet(1 .. g[t])
    BY FS_Interval
  <2> QED BY <2>1, <2>2, <2>3, FS_Product
<1>5. IsFiniteSet(UNION S)
  <2> HIDE DEF S
  <2> QED BY <1>3, <1>4, FS_UNION
<1> QED BY <1>5, FS_CardinalityType DEF Calls, Sum

LEMMA SumEmpty ==
    ASSUME NEW g \in [Nat -> Nat], NEW lo \in Nat, NEW hi \in Int, \A t \in lo .. hi : g[t] = 0
    PROVE  Sum(g, lo, hi) = 0
<1>1. Calls(g, lo, hi) = {}
  BY DEF Calls
<1> QED BY <1>1, FS_EmptySet DEF Sum

LEMMA SumLess ==
    ASSUME NEW g \in [Nat -> Nat], NEW lo \in Nat, NEW hi \in Int,
           NEW h \in [Nat -> Nat], NEW from \in Nat, NEW to \in Int,
           from <= lo, hi <= to, \A t \in lo .. hi : g[t] <= h[t]
    PROVE  Sum(g, lo, hi) <= Sum(h, from, to)
<1>1. ASSUME NEW x \in Calls(g, lo, hi) PROVE x \in Calls(h, from, to)
  <2>1. PICK t \in lo .. hi : x \in {t} \X (1 .. g[t])
    BY DEF Calls
  <2>2. t \in from .. to /\ x \in {t} \X (1 .. h[t])
    BY <2>1
  <2> QED BY <2>2 DEF Calls
<1>2. IsFiniteSet(Calls(h, from, to))
  BY SumTyped
<1> QED BY <1>1, <1>2, FS_Subset DEF Sum

LEMMA SumWithin ==
    ASSUME NEW g \in [Nat -> Nat], NEW lo \in Nat, NEW hi \in Int, NEW from \in Nat, NEW to \in Int,
           from <= lo, hi <= to
    PROVE  Sum(g, lo, hi) <= Sum(g, from, to)
<1>1. \A t \in lo .. hi : g[t] <= g[t]
  OBVIOUS
<1> QED BY <1>1, SumLess

LEMMA SumPointwise ==
    ASSUME NEW g \in [Nat -> Nat], NEW h \in [Nat -> Nat], NEW lo \in Nat, NEW hi \in Int,
           \A t \in lo .. hi : h[t] <= g[t]
    PROVE  Sum(h, lo, hi) <= Sum(g, lo, hi)
<1>1. lo <= lo /\ hi <= hi
  OBVIOUS
<1> QED BY <1>1, SumLess

LEMMA SumSplit ==
    ASSUME NEW g \in [Nat -> Nat], NEW lo \in Nat, NEW hi \in Int, NEW mid \in Nat
    PROVE  Sum(g, lo, hi) <= Sum(g, lo, mid - 1) + Sum(g, mid, hi)
<1> DEFINE A == Calls(g, lo, mid - 1)
           B == Calls(g, mid, hi)
<1>1. IsFiniteSet(A) /\ IsFiniteSet(B) /\ Sum(g, lo, hi) \in Nat
  <2>1. mid - 1 \in Int
    OBVIOUS
  <2>2. IsFiniteSet(A)
    BY <2>1, SumTyped
  <2>3. IsFiniteSet(B)
    BY SumTyped
  <2>4. Sum(g, lo, hi) \in Nat
    BY SumTyped
  <2> QED BY <2>2, <2>3, <2>4
<1>2. Calls(g, lo, hi) \subseteq A \cup B
  <2> SUFFICES ASSUME NEW x \in Calls(g, lo, hi) PROVE x \in A \cup B
    OBVIOUS
  <2>1. PICK t \in lo .. hi : x \in {t} \X (1 .. g[t])
    BY DEF Calls
  <2>2. t \in lo .. mid - 1 \/ t \in mid .. hi
    OBVIOUS
  <2> QED BY <2>1, <2>2 DEF Calls
<1>3. Cardinality(A \cap B) \in Nat
  <2>1. A \cap B \subseteq A
    OBVIOUS
  <2> HIDE DEF A, B
  <2>2. IsFiniteSet(A \cap B)
    BY <1>1, <2>1, FS_Subset
  <2> QED BY <2>2, FS_CardinalityType
<1>4. Cardinality(A) = Sum(g, lo, mid - 1) /\ Cardinality(B) = Sum(g, mid, hi)
  BY DEF Sum
<1> HIDE DEF A, B
<1>5. /\ IsFiniteSet(A \cup B)
      /\ Cardinality(A \cup B) = Cardinality(A) + Cardinality(B) - Cardinality(A \cap B)
  BY <1>1, FS_Union
<1>6. Sum(g, lo, hi) <= Cardinality(A \cup B)
  BY <1>2, <1>5, FS_Subset DEF Sum
<1>7. Cardinality(A) \in Nat /\ Cardinality(B) \in Nat
  BY <1>1, FS_CardinalityType
<1> QED BY <1>1, <1>3, <1>4, <1>5, <1>6, <1>7

LEMMA SumOneMore ==
    ASSUME NEW g \in [Nat -> Nat], NEW lo \in Nat, NEW hi \in Int, NEW n \in Nat,
           NEW h \in [Nat -> Nat], h[n] = g[n] + 1, \A t \in Nat \ {n} : h[t] = g[t]
    PROVE  Sum(h, lo, hi) <= Sum(g, lo, hi) + 1
<1> DEFINE x == <<n, g[n] + 1>>
           S == Calls(g, lo, hi)
<1>1. ASSUME NEW y \in Calls(h, lo, hi) PROVE y \in S \cup {x}
  <2>1. PICK t \in lo .. hi : y \in {t} \X (1 .. h[t])
    BY DEF Calls
  <2>2. CASE t = n
    <3>1. y \in {t} \X (1 .. g[t]) \/ y = x
      BY <2>1, <2>2
    <3> QED BY <3>1 DEF Calls
  <2>3. CASE t # n
    BY <2>1, <2>3 DEF Calls
  <2> QED BY <2>2, <2>3
<1>2. IsFiniteSet(S) /\ Cardinality(S) = Sum(g, lo, hi) /\ Sum(g, lo, hi) \in Nat
      /\ Sum(h, lo, hi) \in Nat
  BY SumTyped DEF Sum
<1> HIDE DEF S, x
<1>3. /\ IsFiniteSet(S \cup {x})
      /\ Cardinality(S \cup {x}) = IF x \in S THEN Cardinality(S) ELSE Cardinality(S) + 1
  BY <1>2, FS_AddElement
<1>4. Sum(h, lo, hi) <= Cardinality(S \cup {x})
  BY <1>1, <1>3, FS_Subset DEF Sum
<1> QED BY <1>2, <1>3, <1>4

-----------------------------------------------------------------------------
(* Two windows of a key.  While its counter lives, the admissions of this    *)
(* window have each taken a place in it, the call that opened it has taken   *)
(* one whether it was admitted or Redis failed after it, and what an         *)
(* interval reaches back to before it is less than a window admits.          *)

History(key) == [t \in Nat |-> Admitted(key, t)]

Start(key) == counter[key].until - Window[key[1]]

Counting(key) ==
    /\ Start(key) \in 0 .. now
    /\ Sum(History(key), Start(key), now) <= counter[key].count
    /\ Sum(History(key), Start(key), now) <= Limit[key[1]]
    /\ Sum(History(key), Start(key) + 1, now) < counter[key].count
    /\ Sum(History(key), Start(key) + 1, now) < Limit[key[1]]
    /\ \A t \in 0 .. now :
          t + Window[key[1]] > now => Sum(History(key), t, Start(key) - 1) < Limit[key[1]]

Resting(key) ==
    /\ Admitted(key, now) = 0
    /\ \A t \in 0 .. now : t + Window[key[1]] > now => Sum(History(key), t, now) < Limit[key[1]]

WindowKept(key) == IF key \in DOMAIN counter THEN Counting(key) ELSE Resting(key)

(* A kind that has a fixed limit. *)
Fixed(key) == key[1] \in DOMAIN Limit

LInv == \A key \in DOMAIN counter \cup Keys : Fixed(key) => WindowKept(key)

LEMMA HistoryTyped ==
    ASSUME AdmittedTyped, NEW key
    PROVE  /\ History(key) \in [Nat -> Nat]
           /\ \A t \in Nat : History(key)[t] = Admitted(key, t)
BY DEF AdmittedTyped, History, Admitted

LEMMA TotalIsSum ==
    ASSUME AdmittedTyped, now \in Nat, NEW key, NEW from \in Nat
    PROVE  Total(key, from) = Sum(History(key), from, now)
<1>1. \A t \in from .. now : History(key)[t] = Admitted(key, t)
  BY HistoryTyped
<1>2. Admissions(key, from) = Calls(History(key), from, now)
  BY <1>1 DEF Admissions, Calls
<1> QED BY <1>2 DEF Total, Sum

(* A key nobody used is as good as one that is at rest. *)
LEMMA EveryKey ==
    ASSUME LimiterTyped, LInv, NEW key, Fixed(key)
    PROVE  WindowKept(key)
<1>1. CASE key \in DOMAIN counter \cup Keys
  BY <1>1 DEF LInv
<1>2. CASE key \notin DOMAIN counter \cup Keys
  <2>0. now \in Nat /\ AdmittedTyped
    BY Sizes DEF LimiterTyped
  <2>1. \A t \in Nat : Admitted(key, t) = 0
    <3>1. \A t : <<key, t>> \notin DOMAIN admitted
      <4> SUFFICES ASSUME NEW t, <<key, t>> \in DOMAIN admitted PROVE FALSE
        OBVIOUS
      <4>1. <<key, t>>[1] = key
        OBVIOUS
      <4>2. key \in Keys
        BY <4>1 DEF Keys
      <4> QED BY <1>2, <4>2
    <3> QED BY <3>1 DEF Admitted
  <2>2. History(key) \in [Nat -> Nat] /\ \A t \in Nat : History(key)[t] = 0
    BY <2>0, <2>1, HistoryTyped
  <2>3. \A t \in Nat : Sum(History(key), t, now) = 0
    BY <2>0, <2>2, SumEmpty
  <2>4. 0 < Limit[key[1]] /\ key \notin DOMAIN counter
    BY <1>2, Sizes DEF Fixed
  <2> QED BY <2>0, <2>1, <2>3, <2>4 DEF WindowKept, Resting
<1> QED BY <1>1, <1>2

LEMMA KeptSame ==
    ASSUME NEW key, WindowKept(key), UNCHANGED now, History(key)' = History(key),
           Admitted(key, now)' = Admitted(key, now),
           key \in DOMAIN counter' <=> key \in DOMAIN counter,
           key \in DOMAIN counter => counter'[key] = counter[key]
    PROVE  WindowKept(key)'
<1>1. key \in DOMAIN counter => Start(key)' = Start(key)
  BY DEF Start
<1>2. CASE key \in DOMAIN counter
  BY <1>1, <1>2 DEF WindowKept, Counting
<1>3. CASE key \notin DOMAIN counter
  BY <1>1, <1>3 DEF WindowKept, Resting
<1> QED BY <1>2, <1>3

(* The history of a counted key. *)
LEMMA CountedHistory ==
    ASSUME LimiterTyped, NEW key, NEW limit, Countable(key, limit), Fixed(key),
           Allows(key, limit) \/ Refuses(key, limit)
    PROVE  /\ now \in Nat /\ now \in Int /\ UNCHANGED now
           /\ History(key) \in [Nat -> Nat] /\ History(key)' \in [Nat -> Nat]
           /\ \A t \in Nat \ {now} : History(key)'[t] = History(key)[t]
           /\ \/ UNCHANGED <<counter, admitted>>
              \/ Incr(key) /\ UNCHANGED admitted
              \/ Incr(key) /\ Count(key) < limit /\ History(key)'[now] = History(key)[now] + 1
<1>1. now \in Nat /\ now \in Int /\ UNCHANGED now /\ AdmittedTyped /\ AdmittedTyped'
  BY CountsTyped, Sizes DEF LimiterTyped, Allows, Refuses
<1>2. /\ History(key) \in [Nat -> Nat] /\ \A t \in Nat : History(key)[t] = Admitted(key, t)
  BY <1>1, HistoryTyped
<1>3. /\ \A t \in Nat : Admitted(key, t)' \in Nat
      /\ History(key)' = [t \in Nat |-> Admitted(key, t)']
  BY <1>1 DEF AdmittedTyped, History, Admitted
<1>4. History(key)' \in [Nat -> Nat] /\ \A t \in Nat : History(key)'[t] = Admitted(key, t)'
  BY <1>3
<1>5. CASE UNCHANGED admitted
  <2>1. \A t \in Nat : Admitted(key, t)' = Admitted(key, t)
    BY <1>5 DEF Admitted
  <2> QED BY <1>1, <1>2, <1>4, <1>5, <2>1 DEF Allows, Refuses
<1>6. CASE Count(key) < limit /\ Incr(key) /\ Admits(key)
  <2>1. /\ DOMAIN admitted' = DOMAIN admitted \cup {<<key, now>>}
        /\ \A x \in DOMAIN admitted \ {<<key, now>>} : admitted'[x] = admitted[x]
        /\ admitted'[<<key, now>>] = Admitted(key, now) + 1
    BY <1>6, Recorded DEF Fixed
  <2>2. \A t \in Nat \ {now} : Admitted(key, t)' = Admitted(key, t)
    BY <2>1 DEF Admitted
  <2>3. Admitted(key, now)' = Admitted(key, now) + 1
    BY <1>1, <2>1 DEF Admitted
  <2> QED BY <1>1, <1>2, <1>4, <1>6, <2>2, <2>3
<1> QED BY <1>5, <1>6 DEF Allows, Refuses

LEMMA OtherHistory ==
    ASSUME LimiterTyped, NEW key, NEW limit, Countable(key, limit),
           Allows(key, limit) \/ Refuses(key, limit), NEW k, k # key
    PROVE  /\ History(k)' = History(k) /\ Admitted(k, now)' = Admitted(k, now)
           /\ k \in DOMAIN counter' <=> k \in DOMAIN counter
           /\ k \in DOMAIN counter => counter'[k] = counter[k]
<1>1. UNCHANGED now
  BY DEF Allows, Refuses
<1>2. \A t : Admitted(k, t)' = Admitted(k, t)
  <2>1. CASE UNCHANGED admitted
    BY <2>1 DEF Admitted
  <2>2. CASE key[1] \in DOMAIN Limit /\ Admits(key)
    <3>1. /\ DOMAIN admitted' = DOMAIN admitted \cup {<<key, now>>}
          /\ \A x \in DOMAIN admitted \ {<<key, now>>} : admitted'[x] = admitted[x]
      BY <2>2, Recorded
    <3>2. \A t : <<k, t>> # <<key, now>>
      OBVIOUS
    <3> QED BY <3>1, <3>2 DEF Admitted
  <2> QED BY <2>1, <2>2 DEF Allows, Refuses, Admits
<1>3. CASE UNCHANGED counter
  BY <1>1, <1>2, <1>3 DEF History
<1>4. CASE Incr(key)
  <2>1. /\ DOMAIN counter' = DOMAIN counter \cup {key}
        /\ \A i \in DOMAIN counter \ {key} : counter'[i] = counter[i]
    BY <1>4, Incremented
  <2> QED BY <1>1, <1>2, <2>1 DEF History
<1> QED BY <1>3, <1>4 DEF Allows, Refuses

(* Counting the call that opens a window, or one more in an open one. *)
LEMMA CountedWindow ==
    ASSUME LimiterTyped, NEW key, NEW limit, Countable(key, limit), Fixed(key),
           Allows(key, limit) \/ Refuses(key, limit), Incr(key), WindowKept(key)
    PROVE  WindowKept(key)'
<1> DEFINE g == History(key)
           h == History(key)'
           L == Limit[key[1]]
           W == Window[key[1]]
<1>0. /\ L \in Nat \ {0} /\ W \in Nat \ {0} /\ L < MaxCount /\ MaxCount \in Nat /\ limit = L
      /\ now \in Nat /\ now \in Int /\ now' = now
      /\ g \in [Nat -> Nat] /\ h \in [Nat -> Nat]
      /\ \A t \in Nat \ {now} : h[t] = g[t]
      /\ h = g \/ (Count(key) < L /\ h[now] = g[now] + 1)
  <2>1. L \in Nat \ {0} /\ W \in Nat \ {0} /\ L < MaxCount /\ MaxCount \in Nat /\ limit = L
    BY Sizes DEF Countable, Fixed
  <2>2. UNCHANGED admitted => h = g
    BY DEF History, Admitted
  <2> QED BY <2>1, <2>2, CountedHistory
<1>1. /\ DOMAIN counter' = DOMAIN counter \cup {key}
      /\ Count(key) \in 0 .. MaxCount
      /\ counter'[key].count \in 1 .. MaxCount
      /\ Count(key) < MaxCount => counter'[key].count = Count(key) + 1
      /\ Count(key) <= counter'[key].count
      /\ counter'[key].until = Until(key)
  BY Incremented
<1>2. \A lo \in Nat, hi \in Int : Sum(g, lo, hi) \in Nat /\ Sum(h, lo, hi) \in Nat
  BY <1>0, SumTyped
<1>3. \A lo \in Nat, hi \in Int : Sum(h, lo, hi) <= Sum(g, lo, hi) + 1
  <2>1. CASE h = g
    BY <1>2, <2>1
  <2>2. CASE h[now] = g[now] + 1
    BY <1>0, <2>2, SumOneMore
  <2> QED BY <1>0, <2>1, <2>2
<1>4. \A lo \in Nat, hi \in Int : hi < now => Sum(h, lo, hi) <= Sum(g, lo, hi)
  <2> SUFFICES ASSUME NEW lo \in Nat, NEW hi \in Int, hi < now PROVE Sum(h, lo, hi) <= Sum(g, lo, hi)
    OBVIOUS
  <2>1. \A t \in lo .. hi : h[t] <= g[t]
    BY <1>0
  <2> QED BY <1>0, <2>1, SumPointwise
<1> HIDE DEF g, h
<1>5. CASE key \in DOMAIN counter
  <2> DEFINE s == Start(key)
             c == counter[key].count
  <2>1. /\ s \in 0 .. now /\ Sum(g, s, now) <= c /\ Sum(g, s, now) <= L
        /\ Sum(g, s + 1, now) < c /\ Sum(g, s + 1, now) < L
        /\ \A t \in 0 .. now : t + W > now => Sum(g, t, s - 1) < L
    BY <1>5 DEF WindowKept, Counting, g
  <2>2. Start(key)' = s /\ Count(key) = c /\ key \in DOMAIN counter'
    BY <1>1, <1>5 DEF Start, Count, Until
  <2> HIDE DEF s, c
  <2>3. c \in Nat /\ counter'[key].count \in Nat /\ s \in Nat /\ s + 1 \in Nat /\ s - 1 \in Int
        /\ s - 1 < now
    BY <1>0, <1>1, <2>1, <2>2
  <2>4. /\ Sum(h, s, now) <= counter'[key].count /\ Sum(h, s, now) <= L
        /\ Sum(h, s + 1, now) < counter'[key].count /\ Sum(h, s + 1, now) < L
    <3>0. /\ Sum(g, s, now) \in Nat /\ Sum(h, s, now) \in Nat
          /\ Sum(g, s + 1, now) \in Nat /\ Sum(h, s + 1, now) \in Nat
      BY <1>0, <1>2, <2>3
    <3>1. CASE h = g
      BY <1>0, <1>1, <2>1, <2>2, <2>3, <3>0, <3>1
    <3>2. CASE Count(key) < L
      <4>1. counter'[key].count = c + 1 /\ c + 1 <= L
        BY <1>0, <1>1, <2>2, <2>3, <3>2
      <4>2. Sum(h, s, now) <= Sum(g, s, now) + 1 /\ Sum(h, s + 1, now) <= Sum(g, s + 1, now) + 1
        BY <1>0, <1>3, <2>3
      <4> QED BY <1>0, <2>1, <2>3, <3>0, <4>1, <4>2
    <3> QED BY <1>0, <3>1, <3>2
  <2>5. ASSUME NEW t \in 0 .. now, t + W > now PROVE Sum(h, t, s - 1) < L
    <3>1. Sum(g, t, s - 1) < L /\ Sum(h, t, s - 1) <= Sum(g, t, s - 1)
      BY <1>0, <1>4, <2>1, <2>3, <2>5
    <3>2. t \in Nat
      BY <1>0
    <3>3. Sum(g, t, s - 1) \in Nat /\ Sum(h, t, s - 1) \in Nat
      BY <1>2, <2>3, <3>2
    <3> QED BY <1>0, <3>1, <3>3
  <2> QED BY <1>0, <2>1, <2>2, <2>4, <2>5 DEF WindowKept, Counting, h
<1>6. CASE key \notin DOMAIN counter
  <2>1. /\ g[now] = 0 /\ \A t \in 0 .. now : t + W > now => Sum(g, t, now) < L
    BY <1>0, <1>6 DEF WindowKept, Resting, History, g
  <2>2. Count(key) = 0 /\ Start(key)' = now /\ key \in DOMAIN counter' /\ counter'[key].count = 1
    BY <1>0, <1>1, <1>6 DEF Start, Count, Until
  <2>3. Sum(g, now, now) = 0 /\ Sum(h, now + 1, now) = 0
    <3>1. \A t \in now .. now : g[t] = 0
      BY <1>0, <2>1
    <3>2. Sum(g, now, now) = 0
      BY <1>0, <3>1, SumEmpty
    <3>3. now + 1 \in Nat /\ \A t \in now + 1 .. now : h[t] = 0
      BY <1>0
    <3> QED BY <1>0, <3>2, <3>3, SumEmpty
  <2>4. Sum(h, now, now) <= 1
    BY <1>0, <1>3, <2>3
  <2>5. ASSUME NEW t \in 0 .. now, t + W > now PROVE Sum(h, t, now - 1) < L
    <3>1. t \in Nat /\ now - 1 \in Int /\ now - 1 < now
      BY <1>0
    <3>2. Sum(h, t, now - 1) <= Sum(g, t, now - 1)
      BY <1>4, <3>1
    <3>3. Sum(g, t, now - 1) <= Sum(g, t, now)
      <4>1. t <= t /\ now - 1 <= now
        BY <1>0, <3>1
      <4> QED BY <1>0, <3>1, <4>1, SumWithin
    <3>4. /\ Sum(h, t, now - 1) \in Nat /\ Sum(g, t, now - 1) \in Nat /\ Sum(g, t, now) \in Nat
      BY <1>0, <1>2, <3>1
    <3> QED BY <1>0, <2>1, <2>5, <3>2, <3>3, <3>4
  <2>6. Sum(h, now, now) \in Nat
    BY <1>0, <1>2
  <2> QED BY <1>0, <2>2, <2>3, <2>4, <2>5, <2>6 DEF WindowKept, Counting, h
<1> QED BY <1>5, <1>6

LEMMA CountsKept == ASSUME LimiterTyped, LInv, Counts PROVE LInv'
<1> PICK key, limit : Countable(key, limit) /\ (Allows(key, limit) \/ Refuses(key, limit))
  BY DEF Counts
<1>1. LimiterTyped' /\ UNCHANGED now
  BY CountsTyped DEF Allows, Refuses
<1>2. ASSUME Fixed(key) PROVE WindowKept(key)'
  <2>0. WindowKept(key)
    BY <1>2, EveryKey
  <2>1. CASE UNCHANGED <<counter, admitted>>
    BY <1>1, <2>0, <2>1, KeptSame DEF History, Admitted
  <2>2. CASE Incr(key)
    BY <1>2, <2>0, <2>2, CountedWindow
  <2> QED BY <2>1, <2>2 DEF Allows, Refuses
<1>3. ASSUME NEW k \in DOMAIN counter' \cup Keys', k # key, Fixed(k) PROVE WindowKept(k)'
  <2>1. WindowKept(k)
    BY <1>3, EveryKey
  <2> QED BY <1>1, <1>3, <2>1, OtherHistory, KeptSame
<1> QED BY <1>2, <1>3 DEF LInv, Fixed

(* The clock moves: what left the window is forgotten, and a counter that is *)
(* at its end leaves its key at rest.                                        *)
LEMMA TickHistory ==
    ASSUME LimiterTyped, Tick, NEW key, Fixed(key)
    PROVE  /\ now \in Nat /\ now \in Int /\ now' = now + 1
           /\ History(key) \in [Nat -> Nat] /\ History(key)' \in [Nat -> Nat]
           /\ Admitted(key, now)' = 0
           /\ \A lo \in Nat, hi \in Int : Sum(History(key)', lo, hi) <= Sum(History(key), lo, hi)
           /\ \A lo \in Nat : Sum(History(key)', lo, now + 1) <= Sum(History(key), lo, now)
<1> DEFINE g == History(key)
           h == History(key)'
<1>0. now \in Nat /\ now \in Int /\ now' = now + 1 /\ AdmittedTyped /\ AdmittedTyped'
  BY TickTyped, Sizes DEF LimiterTyped, Tick
<1>1. g \in [Nat -> Nat] /\ \A t \in Nat : g[t] = Admitted(key, t)
  BY <1>0, HistoryTyped
<1>2. /\ \A t \in Nat : Admitted(key, t)' \in Nat
      /\ h = [t \in Nat |-> Admitted(key, t)']
  BY <1>0 DEF AdmittedTyped, History, Admitted
<1>3. h \in [Nat -> Nat] /\ \A t \in Nat : h[t] = Admitted(key, t)'
  BY <1>2
<1>4. \A x \in DOMAIN admitted' : x \in DOMAIN admitted /\ admitted'[x] = admitted[x]
  BY DEF Tick
<1>5. \A t \in Nat : h[t] <= g[t]
  <2> SUFFICES ASSUME NEW t \in Nat PROVE Admitted(key, t)' <= Admitted(key, t)
    BY <1>1, <1>3
  <2>1. Admitted(key, t) \in Nat /\ Admitted(key, t)' \in Nat
    BY <1>1, <1>2
  <2> QED BY <1>4, <2>1 DEF Admitted
<1>6. h[now + 1] = 0 /\ Admitted(key, now)' = 0
  <2>1. <<key, now + 1>> \notin DOMAIN admitted
    <3>1. <<key, now + 1>>[2] = now + 1
      OBVIOUS
    <3> QED BY <1>0, <3>1 DEF AdmittedTyped
  <2>2. <<key, now + 1>> \notin DOMAIN admitted'
    BY <1>4, <2>1
  <2> QED BY <1>0, <1>3, <2>2 DEF Admitted
<1>7. \A lo \in Nat, hi \in Int : Sum(h, lo, hi) <= Sum(g, lo, hi)
  <2> SUFFICES ASSUME NEW lo \in Nat, NEW hi \in Int PROVE Sum(h, lo, hi) <= Sum(g, lo, hi)
    OBVIOUS
  <2>1. \A t \in lo .. hi : h[t] <= g[t]
    BY <1>5
  <2> HIDE DEF g, h
  <2> QED BY <1>1, <1>3, <2>1, SumPointwise
<1>8. \A lo \in Nat : Sum(h, lo, now + 1) <= Sum(g, lo, now)
  <2> SUFFICES ASSUME NEW lo \in Nat PROVE Sum(h, lo, now + 1) <= Sum(g, lo, now)
    OBVIOUS
  <2> HIDE DEF g, h
  <2>1. now + 1 \in Nat /\ now + 1 \in Int /\ now \in Int /\ now + 1 - 1 = now
    BY <1>0
  <2>2. \A t \in now + 1 .. now + 1 : h[t] = 0
    BY <1>0, <1>6
  <2>3. Sum(h, now + 1, now + 1) = 0
    BY <1>3, <2>1, <2>2, SumEmpty
  <2>4. Sum(h, lo, now + 1) <= Sum(h, lo, now) + Sum(h, now + 1, now + 1)
    <3>1. Sum(h, lo, now + 1) <= Sum(h, lo, now + 1 - 1) + Sum(h, now + 1, now + 1)
      BY <1>3, <2>1, SumSplit
    <3> QED BY <2>1, <3>1
  <2>5. Sum(h, lo, now + 1) \in Nat /\ Sum(h, lo, now) \in Nat /\ Sum(g, lo, now) \in Nat
    BY <1>1, <1>3, <2>1, SumTyped
  <2>6. Sum(h, lo, now) <= Sum(g, lo, now)
    BY <1>7, <2>1
  <2> QED BY <2>3, <2>4, <2>5, <2>6
<1> QED BY <1>0, <1>1, <1>3, <1>6, <1>7, <1>8

LEMMA TickWindow ==
    ASSUME LimiterTyped, Tick, NEW key, Fixed(key), WindowKept(key)
    PROVE  WindowKept(key)'
<1> DEFINE g == History(key)
           h == History(key)'
           L == Limit[key[1]]
           W == Window[key[1]]
           s == Start(key)
<1>0. /\ L \in Nat \ {0} /\ W \in Nat \ {0}
      /\ now \in Nat /\ now \in Int /\ now' = now + 1
      /\ g \in [Nat -> Nat] /\ h \in [Nat -> Nat]
      /\ Admitted(key, now)' = 0
  BY TickHistory, Sizes DEF Fixed
<1>1. \A lo \in Nat, hi \in Int : Sum(h, lo, hi) <= Sum(g, lo, hi)
  BY TickHistory
<1>2. \A lo \in Nat : Sum(h, lo, now + 1) <= Sum(g, lo, now)
  BY TickHistory
<1>3. \A lo \in Nat, hi \in Int : Sum(g, lo, hi) \in Nat /\ Sum(h, lo, hi) \in Nat
  BY <1>0, SumTyped
<1>4. key \in DOMAIN counter' =>
         key \in DOMAIN counter /\ counter'[key] = counter[key] /\ Start(key)' = s
  BY DEF Tick, Start
<1>5. /\ key \in DOMAIN counter =>
            /\ counter[key].until \in Nat /\ now + 1 <= counter[key].until
            /\ counter[key].count \in Nat
      /\ key \in DOMAIN counter /\ key \notin DOMAIN counter' => counter[key].until <= now + 1
  BY <1>0 DEF Tick, LimiterTyped, CounterTyped
<1>6. key \in DOMAIN counter =>
        /\ s \in 0 .. now /\ Sum(g, s, now) <= counter[key].count /\ Sum(g, s, now) <= L
        /\ Sum(g, s + 1, now) < counter[key].count /\ Sum(g, s + 1, now) < L
        /\ \A t \in 0 .. now : t + W > now => Sum(g, t, s - 1) < L
  BY DEF WindowKept, Counting
<1>7. key \notin DOMAIN counter => \A t \in 0 .. now : t + W > now => Sum(g, t, now) < L
  BY DEF WindowKept, Resting
<1>8. ASSUME NEW lo \in Nat, NEW hi \in Int, lo > hi PROVE Sum(h, lo, hi) = 0
  <2>1. \A t \in lo .. hi : h[t] = 0
    BY <1>8
  <2> QED BY <1>0, <2>1, SumEmpty
<1>9. CASE key \in DOMAIN counter'
  <2>0. /\ key \in DOMAIN counter /\ counter'[key] = counter[key] /\ Start(key)' = s
        /\ s \in 0 .. now' /\ s \in Nat /\ s + 1 \in Nat /\ s - 1 \in Int
    BY <1>0, <1>4, <1>6, <1>9
  <2> HIDE DEF g, h, s
  <2>1. /\ Sum(h, s, now') <= counter[key].count /\ Sum(h, s, now') <= L
        /\ Sum(h, s + 1, now') < counter[key].count /\ Sum(h, s + 1, now') < L
    <3>1. Sum(h, s, now') <= Sum(g, s, now) /\ Sum(h, s + 1, now') <= Sum(g, s + 1, now)
      BY <1>0, <1>2, <2>0
    <3>2. now' \in Int
      BY <1>0
    <3>3. /\ Sum(h, s, now') \in Nat /\ Sum(g, s, now) \in Nat
          /\ Sum(h, s + 1, now') \in Nat /\ Sum(g, s + 1, now) \in Nat
      BY <1>0, <1>3, <2>0, <3>2
    <3> QED BY <1>0, <1>5, <1>6, <2>0, <3>1, <3>3
  <2>2. ASSUME NEW t \in 0 .. now', t + W > now' PROVE Sum(h, t, s - 1) < L
    <3>1. CASE t <= now
      <4>1. Sum(g, t, s - 1) < L
        BY <1>0, <1>6, <2>0, <2>2, <3>1
      <4>2. Sum(h, t, s - 1) <= Sum(g, t, s - 1) /\ Sum(h, t, s - 1) \in Nat /\ Sum(g, t, s - 1) \in Nat
        BY <1>0, <1>1, <1>3, <2>0
      <4> QED BY <1>0, <4>1, <4>2
    <3>2. CASE t = now + 1
      BY <1>0, <1>6, <1>8, <2>0, <3>2
    <3> QED BY <1>0, <3>1, <3>2
  <2> QED BY <1>9, <2>0, <2>1, <2>2 DEF WindowKept, Counting, h
<1>10. CASE key \notin DOMAIN counter'
  <2>1. ASSUME NEW t \in 0 .. now', t + W > now' PROVE Sum(h, t, now') < L
    <3>0. t \in Nat /\ now' \in Int
      BY <1>0
    <3>1. Sum(h, t, now') <= Sum(g, t, now) /\ Sum(h, t, now') \in Nat /\ Sum(g, t, now) \in Nat
      BY <1>0, <1>2, <1>3, <3>0
    <3>2. CASE key \in DOMAIN counter
      <4>1. s = now + 1 - W /\ s \in Nat /\ s + 1 \in Nat
        BY <1>0, <1>5, <1>6, <1>10, <3>2 DEF Start
      <4> HIDE DEF g, h, s
      <4>2. s + 1 <= t
        BY <1>0, <2>1, <4>1
      <4>3. Sum(g, t, now) <= Sum(g, s + 1, now)
        <5>1. t \in Nat /\ now <= now
          BY <1>0
        <5> QED BY <1>0, <4>1, <4>2, <5>1, SumWithin
      <4>4. Sum(g, s + 1, now) < L /\ Sum(g, s + 1, now) \in Nat
        BY <1>0, <1>3, <1>6, <3>2, <4>1
      <4> QED BY <1>0, <3>1, <4>3, <4>4
    <3>3. CASE key \notin DOMAIN counter /\ t <= now
      <4>1. Sum(g, t, now) < L
        BY <1>0, <1>7, <2>1, <3>3
      <4> HIDE DEF g, h
      <4> QED BY <1>0, <3>1, <4>1
    <3>4. CASE t = now + 1
      <4>1. now + 1 \in Nat /\ \A i \in now + 1 .. now : g[i] = 0
        BY <1>0
      <4>2. Sum(g, now + 1, now) = 0
        BY <1>0, <4>1, SumEmpty
      <4> HIDE DEF g, h
      <4> QED BY <1>0, <3>1, <3>4, <4>2
    <3> QED BY <1>0, <3>2, <3>3, <3>4
  <2> QED BY <1>0, <1>10, <2>1 DEF WindowKept, Resting
<1> QED BY <1>9, <1>10

LEMMA TickKept == ASSUME LimiterTyped, LInv, Tick PROVE LInv'
<1> SUFFICES ASSUME NEW key \in DOMAIN counter' \cup Keys', Fixed(key) PROVE WindowKept(key)'
  BY DEF LInv, Fixed
<1>1. WindowKept(key)
  BY EveryKey
<1> QED BY <1>1, TickWindow

LEMMA CountersAlways == Spec => []LInv
<1>1. Init => LInv
  BY DEF Init, LimiterInit, LInv, Keys
<1>2. Typed /\ LInv /\ [Next]_vars => LInv'
  <2> SUFFICES ASSUME Typed, LInv, [Next]_vars PROVE LInv'
    OBVIOUS
  <2>1. CASE Counts
    BY <2>1, CountsKept DEF Typed
  <2>2. CASE Tick
    BY <2>2, TickKept DEF Typed
  <2>3. CASE UNCHANGED limiterVars
    BY <2>3 DEF limiterVars, LInv, Keys, Fixed, WindowKept, Counting, Resting, History,
                Admitted, Start
  <2> QED BY <2>1, <2>2, <2>3, LimiterMoves
<1> QED BY <1>1, <1>2, TypedAlways, PTL DEF Spec

LEMMA CountersHold == ASSUME Typed, LInv PROVE LessThanTwiceTheLimit
<1>0. now \in Nat /\ now \in Int /\ AdmittedTyped /\ LimiterTyped
  BY Sizes DEF Typed, LimiterTyped
<1> SUFFICES ASSUME NEW key \in Keys, NEW t \in 0 .. now, t + Window[key[1]] > now
             PROVE  Total(key, t) < 2 * Limit[key[1]]
  BY DEF LessThanTwiceTheLimit
<1>1. Fixed(key)
  BY <1>0 DEF AdmittedTyped, Keys, Fixed
<1> DEFINE g == History(key)
           L == Limit[key[1]]
           s == Start(key)
<1>2. L \in Nat \ {0} /\ WindowKept(key) /\ g \in [Nat -> Nat]
  BY <1>0, <1>1, HistoryTyped, Sizes DEF Fixed, LInv
<1>3. Total(key, t) = Sum(g, t, now) /\ Sum(g, t, now) \in Nat
  <2>1. t \in Nat
    BY <1>0
  <2>2. Total(key, t) = Sum(g, t, now)
    BY <1>0, <2>1, TotalIsSum
  <2> QED BY <1>0, <1>2, <2>1, <2>2, SumTyped
<1>4. CASE key \in DOMAIN counter
  <2>1. s \in 0 .. now /\ Sum(g, s, now) <= L /\ Sum(g, t, s - 1) < L
    BY <1>2, <1>4 DEF WindowKept, Counting
  <2> HIDE DEF g, s, L
  <2>2. s \in Nat /\ s - 1 \in Int /\ t \in Nat
    BY <2>1
  <2>3. Sum(g, t, now) <= Sum(g, t, s - 1) + Sum(g, s, now)
    BY <1>0, <1>2, <2>2, SumSplit
  <2>4. Sum(g, t, s - 1) \in Nat /\ Sum(g, s, now) \in Nat
    BY <1>0, <1>2, <2>2, SumTyped
  <2>5. Sum(g, t, now) < 2 * L
    BY <1>2, <1>3, <2>1, <2>3, <2>4
  <2> QED BY <1>3, <2>5 DEF L
<1>5. CASE key \notin DOMAIN counter
  <2>1. Sum(g, t, now) < L
    BY <1>2, <1>5 DEF WindowKept, Resting
  <2> HIDE DEF g
  <2> QED BY <1>2, <1>3, <2>1
<1> QED BY <1>4, <1>5

(* A fixed window admits less than twice its limit in any interval of its     *)
(* length, for every kind of call that has a fixed limit, whatever calls a    *)
(* failing Redis lets by.                                                     *)
THEOREM WindowsHold == Spec => []LessThanTwiceTheLimit
BY CountersAlways, TypedAlways, CountersHold, PTL

-----------------------------------------------------------------------------
(* The day's cap.  Of what a day's key has let through, each counter it had   *)
(* has let by no more than the highest cap, the one that still counts no more *)
(* than it has counted, and each failure of Redis one.  A counter is opened   *)
(* on its day or after it, so none lapses before the day is over.             *)

Times(n, cap) == n * cap

LEMMA TimesGrows ==
    ASSUME NEW n \in Nat, NEW c \in Nat, NEW d \in Nat, c <= d
    PROVE  /\ Times(n, c) \in Nat /\ Times(n, c) <= Times(n, d)
           /\ Times(n + 1, c) = Times(n, c) + c
           /\ Times(0, c) = 0
<1>1. PICK e \in Nat : d = c + e
  <2>1. d - c \in Nat /\ d = c + (d - c)
    OBVIOUS
  <2> QED BY <2>1
<1>2. n * c \in Nat /\ n * e \in Nat
  OBVIOUS
<1>3. n * d = n * c + n * e
  BY <1>1
<1>4. (n + 1) * c = n * c + c /\ 0 * c = 0
  OBVIOUS
<1> QED BY <1>2, <1>3, <1>4 DEF Times

Let(key) == Tally(key).through
Lives(key) == Tally(key).lives
Highest(key) == Tally(key).cap

(* The counter that counts, and those before it. *)
DayCounted(key) ==
    /\ Lives(key) >= 1 /\ DayStart(key[3]) <= Start(key)
    /\ \E x \in Nat : /\ x <= counter[key].count /\ x <= Highest(key)
                      /\ Let(key) <= Times(Lives(key) - 1, Highest(key)) + x + faults

DayKept(key) ==
    /\ IF key \in DOMAIN counter THEN DayCounted(key)
       ELSE Let(key) <= Times(Lives(key), Highest(key)) + faults
    /\ now < DayStart(key[3]) + DayLength =>
          Lives(key) <= 1 /\ (key \notin DOMAIN counter => Lives(key) = 0)

DInv ==
    /\ \A key \in DOMAIN counter : key[1] = "day" => key \in DOMAIN daily
    /\ \A key \in DOMAIN daily : DayKept(key)

LEMMA TallyTyped ==
    ASSUME DailyTyped, NEW key
    PROVE  Let(key) \in Nat /\ Lives(key) \in Nat /\ Highest(key) \in Nat
<1>1. \A c \in Caps : c \in Nat
  BY Sizes
<1> QED BY <1>1 DEF DailyTyped, Tally, Let, Lives, Highest

(* A key without a tally has no counter either. *)
LEMMA EveryDay ==
    ASSUME LimiterTyped, DailyTyped, DInv, NEW key, key[1] = "day"
    PROVE  DayKept(key)
<1>1. CASE key \in DOMAIN daily
  BY <1>1 DEF DInv
<1>2. CASE key \notin DOMAIN daily
  <2>1. Let(key) = 0 /\ Lives(key) = 0 /\ Highest(key) = 0 /\ key \notin DOMAIN counter
    BY <1>2 DEF Let, Lives, Highest, Tally, DInv
  <2>2. Times(0, 0) = 0 /\ faults \in Nat
    BY Sizes DEF Times, LimiterTyped
  <2> QED BY <2>1, <2>2 DEF DayKept
<1> QED BY <1>1, <1>2

(* A day that is not touched. *)
LEMMA DaySame ==
    ASSUME LimiterTyped, DailyTyped, NEW key, DayKept(key), UNCHANGED now,
           faults' \in Nat, faults <= faults', Tally(key)' = Tally(key),
           key \in DOMAIN counter' <=> key \in DOMAIN counter,
           key \in DOMAIN counter => counter'[key] = counter[key]
    PROVE  DayKept(key)'
<1>1. Let(key)' = Let(key) /\ Lives(key)' = Lives(key) /\ Highest(key)' = Highest(key)
  BY DEF Let, Lives, Highest
<1>2. /\ Let(key) \in Nat /\ Lives(key) \in Nat /\ Highest(key) \in Nat
      /\ faults \in Nat
  BY TallyTyped, Sizes DEF LimiterTyped
<1>3. CASE key \in DOMAIN counter
  <2> DEFINE m == Times(Lives(key) - 1, Highest(key))
  <2>1. Lives(key) >= 1 /\ DayStart(key[3]) <= Start(key) /\ Start(key)' = Start(key)
    BY <1>3 DEF DayKept, DayCounted, Start
  <2>2. m \in Nat
    <3>1. Lives(key) - 1 \in Nat /\ Highest(key) <= Highest(key)
      BY <1>2, <2>1
    <3> QED BY <1>2, <3>1, TimesGrows
  <2>3. PICK x \in Nat : /\ x <= counter[key].count /\ x <= Highest(key)
                         /\ Let(key) <= m + x + faults
    BY <1>3 DEF DayKept, DayCounted
  <2> HIDE DEF m
  <2>4. Let(key) <= m + x + faults'
    BY <1>2, <2>2, <2>3
  <2>5. DayCounted(key)'
    BY <1>1, <1>3, <2>1, <2>3, <2>4 DEF DayCounted, m
  <2> QED BY <1>1, <1>3, <2>5 DEF DayKept
<1>4. CASE key \notin DOMAIN counter
  <2> DEFINE m == Times(Lives(key), Highest(key))
  <2>1. m \in Nat
    BY <1>2, TimesGrows
  <2>2. Let(key) <= m + faults
    BY <1>4 DEF DayKept
  <2> HIDE DEF m
  <2>3. Let(key) <= m + faults'
    BY <1>2, <2>1, <2>2
  <2> QED BY <1>1, <1>4, <2>3 DEF DayKept, m
<1> QED BY <1>3, <1>4

(* A message that is counted, let through or not. *)
LEMMA DayStep ==
    ASSUME LimiterTyped, DailyTyped, DInv, NEW key, NEW cap \in Caps,
           key[1] = "day", key[3] \in Nat, DayStart(key[3]) <= now,
           \/ Allows(key, cap) /\ Tallies(key, cap, 1)
           \/ Refuses(key, cap) /\ Tallies(key, cap, 0)
    PROVE  DayKept(key)'
<1> DEFINE T == Let(key)
           L == Lives(key)
           C == Highest(key)
           d == DayStart(key[3])
           here == key \in DOMAIN counter
           here1 == key \in DOMAIN counter'
           T1 == Let(key)'
           L1 == Lives(key)'
           C1 == Highest(key)'
           c == Count(key)
           c1 == counter'[key].count
<1>1. /\ now \in Nat /\ now' = now /\ faults \in Nat /\ faults' \in Nat /\ d \in Nat
      /\ cap \in Nat \ {0} /\ cap < MaxCount /\ MaxCount \in Nat
      /\ Window[key[1]] = DayLength /\ DayLength \in Nat
  BY Sizes, DayStartTyped, WidgetAssumption DEF LimiterTyped, Allows, Refuses
<1>2. T \in Nat /\ L \in Nat /\ C \in Nat
  BY TallyTyped
<1>3. /\ T1 \in Nat /\ L1 \in Nat /\ C1 \in Nat /\ C <= C1 /\ cap <= C1
      /\ L1 = L + (IF ~ here /\ here1 THEN 1 ELSE 0)
      /\ \/ Allows(key, cap) /\ T1 = T + 1
         \/ Refuses(key, cap) /\ T1 = T
  <2>1. ASSUME NEW n \in {0, 1}, Tallies(key, cap, n)
        PROVE  /\ T1 \in Nat /\ L1 \in Nat /\ C1 \in Nat /\ C <= C1 /\ cap <= C1
               /\ L1 = L + (IF ~ here /\ here1 THEN 1 ELSE 0)
               /\ T1 = T + n
    <3>1. /\ DOMAIN daily' = DOMAIN daily \cup {key}
          /\ daily'[key] \in [through : Nat, lives : Nat, cap : Caps]
          /\ daily'[key].through = Tally(key).through + n
          /\ daily'[key].lives = Tally(key).lives + (IF ~ here /\ here1 THEN 1 ELSE 0)
          /\ cap <= daily'[key].cap /\ Tally(key).cap <= daily'[key].cap
      BY <2>1, Tallied
    <3>2. Tally(key)' = daily'[key]
      BY <3>1 DEF Tally
    <3>3. daily'[key].cap \in Nat
      BY <3>1, Sizes
    <3> QED BY <3>1, <3>2, <3>3 DEF Let, Lives, Highest
  <2>2. T + 0 = T
    BY <1>2
  <2> QED BY <2>1, <2>2
<1>4. DayKept(key)
  BY EveryDay
<1>5. CASE Incr(key)
  <2>1. Countable(key, cap)
    BY DEF Countable
  <2>2. /\ here1 /\ c \in 0 .. MaxCount /\ c1 \in Nat /\ c <= c1
        /\ c < MaxCount => c1 = c + 1
        /\ counter'[key].until = Until(key)
    <3>1. /\ DOMAIN counter' = DOMAIN counter \cup {key}
          /\ Count(key) \in 0 .. MaxCount /\ counter'[key].count \in 1 .. MaxCount
          /\ Count(key) < MaxCount => counter'[key].count = Count(key) + 1
          /\ Count(key) <= counter'[key].count
          /\ counter'[key].until = Until(key)
      BY <1>5, <2>1, Incremented
    <3> QED BY <1>1, <3>1
  <2>3. \/ c < cap /\ faults' = faults /\ T1 = T + 1
        \/ faults' = faults + 1 /\ T1 = T + 1
        \/ c >= cap /\ faults' = faults /\ T1 = T
    BY <1>3 DEF Allows, Refuses
  <2>4. CASE here
    <3> DEFINE m == Times(L - 1, C)
               m1 == Times(L - 1, C1)
    <3>1. /\ L >= 1 /\ d <= Start(key) /\ Start(key)' = Start(key) /\ L1 = L /\ c = counter[key].count
      BY <1>2, <1>3, <1>4, <2>2, <2>4 DEF DayKept, DayCounted, Start, Until, Count
    <3>2. m \in Nat /\ m1 \in Nat /\ m <= m1
      <4>1. L - 1 \in Nat /\ C1 <= C1
        BY <1>2, <1>3, <3>1
      <4> QED BY <1>2, <1>3, <4>1, TimesGrows
    <3>3. PICK x \in Nat : x <= c /\ x <= C /\ T <= m + x + faults
      BY <1>4, <2>4, <3>1 DEF DayKept, DayCounted
    <3> HIDE DEF m, m1, c, c1, T, L, C, T1, L1, C1
    <3>4. \E y \in Nat : y <= c1 /\ y <= C1 /\ T1 <= m1 + y + faults'
      <4>1. CASE c < cap /\ faults' = faults /\ T1 = T + 1
        <5>1. x + 1 \in Nat /\ x + 1 <= c1 /\ x + 1 <= C1 /\ T1 <= m1 + (x + 1) + faults'
          BY <1>1, <1>2, <1>3, <2>2, <3>2, <3>3, <4>1
        <5> QED BY <5>1
      <4>2. CASE \/ faults' = faults + 1 /\ T1 = T + 1
                 \/ faults' = faults /\ T1 = T
        <5>1. x <= c1 /\ x <= C1
          BY <1>1, <1>2, <1>3, <2>2, <3>3
        <5>2. T1 <= m1 + x + faults'
          <6>1. m + x + faults <= m1 + x + faults
            BY <1>1, <3>2
          <6>2. T <= m1 + x + faults
            BY <1>1, <1>2, <3>2, <3>3, <6>1
          <6> QED BY <1>1, <1>2, <3>2, <4>2, <6>2
        <5> QED BY <5>1, <5>2
      <4> QED BY <2>3, <4>1, <4>2
    <3>5. DayCounted(key)'
      BY <1>2, <3>1, <3>4 DEF DayCounted, m1, c1, T1, L1, C1
    <3>6. now' < d + DayLength => L1 <= 1
      BY <1>1, <1>4, <3>1 DEF DayKept, L
    <3> QED BY <2>2, <3>5, <3>6 DEF DayKept, L1
  <2>5. CASE ~ here
    <3> DEFINE m == Times(L, C)
               m1 == Times(L, C1)
    <3>1. c = 0 /\ c1 = 1 /\ L1 = L + 1 /\ Start(key)' = now
      BY <1>1, <1>2, <1>3, <2>2, <2>5 DEF Count, Start, Until
    <3>2. T <= m + faults /\ m \in Nat /\ m1 \in Nat /\ m <= m1
      <4>1. T <= m + faults
        BY <1>4, <2>5 DEF DayKept
      <4>2. C1 <= C1
        BY <1>3
      <4> QED BY <1>2, <1>3, <4>1, <4>2, TimesGrows
    <3> HIDE DEF m, m1, c, c1, T, C, T1, C1
    <3>3. \E y \in Nat : y <= c1 /\ y <= C1 /\ T1 <= m1 + y + faults'
      <4>1. CASE faults' = faults /\ T1 = T + 1
        <5>1. 1 <= c1 /\ 1 <= C1 /\ T1 <= m1 + 1 + faults'
          BY <1>1, <1>2, <1>3, <3>1, <3>2, <4>1
        <5> QED BY <5>1
      <4>2. CASE faults' = faults + 1 /\ T1 = T + 1
        <5>1. 0 <= c1 /\ 0 <= C1 /\ T1 <= m1 + 0 + faults'
          BY <1>1, <1>2, <1>3, <3>1, <3>2, <4>2
        <5> QED BY <5>1
      <4> QED BY <1>1, <2>3, <3>1, <4>1, <4>2
    <3>4. L1 >= 1 /\ L1 - 1 = L
      BY <1>2, <3>1
    <3>5. DayCounted(key)'
      BY <3>1, <3>3, <3>4 DEF DayCounted, m1, c1, T1, L1, C1
    <3>6. now' < d + DayLength => L1 <= 1
      BY <1>1, <1>2, <1>4, <2>5, <3>1 DEF DayKept
    <3> QED BY <2>2, <3>5, <3>6 DEF DayKept, L1
  <2> QED BY <2>4, <2>5
<1>6. CASE UNCHANGED counter /\ ~ Incr(key)
  <2>1. faults' = faults + 1 /\ T1 = T + 1 /\ L1 = L
    BY <1>2, <1>3, <1>6 DEF Allows, Refuses
  <2>2. CASE here
    <3> DEFINE m == Times(L - 1, C)
               m1 == Times(L - 1, C1)
               c0 == counter[key].count
    <3>1. /\ L >= 1 /\ d <= Start(key) /\ Start(key)' = Start(key) /\ c1 = c0
      BY <1>4, <1>6, <2>2 DEF DayKept, DayCounted, Start
    <3>2. m \in Nat /\ m1 \in Nat /\ m <= m1
      <4>1. L - 1 \in Nat /\ C1 <= C1
        BY <1>2, <1>3, <3>1
      <4> QED BY <1>2, <1>3, <4>1, TimesGrows
    <3>3. PICK x \in Nat : x <= c0 /\ x <= C /\ T <= m + x + faults
      BY <1>4, <2>2 DEF DayKept, DayCounted
    <3> HIDE DEF m, m1, c0, c1, T, C, T1, C1
    <3>4. x <= c1 /\ x <= C1 /\ T1 <= m1 + x + faults'
      BY <1>1, <1>2, <1>3, <2>1, <3>1, <3>2, <3>3
    <3>5. DayCounted(key)'
      BY <2>1, <3>1, <3>4 DEF DayCounted, m1, c1, T1, L1, C1
    <3>6. now' < d + DayLength => L1 <= 1
      BY <1>1, <1>4, <2>1 DEF DayKept
    <3> QED BY <1>6, <2>2, <3>5, <3>6 DEF DayKept
  <2>3. CASE ~ here
    <3> DEFINE m == Times(L, C)
               m1 == Times(L, C1)
    <3>1. T <= m + faults /\ m \in Nat /\ m1 \in Nat /\ m <= m1
      <4>1. T <= m + faults
        BY <1>4, <2>3 DEF DayKept
      <4>2. C1 <= C1
        BY <1>3
      <4> QED BY <1>2, <1>3, <4>1, <4>2, TimesGrows
    <3> HIDE DEF m, m1, T, C, T1, C1
    <3>2. T1 <= m1 + faults'
      BY <1>1, <1>2, <1>3, <2>1, <3>1
    <3>3. now' < d + DayLength => L1 <= 1 /\ L1 = 0
      BY <1>1, <1>4, <2>1, <2>3 DEF DayKept
    <3> QED BY <1>6, <2>1, <2>3, <3>2, <3>3 DEF DayKept, m1, T1, L1, C1
  <2> QED BY <2>2, <2>3
<1> QED BY <1>5, <1>6 DEF Allows, Refuses

LEMMA CountedDays ==
    ASSUME LimiterTyped, DailyTyped, DInv, CountsDay
    PROVE  DInv'
<1>1. PICK key : \E cap \in Caps :
        /\ key[1] = "day" /\ key[3] \in Nat /\ DayStart(key[3]) <= now
        /\ \/ Allows(key, cap) /\ Tallies(key, cap, 1)
           \/ Refuses(key, cap) /\ Tallies(key, cap, 0)
  BY DEF CountsDay
<1>2. PICK cap \in Caps :
        \/ Allows(key, cap) /\ Tallies(key, cap, 1)
        \/ Refuses(key, cap) /\ Tallies(key, cap, 0)
  BY <1>1
<1>3. /\ DOMAIN daily' = DOMAIN daily \cup {key}
      /\ \A k \in DOMAIN daily \ {key} : daily'[k] = daily[k]
  BY <1>2, Tallied
<1>4. Countable(key, cap) /\ now' = now /\ faults' \in Nat /\ faults <= faults'
  BY <1>1, <1>2, Sizes DEF Countable, LimiterTyped, Allows, Refuses
<1>5. \A k \in (DOMAIN counter' \cup DOMAIN counter) \ {key} :
         k \in DOMAIN counter' /\ k \in DOMAIN counter /\ counter'[k] = counter[k]
  <2>1. CASE UNCHANGED counter
    BY <2>1
  <2>2. CASE Incr(key)
    BY <1>4, <2>2, Incremented
  <2> QED BY <1>2, <2>1, <2>2 DEF Allows, Refuses
<1>6. \A k \in DOMAIN counter' : k[1] = "day" => k \in DOMAIN daily'
  BY <1>3, <1>5 DEF DInv
<1>7. DayKept(key)'
  BY <1>1, <1>2, DayStep
<1>8. ASSUME NEW k \in DOMAIN daily', k # key PROVE DayKept(k)'
  <2>1. k \in DOMAIN daily /\ DayKept(k)
    BY <1>3, <1>8 DEF DInv
  <2>2. Tally(k)' = Tally(k)
    BY <1>3, <1>8, <2>1 DEF Tally
  <2>3. /\ k \in DOMAIN counter' <=> k \in DOMAIN counter
        /\ k \in DOMAIN counter => counter'[k] = counter[k]
    BY <1>5, <1>8
  <2> QED BY <1>4, <2>1, <2>2, <2>3, DaySame
<1> QED BY <1>6, <1>7, <1>8 DEF DInv

(* A call of another kind is counted. *)
LEMMA OtherDays ==
    ASSUME LimiterTyped, DailyTyped, DInv, CountsFixed, UNCHANGED daily
    PROVE  DInv'
<1>1. PICK key : key[1] \in DOMAIN Limit /\ (Allows(key, Limit[key[1]]) \/ Refuses(key, Limit[key[1]]))
  BY DEF CountsFixed
<1>2. Countable(key, Limit[key[1]]) /\ now' = now /\ faults' \in Nat /\ faults <= faults'
  BY <1>1, Sizes DEF Countable, LimiterTyped, Allows, Refuses
<1>3. key[1] # "day"
  BY <1>1, Sizes
<1>4. \A k \in (DOMAIN counter' \cup DOMAIN counter) \ {key} :
         k \in DOMAIN counter' /\ k \in DOMAIN counter /\ counter'[k] = counter[k]
  <2>1. CASE UNCHANGED counter
    BY <2>1
  <2>2. CASE Incr(key)
    BY <1>2, <2>2, Incremented
  <2> QED BY <1>1, <2>1, <2>2 DEF Allows, Refuses
<1>5. \A k \in DOMAIN counter' : k[1] = "day" => k \in DOMAIN daily'
  BY <1>3, <1>4 DEF DInv
<1>6. ASSUME NEW k \in DOMAIN daily' PROVE DayKept(k)'
  <2>1. DayKept(k) /\ k # key /\ Tally(k)' = Tally(k)
    BY <1>3 DEF DInv, DailyTyped, Tally
  <2>2. /\ k \in DOMAIN counter' <=> k \in DOMAIN counter
        /\ k \in DOMAIN counter => counter'[k] = counter[k]
    BY <1>4, <2>1
  <2> QED BY <1>2, <2>1, <2>2, DaySame
<1> QED BY <1>5, <1>6 DEF DInv

(* The clock moves: a counter that lapses has let by what its cap allowed, and *)
(* its day is over.                                                           *)
LEMMA TickDays ==
    ASSUME LimiterTyped, DailyTyped, DInv, Tick, UNCHANGED daily
    PROVE  DInv'
<1>0. now \in Nat /\ now' = now + 1 /\ faults \in Nat /\ faults' = faults /\ DayLength \in Nat
  BY Sizes, WidgetAssumption DEF LimiterTyped, Tick
<1>1. \A k \in DOMAIN counter' : k \in DOMAIN counter /\ counter'[k] = counter[k]
  BY DEF Tick
<1>2. ASSUME NEW k \in DOMAIN daily PROVE DayKept(k)'
  <2> DEFINE T == Let(k)
             L == Lives(k)
             C == Highest(k)
             d == DayStart(k[3])
  <2>1. /\ DayKept(k) /\ T' = T /\ L' = L /\ C' = C
        /\ T \in Nat /\ L \in Nat /\ C \in Nat /\ k[1] = "day" /\ d \in Nat
    BY TallyTyped, DayStartTyped DEF DInv, DailyTyped, Let, Lives, Highest, Tally
  <2>2. k \in DOMAIN counter =>
          /\ counter[k].until \in Nat
          /\ counter[k].until > now' => k \in DOMAIN counter'
          /\ Start(k) = counter[k].until - DayLength
    BY <2>1, Sizes DEF LimiterTyped, CounterTyped, Tick, Start
  <2>3. CASE k \in DOMAIN counter'
    <3>1. k \in DOMAIN counter /\ counter'[k] = counter[k] /\ Start(k)' = Start(k)
      BY <1>1, <2>3 DEF Start
    <3>2. DayCounted(k) /\ (now < d + DayLength => L <= 1)
      BY <2>1, <3>1 DEF DayKept
    <3>3. DayCounted(k)'
      BY <1>0, <2>1, <3>1, <3>2 DEF DayCounted
    <3>4. now' < d + DayLength => L' <= 1
      BY <1>0, <2>1, <3>2
    <3> QED BY <2>3, <3>3, <3>4 DEF DayKept
  <2>4. CASE k \in DOMAIN counter /\ k \notin DOMAIN counter'
    <3> DEFINE m == Times(L - 1, C)
    <3>1. DayCounted(k)
      BY <2>1, <2>4 DEF DayKept
    <3>2. PICK x \in Nat : x <= C /\ T <= m + x + faults
      BY <3>1 DEF DayCounted
    <3>3. L >= 1 /\ d <= Start(k)
      BY <3>1 DEF DayCounted
    <3>4. L - 1 \in Nat /\ L - 1 + 1 = L /\ C <= C
      BY <2>1, <3>3
    <3>5. m \in Nat /\ Times(L, C) = m + C
      <4>1. m \in Nat /\ Times(L - 1 + 1, C) = m + C
        BY <2>1, <3>4, TimesGrows
      <4> QED BY <3>4, <4>1
    <3> HIDE DEF m, T, C
    <3>6. T <= Times(L, C) + faults
      BY <1>0, <2>1, <3>2, <3>5
    <3>7. ~ (now' < d + DayLength)
      BY <1>0, <2>1, <2>2, <2>4, <3>3
    <3> QED BY <1>0, <2>1, <2>4, <3>6, <3>7 DEF DayKept, T, C
  <2>5. CASE k \notin DOMAIN counter
    <3>1. k \notin DOMAIN counter'
      BY <1>1, <2>5
    <3>2. T <= Times(L, C) + faults /\ (now < d + DayLength => L = 0)
      BY <2>1, <2>5 DEF DayKept
    <3>3. now' < d + DayLength => L' <= 1 /\ L' = 0
      BY <1>0, <2>1, <3>2
    <3> QED BY <1>0, <2>1, <3>1, <3>2, <3>3 DEF DayKept
  <2> QED BY <2>3, <2>4, <2>5
<1> QED BY <1>1, <1>2 DEF DInv

LEMMA DaysAlways == Spec => []DInv
<1>1. Init => DInv
  BY DEF Init, LimiterInit, WidgetInit, DInv
<1>2. Typed /\ DInv /\ [Next]_vars => DInv'
  <2> SUFFICES ASSUME Typed, DInv, [Next]_vars PROVE DInv'
    OBVIOUS
  <2>0. LimiterTyped /\ DailyTyped
    BY DEF Typed, WInv, WidgetTyped
  <2>1. CASE CountsFixed /\ UNCHANGED daily
    BY <2>0, <2>1, OtherDays
  <2>2. CASE CountsDay
    BY <2>0, <2>2, CountedDays
  <2>3. CASE Tick /\ UNCHANGED daily
    BY <2>0, <2>3, TickDays
  <2>4. CASE UNCHANGED <<limiterVars, daily>>
    BY <2>4 DEF limiterVars, DInv, DayKept, DayCounted, Let, Lives, Highest, Tally, Start
  <2> QED BY <2>1, <2>2, <2>3, <2>4, StepCounts
<1> QED BY <1>1, <1>2, TypedAlways, PTL DEF Spec

LEMMA DaysHold == ASSUME Typed, DInv PROVE DailyCapHolds
<1> SUFFICES ASSUME NEW key \in DOMAIN daily
             PROVE  /\ daily[key].through <= daily[key].lives * daily[key].cap + faults
                    /\ key[3] = now \div DayLength => daily[key].lives <= 1
  BY DEF DailyCapHolds
<1> DEFINE T == Let(key)
           L == Lives(key)
           C == Highest(key)
<1>0. /\ now \in Nat /\ faults \in Nat /\ DailyTyped /\ DayKept(key)
      /\ T = daily[key].through /\ L = daily[key].lives /\ C = daily[key].cap
      /\ T \in Nat /\ L \in Nat /\ C \in Nat
  BY TallyTyped, Sizes
     DEF Typed, LimiterTyped, WInv, WidgetTyped, DInv, Let, Lives, Highest, Tally
<1>1. T <= Times(L, C) + faults
  <2>1. CASE key \in DOMAIN counter
    <3> DEFINE m == Times(L - 1, C)
    <3>1. DayCounted(key)
      BY <1>0, <2>1 DEF DayKept
    <3>2. PICK x \in Nat : x <= C /\ T <= m + x + faults
      BY <3>1 DEF DayCounted
    <3>3. L - 1 \in Nat /\ L - 1 + 1 = L /\ C <= C
      BY <1>0, <3>1 DEF DayCounted
    <3>4. m \in Nat /\ Times(L, C) = m + C
      <4>1. m \in Nat /\ Times(L - 1 + 1, C) = m + C
        BY <1>0, <3>3, TimesGrows
      <4> QED BY <3>3, <4>1
    <3> HIDE DEF m, T, C
    <3> QED BY <1>0, <3>2, <3>4
  <2>2. CASE key \notin DOMAIN counter
    BY <1>0, <2>2 DEF DayKept
  <2> QED BY <2>1, <2>2
<1>2. key[3] = now \div DayLength => L <= 1
  BY <1>0, Days DEF DayKept
<1> QED BY <1>0, <1>1, <1>2 DEF Times

(* Under one day's key, no more messages are let through than the highest cap *)
(* one of them read and one for each failure of Redis, for any number of      *)
(* visitors whose reading of the day and the cap is old when they are         *)
(* counted; a key of a day that is over may begin again, today's may not.     *)
THEOREM DayIsCapped == Spec => []DailyCapHolds
BY DaysAlways, TypedAlways, DaysHold, PTL
=============================================================================
