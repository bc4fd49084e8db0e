------------------------------- MODULE Widget -------------------------------
(***************************************************************************)
(* The public side of an embedded assistant (app/api/widget.py): a browser *)
(* asks whether and how to draw the launcher, gets an anonymous visitor's  *)
(* token, picks up the visitor's last conversation, and sends messages.    *)
(* A step ends where the handler awaits Redis or the database, and where   *)
(* it hands its response over to the server.                               *)
(*                                                                         *)
(* The browsers share one address.  Every token is presented by the        *)
(* browser it was given to; a conversation's id may be presented by any.   *)
(***************************************************************************)
EXTENDS Limiter, FiniteSets

CONSTANTS
    Browser, Agent,
    Visitor,       \* the random ids a visitor may be given
    Conversation,
    Caps,          \* daily message caps an owner may set
    DefaultCap,
    TokenLife,
    DayLength,
    MaxOrphans,    \* bound: responses of a browser that are dropped before their body begins
    None

ASSUME WidgetAssumption ==
    /\ {"frame", "config", "session", "visitor", "ip"} \subseteq DOMAIN Limit
    /\ "day" \in Kind \ DOMAIN Limit
    /\ Caps \subseteq 1 .. MaxCount - 1 /\ DefaultCap \in Caps
    /\ TokenLife \in Nat /\ DayLength \in Nat \ {0} /\ MaxOrphans \in Nat
    /\ Window["day"] = DayLength
    /\ None \notin Agent \cup Visitor \cup Conversation
    /\ None \notin [agent : Agent, visitor : Visitor, at : 0 .. MaxTime, browser : Browser]

VARIABLES
    widget,        \* whether an agent's widget can be reached, and its daily cap
    token,         \* the visitor token a browser holds
    minted,        \* the visitor ids given out so far
    conversation,  \* the stored conversations
    call,          \* what each browser is waiting for
    sessions,      \* the open database sessions each browser's calls have opened
    orphaned,      \* history: the responses of a browser whose body never began
    daily          \* history: the messages let through under a day's key

widgetVars == <<widget, token, minted, conversation, call, sessions, orphaned, daily>>

Token == [agent : Agent, visitor : Visitor, until : Nat]

CallStep == {"idle", "mint", "visitor", "ip", "load", "cap", "first", "handed", "stream"}

Waiting == [step : CallStep, agent : Agent \cup {None}, visitor : Visitor \cup {None},
            conv : Conversation \cup {None}, day : Nat, cap : Nat]

NoCall == [step |-> "idle", agent |-> None, visitor |-> None, conv |-> None, day |-> 0, cap |-> 0]

Stored == [agent : Agent, visitor : Visitor, at : Nat, browser : Browser]

WidgetInit ==
    /\ widget = [a \in Agent |-> [open |-> FALSE, cap |-> DefaultCap]]
    /\ token = [b \in Browser |-> None]
    /\ minted = {}
    /\ conversation = [k \in Conversation |-> None]
    /\ call = [b \in Browser |-> NoCall]
    /\ sessions = [b \in Browser |-> 0]
    /\ orphaned = [b \in Browser |-> 0]
    /\ daily = <<>>

Valid(b) == token[b] # None /\ token[b].until > now

At(b, step) == call[b].step = step

Goes(b, step) == call' = [call EXCEPT ![b].step = step]

Over(b) == call' = [call EXCEPT ![b] = NoCall]

OpenSession(b) == sessions' = [sessions EXCEPT ![b] = sessions[b] + 1]

CloseSession(b) == sessions' = [sessions EXCEPT ![b] = sessions[b] - 1]

(* The call is over, and with it its database session. *)
Ends(b) == Over(b) /\ CloseSession(b)

-----------------------------------------------------------------------------
(* The owner switches the widget on and off and sets the cap; so does an     *)
(* agent that is activated, disabled or deleted.                             *)
UpdateWidget(a, open, cap) ==
    /\ widget[a] # [open |-> open, cap |-> cap]
    /\ widget' = [widget EXCEPT ![a] = [open |-> open, cap |-> cap]]
    /\ UNCHANGED <<limiterVars, token, minted, conversation, call, sessions, orphaned, daily>>

(* Our own web server is not limited; a malformed key is answered unread. *)
FramePolicy(a) ==
    /\ Allows(<<"frame", a>>, Limit["frame"]) \/ Refuses(<<"frame", a>>, Limit["frame"])
    /\ UNCHANGED widgetVars

LauncherConfig(a) ==
    /\ Allows(<<"config", a>>, Limit["config"]) \/ Refuses(<<"config", a>>, Limit["config"])
    /\ UNCHANGED widgetVars

-----------------------------------------------------------------------------
(* A visitor's identity. *)

Give(b, a, v) == token' = [token EXCEPT ![b] = [agent |-> a, visitor |-> v,
                                                until |-> now + TokenLife]]

(* A browser that holds a valid token for this agent keeps its visitor and   *)
(* is not counted.                                                           *)
CreateSession(b, a) ==
    /\ At(b, "idle") /\ widget[a].open
    /\ \/ /\ Valid(b) /\ token[b].agent = a
          /\ Give(b, a, token[b].visitor)
          /\ UNCHANGED call
       \/ /\ ~ (Valid(b) /\ token[b].agent = a)
          /\ call' = [call EXCEPT ![b] = [NoCall EXCEPT !.step = "mint", !.agent = a]]
          /\ UNCHANGED token
    /\ UNCHANGED <<limiterVars, widget, minted, conversation, sessions, orphaned, daily>>

MintVisitor(b) ==
    /\ At(b, "mint")
    /\ \/ /\ Allows(<<"session">>, Limit["session"])
          /\ Visitor # minted
          /\ LET v == CHOOSE v \in Visitor : v \notin minted IN
             Give(b, call[b].agent, v) /\ minted' = minted \cup {v}
       \/ /\ Refuses(<<"session">>, Limit["session"])
          /\ UNCHANGED <<token, minted>>
    /\ Over(b)
    /\ UNCHANGED <<widget, conversation, sessions, orphaned, daily>>

(* The visitor's conversations with the agent of its token. *)
Own(b) ==
    {k \in Conversation : conversation[k] # None
        /\ conversation[k].agent = token[b].agent
        /\ conversation[k].visitor = token[b].visitor}

(* Where a returning visitor goes on: the conversation of its last message. *)
Latest(b) == {k \in Own(b) : \A j \in Own(b) : conversation[j].at <= conversation[k].at}

-----------------------------------------------------------------------------
(* A message. *)

(* The id of a conversation comes with the request: the visitor's own, one   *)
(* of another visitor or agent, one that does not exist, or none.            *)
Send(b, k) ==
    /\ At(b, "idle") /\ Valid(b)
    /\ call' = [call EXCEPT ![b] = [NoCall EXCEPT !.step = "visitor", !.agent = token[b].agent,
                                                  !.visitor = token[b].visitor, !.conv = k]]
    /\ UNCHANGED <<limiterVars, widget, token, minted, conversation, sessions, orphaned, daily>>

(* The two counters that cost no database session come first. *)
VisitorLimit(b) ==
    LET key == <<"visitor", call[b].visitor>> IN
    /\ At(b, "visitor")
    /\ \/ Allows(key, Limit["visitor"]) /\ Goes(b, "ip")
       \/ Refuses(key, Limit["visitor"]) /\ Over(b)
    /\ UNCHANGED <<widget, token, minted, conversation, sessions, orphaned, daily>>

IpLimit(b) ==
    /\ At(b, "ip")
    /\ \/ Allows(<<"ip">>, Limit["ip"]) /\ Goes(b, "load")
       \/ Refuses(<<"ip">>, Limit["ip"]) /\ Over(b)
    /\ UNCHANGED <<widget, token, minted, conversation, sessions, orphaned, daily>>

(* The widget is there: the day and the cap are those of this moment. *)
Loads(b) ==
    /\ widget[call[b].agent].open
    /\ call' = [call EXCEPT ![b].step = "cap", ![b].day = now \div DayLength,
                            ![b].cap = widget[call[b].agent].cap]

(* Mutant: a widget that has gone leaves the session open. *)
LoadAvailableLeaks(b) ==
    /\ At(b, "load")
    /\ Loads(b) \/ (~ widget[call[b].agent].open /\ Over(b))
    /\ OpenSession(b)
    /\ UNCHANGED <<limiterVars, widget, token, minted, conversation, orphaned, daily>>

(* A session is opened and the widget read; one that has gone is refused,    *)
(* and the session closed again.                                             *)
LoadAvailable(b) ==
    /\ At(b, "load")
    /\ \/ Loads(b) /\ OpenSession(b)
       \/ ~ widget[call[b].agent].open /\ Over(b) /\ UNCHANGED sessions
    /\ UNCHANGED <<limiterVars, widget, token, minted, conversation, orphaned, daily>>

(* What a day's key has seen: the messages let through under it, the         *)
(* counters it had, one after the other, and the highest cap it was given.   *)
Tally(key) ==
    IF key \in DOMAIN daily THEN daily[key] ELSE [through |-> 0, lives |-> 0, cap |-> 0]

Tallies(key, cap, through) ==
    LET begins == key \notin DOMAIN counter /\ key \in DOMAIN counter' IN
    daily' = With(daily, key,
                  [through |-> Tally(key).through + through,
                   lives |-> Tally(key).lives + (IF begins THEN 1 ELSE 0),
                   cap |-> IF Tally(key).cap < cap THEN cap ELSE Tally(key).cap])

(* The message is counted under the day it read, be that over or not, and    *)
(* against the cap it read.                                                  *)
DailyCap(b) ==
    LET key == <<"day", call[b].agent, call[b].day>> IN
    /\ At(b, "cap")
    /\ \/ Allows(key, call[b].cap) /\ Tallies(key, call[b].cap, 1)
          /\ Goes(b, "first") /\ UNCHANGED sessions
       \/ Refuses(key, call[b].cap) /\ Tallies(key, call[b].cap, 0)
          /\ Ends(b)
    /\ UNCHANGED <<widget, token, minted, conversation, orphaned>>

(* Mutant: only the agent of the conversation is compared. *)
MayContinueAnyVisitor(b, k) ==
    /\ conversation[k] # None
    /\ conversation[k].agent = call[b].agent

(* The turn is the visitor's own, with the agent it began with. *)
MayContinue(b, k) ==
    /\ conversation[k] # None
    /\ conversation[k].visitor = call[b].visitor
    /\ conversation[k].agent = call[b].agent

(* The turn runs up to its first event and the response is handed over, or   *)
(* the turn is refused as a plain error.  A new conversation has an id that  *)
(* nobody could name before.                                                 *)
FirstEvent(b) ==
    LET k == call[b].conv IN
    /\ At(b, "first")
    /\ \/ /\ k # None /\ MayContinue(b, k)
          /\ Goes(b, "handed")
          /\ UNCHANGED sessions
       \/ /\ k # None /\ ~ MayContinue(b, k)
          /\ Ends(b)
       \/ /\ k = None
          /\ \E new \in Conversation :
                /\ conversation[new] = None
                /\ \A c \in Browser : call[c].conv # new
                /\ call' = [call EXCEPT ![b].step = "handed", ![b].conv = new]
          /\ UNCHANGED sessions
    /\ UNCHANGED <<limiterVars, widget, token, minted, conversation, orphaned, daily>>

(* The server begins to iterate the body, whose end closes the session. *)
Begin(b) ==
    /\ At(b, "handed")
    /\ Goes(b, "stream")
    /\ UNCHANGED <<limiterVars, widget, token, minted, conversation, sessions, orphaned, daily>>

(* The body ends: the turn, and the conversation it may have begun, commit. *)
EndStream(b) ==
    LET k == call[b].conv IN
    /\ At(b, "stream")
    /\ conversation' = [conversation EXCEPT ![k] =
            [agent |-> call[b].agent, visitor |-> call[b].visitor, at |-> now,
             browser |-> IF conversation[k] = None THEN b ELSE conversation[k].browser]]
    /\ Ends(b)
    /\ UNCHANGED <<limiterVars, widget, token, minted, orphaned, daily>>

(* The browser leaves, the provider is missing, the process shuts down: the  *)
(* call is over, and nothing is committed.                                   *)
Abandon(b) ==
    /\ ~ At(b, "idle") /\ ~ At(b, "handed")
    /\ Over(b)
    /\ IF call[b].step \in {"cap", "first", "stream"} THEN CloseSession(b) ELSE UNCHANGED sessions
    /\ UNCHANGED <<limiterVars, widget, token, minted, conversation, orphaned, daily>>

(* The response is dropped before its body has begun: the body's finally,    *)
(* which alone would close the session, never runs.                          *)
DropUnread(b) ==
    /\ At(b, "handed") /\ orphaned[b] < MaxOrphans
    /\ Over(b)
    /\ orphaned' = [orphaned EXCEPT ![b] = orphaned[b] + 1]
    /\ UNCHANGED <<limiterVars, widget, token, minted, conversation, sessions, daily>>

WidgetStep ==
    \/ \E a \in Agent :
          \/ \E open \in BOOLEAN, cap \in Caps : UpdateWidget(a, open, cap)
          \/ FramePolicy(a) \/ LauncherConfig(a)
          \/ \E b \in Browser : CreateSession(b, a)
    \/ \E b \in Browser :
          \/ MintVisitor(b)
          \/ \E k \in Conversation \cup {None} : Send(b, k)
          \/ VisitorLimit(b) \/ IpLimit(b) \/ LoadAvailable(b) \/ DailyCap(b)
          \/ FirstEvent(b) \/ Begin(b) \/ EndStream(b) \/ Abandon(b) \/ DropUnread(b)
=============================================================================
