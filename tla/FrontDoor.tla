------------------------------ MODULE FrontDoor ------------------------------
(***************************************************************************)
(* Everything a caller meets before the application knows who they are:    *)
(* the widget of an anonymous visitor and the sign-in of a user, behind    *)
(* the same counters and the same clock.                                   *)
(***************************************************************************)
EXTENDS Widget, SignIn

vars == <<limiterVars, widgetVars, signInVars>>

Init == LimiterInit /\ WidgetInit /\ SignInInit

Next ==
    \/ WidgetStep /\ UNCHANGED signInVars
    \/ SignInStep /\ UNCHANGED widgetVars
    \/ Tick /\ UNCHANGED <<widgetVars, signInVars>>

Spec == Init /\ [][Next]_vars

-----------------------------------------------------------------------------
(* Properties. *)

(* The type invariant; no counter lives longer than its window. *)
TypeOK ==
    /\ now \in 0 .. MaxTime /\ faults \in 0 .. MaxFaults
    /\ \A key \in DOMAIN counter :
          /\ counter[key] \in [count : 1 .. MaxCount, until : Nat]
          /\ counter[key].until \in now + 1 .. now + Window[key[1]]
    /\ \A x \in DOMAIN admitted : x[2] \in 0 .. now /\ admitted[x] \in Nat \ {0}
    /\ widget \in [Agent -> [open : BOOLEAN, cap : Caps]]
    /\ token \in [Browser -> Token \cup {None}]
    /\ minted \subseteq Visitor
    /\ conversation \in [Conversation -> Stored \cup {None}]
    /\ call \in [Browser -> Waiting]
    /\ sessions \in [Browser -> Nat] /\ orphaned \in [Browser -> 0 .. MaxOrphans]
    /\ \A key \in DOMAIN daily : daily[key] \in [through : Nat, lives : Nat, cap : Caps]
    /\ account \subseteq Account
    /\ refresh \in [Jti -> Nat]
    /\ cookie \in Jti \cup {NoToken}
    /\ DOMAIN denied \subseteq Jti /\ \A j \in DOMAIN denied : denied[j] \in Nat
    /\ tab \in [Tab -> [step : TabStep, account : SUBSET Account, jti : Jti \cup {NoToken}]]
    /\ burned \subseteq Jti /\ raced \subseteq Jti
    /\ heirs \in [Jti -> SUBSET Jti]

(* The admissions of a key since a time, the i-th of each moment as <<t, i>>. *)
Admissions(key, from) == UNION {{t} \X (1 .. Admitted(key, t)) : t \in from .. now}

Total(key, from) == Cardinality(Admissions(key, from))

Keys == {x[1] : x \in DOMAIN admitted}

(* A fixed window lets through less than twice its limit in any interval of  *)
(* its length, wherever the interval begins, as long as Redis answers.       *)
(* (enforce_rate_limit; its docstring names the boundary.)                   *)
LessThanTwiceTheLimit ==
    \A key \in Keys, t \in 0 .. now :
        t + Window[key[1]] > now => Total(key, t) < 2 * Limit[key[1]]

(* Under one day's key, whenever they are counted, no more messages are let  *)
(* through than the highest cap one of them read, and one for each failure   *)
(* of Redis: messages that read a cap which was lowered since, or a day that *)
(* is over, included.  Only a counter that has lapsed can begin again, and   *)
(* no counter lapses before its day is over.                                 *)
(* (_enforce_daily_cap: a day in the key, a window of a day.)                *)
DailyCapHolds ==
    \A key \in DOMAIN daily :
        /\ daily[key].through <= daily[key].lives * daily[key].cap + faults
        /\ key[3] = now \div DayLength => daily[key].lives <= 1

(* No browser is shown, or goes on with, a conversation another one began,   *)
(* although it may present any id: a visitor's id is kept only by the        *)
(* browser that holds a valid token for the same agent, a turn goes on only  *)
(* under the visitor it began with, and two turns never share a conversation *)
(* that is not stored yet.                                                   *)
(* (_reusable_visitor_id, get_conversation, ChatService.send.)               *)
VisitorsAreApart ==
    \A b \in Browser :
        /\ Valid(b) => \A k \in Latest(b) : conversation[k].browser = b
        /\ LET k == call[b].conv IN
           call[b].step \in {"handed", "stream"} =>
              IF conversation[k] = None
              THEN \A c \in Browser \ {b} :
                      call[c].conv = k => call[c].step \notin {"handed", "stream"}
              ELSE conversation[k].browser = b /\ conversation[k].visitor = call[b].visitor

(* The steps of a call that holds a database session. *)
Holding == {"cap", "first", "handed", "stream"}

(* Every database session a message opened by hand is closed once, whatever  *)
(* refuses it, fails or leaves, except for a response dropped between its    *)
(* hand-over and the first step of its body: that session nobody closes.     *)
(* (widget_chat_stream, stream_body.)                                        *)
SessionsAreReturned ==
    \A b \in Browser :
        sessions[b] = orphaned[b] + (IF call[b].step \in Holding THEN 1 ELSE 0)

(* A revoked refresh token is refused until it expires on its own: however   *)
(* long after it was signed it is revoked, the denylist does not forget it   *)
(* earlier.  (revoke_refresh, rotate_refresh.)                               *)
RevokedStaysRevoked == \A j \in burned : Denied(j) \/ ~ Unexpired(j)

(* While a refresh token is valid it is traded once, unless two tabs were    *)
(* trading it at the same time.  (rotate_refresh.)                           *)
OneHeirUnlessRaced ==
    \A j \in Jti \ raced : Unexpired(j) => Cardinality(heirs[j]) <= 1
=============================================================================
