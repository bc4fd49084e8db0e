------------------------------- MODULE Limiter -------------------------------
(***************************************************************************)
(* The fixed-window counters that guard every public route                 *)
(* (app/core/rate_limit.py).  They live in Redis, which drops a counter    *)
(* when its time is up, and which may fail: a call whose counter cannot be *)
(* reached is let through.                                                 *)
(*                                                                         *)
(* A key is a tuple that begins with its kind; the kind fixes the window.  *)
(***************************************************************************)
EXTENDS Naturals

CONSTANTS
    Kind,       \* what is counted
    Limit,      \* admissions within one window, of each kind that has a fixed limit
    Window,     \* how long a counter of each kind lives
    MaxCount,   \* bound: a counter is exact up to here
    MaxTime,    \* bound: ticks of the clock
    MaxFaults   \* bound: calls to Redis that fail

ASSUME LimiterAssumption ==
    /\ DOMAIN Limit \subseteq Kind /\ Window \in [Kind -> Nat \ {0}]
    /\ MaxCount \in Nat /\ \A k \in DOMAIN Limit : Limit[k] \in 1 .. MaxCount - 1
    /\ MaxTime \in Nat /\ MaxFaults \in Nat

VARIABLES
    now,       \* the clock
    counter,   \* the keys Redis holds
    admitted,  \* history: the counted calls of such a key admitted at a time, for one window
    faults

limiterVars == <<now, counter, admitted, faults>>

(* A function with one more entry, or another value for one it has. *)
With(f, k, v) == [x \in DOMAIN f \cup {k} |-> IF x = k THEN v ELSE f[x]]

Count(key) == IF key \in DOMAIN counter THEN counter[key].count ELSE 0

LimiterInit ==
    /\ now = 0
    /\ counter = <<>>
    /\ admitted = <<>>
    /\ faults = 0

(* Mutant: every counter lives as long as the messages of a visitor are counted. *)
UntilShort(key) ==
    IF key \in DOMAIN counter THEN counter[key].until ELSE now + Window["visitor"]

(* The end of a counter's life is fixed by the call that creates it. *)
Until(key) ==
    IF key \in DOMAIN counter THEN counter[key].until ELSE now + Window[key[1]]

(* Mutant: the expiry is a second command, and may not be reached. *)
IncrTwoCommands(key) ==
    \E until \in {Until(key), MaxTime + 1 + Window[key[1]]} :
        counter' = With(counter, key,
                        [count |-> IF Count(key) < MaxCount THEN Count(key) + 1 ELSE MaxCount,
                         until |-> IF Count(key) = 0 THEN until ELSE Until(key)])

(* INCR and EXPIRE, one script. *)
Incr(key) ==
    counter' = With(counter, key,
                    [count |-> IF Count(key) < MaxCount THEN Count(key) + 1 ELSE MaxCount,
                     until |-> Until(key)])

Admitted(key, t) == IF <<key, t>> \in DOMAIN admitted THEN admitted[<<key, t>>] ELSE 0

Admits(key) ==
    admitted' = IF key[1] \in DOMAIN Limit
                THEN With(admitted, <<key, now>>, Admitted(key, now) + 1) ELSE admitted

(* Mutant: one call more. *)
AllowsOneMore(key, limit) ==
    \/ /\ Count(key) <= limit
       /\ Incr(key)
       /\ Admits(key)
       /\ UNCHANGED <<now, faults>>
    \/ /\ faults < MaxFaults
       /\ faults' = faults + 1
       /\ Incr(key) \/ UNCHANGED counter
       /\ UNCHANGED <<now, admitted>>

(* The call is admitted: it is within the limit, or Redis failed, before or  *)
(* after it counted the call.                                                *)
Allows(key, limit) ==
    \/ /\ Count(key) < limit
       /\ Incr(key)
       /\ Admits(key)
       /\ UNCHANGED <<now, faults>>
    \/ /\ faults < MaxFaults
       /\ faults' = faults + 1
       /\ Incr(key) \/ UNCHANGED counter
       /\ UNCHANGED <<now, admitted>>

(* A refused call is counted as well. *)
Refuses(key, limit) ==
    /\ Count(key) >= limit
    /\ Incr(key)
    /\ UNCHANGED <<now, admitted, faults>>

Tick ==
    /\ now < MaxTime
    /\ now' = now + 1
    /\ counter' = [k \in {k \in DOMAIN counter : counter[k].until > now'} |-> counter[k]]
    /\ admitted' = [x \in {x \in DOMAIN admitted : x[2] + Window[x[1][1]] > now'} |-> admitted[x]]
    /\ UNCHANGED faults
=============================================================================
