----------------------------- MODULE Transcript -----------------------------
(***************************************************************************)
(* What a stored conversation promises its readers: it grows by one turn   *)
(* at a time, each after everything already there, a turn enters at most   *)
(* once, and nothing is ever taken out or moved while it exists.           *)
(***************************************************************************)
EXTENDS Naturals

CONSTANTS Turn, Conversation

VARIABLES
    state,   \* "absent", "live" or "deleted"
    entries  \* where each turn begins in its conversation

vars == <<state, entries>>

Entry == [conv: Conversation, turn: Turn, at: Nat]

Init ==
    /\ state = [c \in Conversation |-> "absent"]
    /\ entries = {}

\* A conversation may also begin without a turn.
Open(c) ==
    /\ state[c] = "absent"
    /\ state' = [state EXCEPT ![c] = "live"]
    /\ UNCHANGED entries

Append(c, t) ==
    /\ state[c] \in {"absent", "live"}
    /\ \A e \in entries : e.turn # t
    /\ \E e \in entries' :
         /\ e \in Entry /\ e.conv = c /\ e.turn = t
         /\ \A d \in entries : d.conv = c => d.at < e.at
         /\ entries' = entries \union {e}
    /\ state' = [state EXCEPT ![c] = "live"]

Delete(c) ==
    /\ state[c] = "live"
    /\ state' = [state EXCEPT ![c] = "deleted"]
    /\ entries' = {e \in entries : e.conv # c}

Next ==
    \E c \in Conversation :
        Open(c) \/ Delete(c) \/ (\E t \in Turn : Append(c, t))

Spec == Init /\ [][Next]_vars
=============================================================================
