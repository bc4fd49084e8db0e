----------------------------- MODULE Catalogue -----------------------------
(***************************************************************************)
(* What the product catalogue promises search, whatever imports run, fail  *)
(* or run again: a product once there stays, a vector once there stays     *)
(* until a newer one replaces it, and a vector is only ever stored for the *)
(* text its row has at that moment.                                        *)
(***************************************************************************)
CONSTANTS Product, Text, NoText

VARIABLES
    text,   \* what each product says, NoText when there is no such row
    vector  \* the text its embedding was computed from, NoText when it has none

vars == <<text, vector>>

Init ==
    /\ text = [p \in Product |-> NoText]
    /\ vector = [p \in Product |-> NoText]

\* Rows appear or say something new; their vectors are left alone.
Write ==
    /\ text' \in [Product -> Text \union {NoText}]
    /\ \A p \in Product : text[p] # NoText => text'[p] # NoText
    /\ UNCHANGED vector

\* Rows get the vectors of what they say.
Embed ==
    /\ vector' \in [Product -> Text \union {NoText}]
    /\ \A p \in Product :
         vector'[p] # vector[p] => vector'[p] = text[p] /\ text[p] # NoText
    /\ UNCHANGED text

Next == Write \/ Embed

Spec == Init /\ [][Next]_vars
=============================================================================
