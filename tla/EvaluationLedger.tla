-------------------------- MODULE EvaluationLedger --------------------------
(***************************************************************************)
(* What the runs of one dataset promise whoever pays for them: one run is  *)
(* open at a time, a run ends once, and each case is entered and billed at *)
(* most once per run.  A case in flight may still be entered after the end.*)
(***************************************************************************)
EXTENDS Naturals

CONSTANTS Run, Case

VARIABLES
    state,   \* "absent", "open", one of Ends, or "deleted"
    sheet,   \* the cases entered for each run
    bill     \* how often each case of each run was billed

vars == <<state, sheet, bill>>

Ends == {"completed", "failed", "cancelled"}

Init ==
    /\ state = [r \in Run |-> "absent"]
    /\ sheet = [r \in Run |-> {}]
    /\ bill = [r \in Run |-> [c \in Case |-> 0]]

Open(r) ==
    /\ state[r] = "absent"
    /\ \A s \in Run : state[s] # "open"
    /\ state' = [state EXCEPT ![r] = "open"]
    /\ UNCHANGED <<sheet, bill>>

End(r) ==
    /\ state[r] = "open"
    /\ \E how \in Ends : state' = [state EXCEPT ![r] = how]
    /\ UNCHANGED <<sheet, bill>>

Enter(r, c) ==
    /\ state[r] \in Ends \union {"open"}
    /\ c \notin sheet[r]
    /\ sheet' = [sheet EXCEPT ![r] = sheet[r] \union {c}]
    /\ bill' = [bill EXCEPT ![r][c] = bill[r][c] + 1]
    /\ UNCHANGED state

\* The sheet goes with the run; what was billed stays billed.
Delete(r) ==
    /\ state[r] \in Ends \union {"open"}
    /\ state' = [state EXCEPT ![r] = "deleted"]
    /\ sheet' = [sheet EXCEPT ![r] = {}]
    /\ UNCHANGED bill

Next ==
    \E r \in Run :
        Open(r) \/ End(r) \/ Delete(r) \/ (\E c \in Case : Enter(r, c))

Spec == Init /\ [][Next]_vars
=============================================================================
