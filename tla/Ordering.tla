------------------------------ MODULE Ordering ------------------------------
(***************************************************************************)
(* A finite set as the sequence of its members in some order, and what is  *)
(* kept of a sequence.  Said by rank: SortSeq and SelectSeq, on which      *)
(* SequencesExt builds, are operators the provers do not expand.           *)
(***************************************************************************)
EXTENDS Naturals, FiniteSets

\* Before is a strict total order of S.
Ranked(S, Before(_, _)) ==
    [n \in 1..Cardinality(S) |->
        CHOOSE x \in S : Cardinality({y \in S : Before(y, x)}) = n - 1]

Increasing(S) == Ranked(S, LAMBDA i, j : i < j)

\* The elements of s at the positions of a set, in their order.
KeptAt(s, positions) ==
    LET at == Increasing(positions) IN [n \in DOMAIN at |-> s[at[n]]]

=============================================================================
