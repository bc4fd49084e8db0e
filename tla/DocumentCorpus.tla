--------------------------- MODULE DocumentCorpus ---------------------------
(***************************************************************************)
(* What ingestion promises the rest of the system, whatever its workers,   *)
(* retries and failures do: a document's chunks appear all at once, stay   *)
(* until the document is deleted, and a document retrieval may search is   *)
(* one whose chunks are there.                                             *)
(***************************************************************************)
CONSTANT Document

VARIABLES
    corpus,      \* "absent", then "bare", "indexed", and "gone" for ever
    searchable   \* whether retrieval looks at its chunks

vars == <<corpus, searchable>>

Init ==
    /\ corpus = [d \in Document |-> "absent"]
    /\ searchable = [d \in Document |-> FALSE]

Create(d) ==
    /\ corpus[d] = "absent"
    /\ corpus' = [corpus EXCEPT ![d] = "bare"]
    /\ UNCHANGED searchable

\* An ingest commits: all the chunks, replacing the ones that were there.
Index(d) ==
    /\ corpus[d] \in {"bare", "indexed"}
    /\ corpus' = [corpus EXCEPT ![d] = "indexed"]
    /\ \E visible \in BOOLEAN : searchable' = [searchable EXCEPT ![d] = visible]

\* Another run starts, a retry is accepted or a failure is recorded: the
\* document is hidden and its chunks are kept.
Hide(d) ==
    /\ searchable' = [searchable EXCEPT ![d] = FALSE]
    /\ UNCHANGED corpus

Remove(d) ==
    /\ corpus[d] \in {"bare", "indexed"}
    /\ corpus' = [corpus EXCEPT ![d] = "gone"]
    /\ searchable' = [searchable EXCEPT ![d] = FALSE]

Next == \E d \in Document : Create(d) \/ Index(d) \/ Hide(d) \/ Remove(d)

Spec == Init /\ [][Next]_vars
=============================================================================
