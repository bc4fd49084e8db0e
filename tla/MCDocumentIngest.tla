-------------------------- MODULE MCDocumentIngest --------------------------
EXTENDS DocumentIngest, TLC

\* Documents, jobs and clients are only compared for equality.
Symmetry == Permutations(Document) \union Permutations(Job) \union Permutations(Client)
=============================================================================
